--------------------------- MODULE GattDiscovery ---------------------------
(***************************************************************************)
(* How lib/bluez/gatt-client.c learns the server's services: the exchange  *)
(* of MTUs and the chain of discovery procedures behind the ready          *)
(* callback, and the rediscovery of a range of handles each time the       *)
(* server indicates that its services have changed.                        *)
(*                                                                         *)
(* A slot is a range of handles with room for one service.  A service's    *)
(* contents are its version: the database remembers which versions a       *)
(* service was put together from.  A discovery procedure is one request    *)
(* here, answered and handled in one step: ATT delivers responses and      *)
(* indications in order, so what the server does in between can as well be *)
(* done before or after.  An indication is sent late, not delivered late.  *)
(***************************************************************************)
EXTENDS Naturals, Sequences, SequencesExt, FiniteSets, FiniteSetsExt

CONSTANTS
  Slots,       (* numbered in the order of their handles                   *)
  Gatt,        (* the slot of the GATT service, with Service Changed in it *)
  Secondary,   (* slots whose service, if any, is secondary                *)
  Single,      (* slots whose service is its declaration and nothing else  *)
  Described,   (* slots whose characteristic has room for descriptors      *)
  Included,    (* per slot, the slots its service includes if present      *)
  Worlds,      (* what may happen, see world                               *)
  MaxChanges   (* bound: how often the server changes                      *)

ASSUME DiscoveryConstantsOK ==
  /\ Slots \subseteq Nat /\ IsFiniteSet(Slots)
  /\ Gatt \in Slots \ (Secondary \union Single)
  /\ Secondary \union Single \union Described \subseteq Slots
  /\ Single \intersect Described = {}
  /\ Included \in [Slots -> SUBSET Slots]
  /\ \A s \in Single : Included[s] = {}
  /\ Worlds \subseteq SUBSET {"errors", "early", "gatt", "overlap", "secondary"}
  /\ MaxChanges \in Nat

VARIABLES
  world,           (* "errors": requests may be refused for other reasons  *)
                   (* than that nothing was found; "early": the server     *)
                   (* changes before it was asked to tell; "gatt": the     *)
                   (* GATT service changes; "overlap": the server changes  *)
                   (* while the client is working on an earlier change;    *)
                   (* "secondary": only secondary services change          *)
  table,           (* the server: the version of each service, 0: none     *)
  changes,         (* how often it has changed                             *)
  ccc,             (* the server has been asked to indicate changes        *)
  owed,            (* changed ranges it has yet to indicate                *)
  up,              (* the ATT bearer is connected                          *)
  db,              (* per slot the service in client->db                   *)
  in_init, ready, in_svc_chngd, svc_chngd_queue,
  svc_chngd_ind_id,(* client->svc_chngd_ind_id # 0                         *)
  listening,       (* service_changed_cb is in notify_list                 *)
  registering,     (* the write to the CCC of Service Changed is pending   *)
  asked,           (* the discovery request that is pending                *)
  op_range,        (* slots from op->start to op->end                      *)
  pending_svcs, tmp_queue, cur_svc,   (* of the discovery_op               *)
  told             (* history: what ready_callback was told, each time     *)

server == <<table, changes, ccc, owed>>
flags  == <<in_init, ready, in_svc_chngd>>
events == <<svc_chngd_queue, svc_chngd_ind_id, listening, registering>>
op     == <<asked, op_range, pending_svcs, tmp_queue, cur_svc>>
vars == <<world, server, up, db, flags, events, op, told>>

Span(lo, hi) == {s \in Slots : lo <= s /\ s <= hi}
Ranges == {Span(lo, hi) : lo \in Slots, hi \in Slots} \ {{}}
Versions == 1 .. (MaxChanges + 1)
Absent == [seen |-> {}, active |-> FALSE]
Requests == {"mtu", "primary", "secondary", "includes", "chrcs", "descs"}

TypeOK ==
  /\ world \in Worlds
  /\ table \in [Slots -> Versions \union {0}]
  /\ changes \in 0 .. MaxChanges
  /\ owed \in Seq(Ranges) /\ svc_chngd_queue \in Seq(Ranges)
  /\ db \in [Slots -> [seen : SUBSET Versions, active : BOOLEAN]]
  /\ {ccc, up, in_init, ready, in_svc_chngd, svc_chngd_ind_id, listening,
      registering} \subseteq BOOLEAN
  /\ asked \in Requests \union {"nothing"}
  /\ op_range \in Ranges
  /\ pending_svcs \in Seq(Slots) /\ tmp_queue \in Seq(Slots)
  /\ cur_svc \in Slots
  /\ told \in Seq(BOOLEAN)

(* bt_gatt_client_new and gatt_client_init, then the ready handler is set. *)
Init ==
  /\ world \in Worlds
  /\ table \in [Slots -> {0, 1}]
  /\ changes = 0 /\ ccc = FALSE /\ owed = <<>>
  /\ up = TRUE
  /\ db = [s \in Slots |-> Absent]
  /\ in_init = TRUE /\ ready = FALSE /\ in_svc_chngd = FALSE
  /\ svc_chngd_queue = <<>>
  /\ svc_chngd_ind_id = FALSE /\ listening = FALSE /\ registering = FALSE
  /\ asked = "mtu"
  /\ op_range = Slots
  /\ pending_svcs = <<>> /\ tmp_queue = <<>>
  /\ cur_svc = Gatt
  /\ told = <<>>

-----------------------------------------------------------------------------
(* The end of a discovery.                                                 *)

Cleared(d, slots) == [s \in Slots |-> IF s \in slots THEN Absent ELSE d[s]]

(* Mutant of NotifyReady: a client that is ready already is told again.     *)
NotifyReady_Again(success) ==
  /\ ready' = success
  /\ told' = Append(told, success)

(* notify_client_ready *)
NotifyReady(success) ==
  /\ ready' = (ready \/ success)
  /\ told' = IF ready THEN told ELSE Append(told, success)

(* register_service_changed, on the database d.                            *)
RegisterServiceChanged(d) ==
  IF svc_chngd_ind_id \/ ~ d[Gatt].active
  THEN UNCHANGED <<svc_chngd_ind_id, listening, registering>>
  ELSE /\ svc_chngd_ind_id' = TRUE
       /\ listening' = TRUE
       /\ registering' = TRUE

(* Mutant of Process: services in the range are not removed first.          *)
Process_NotCleared(range, d) ==
  /\ listening' = (listening /\ Gatt \notin range)
  /\ db' = d
  /\ op_range' = range
  /\ asked' = "primary"
  /\ pending_svcs' = <<>> /\ tmp_queue' = <<>>
  /\ in_svc_chngd' = TRUE
  /\ UNCHANGED <<svc_chngd_ind_id, registering>>

(* process_service_changed: handlers and services in the range are dropped *)
(* and the range is discovered.                                            *)
Process(range, d) ==
  /\ listening' = (listening /\ Gatt \notin range)
  /\ db' = Cleared(d, range)
  /\ op_range' = range
  /\ asked' = "primary"
  /\ pending_svcs' = <<>> /\ tmp_queue' = <<>>
  /\ in_svc_chngd' = TRUE
  /\ UNCHANGED <<svc_chngd_ind_id, registering>>

Finished == asked' = "nothing" /\ UNCHANGED <<op_range, pending_svcs, tmp_queue>>

(* init_complete, and init_fail once the op is unreferenced.  The client   *)
(* is ready before the server has answered the write to the CCC.           *)
InitComplete(success, d) ==
  /\ in_init' = FALSE
  /\ Finished
  /\ NotifyReady(success)
  /\ db' = IF success THEN d ELSE Cleared(d, Slots)
  /\ IF success THEN RegisterServiceChanged(d)
     ELSE UNCHANGED <<svc_chngd_ind_id, listening, registering>>
  /\ UNCHANGED <<in_svc_chngd, svc_chngd_queue>>

(* Mutant of ChangeComplete: events queued meanwhile are left in the queue. *)
ChangeComplete_QueueLeft(success, d) ==
  /\ in_svc_chngd' = FALSE
  /\ Finished
  /\ db' = IF success THEN d ELSE Cleared(d, op_range)
  /\ RegisterServiceChanged(db')
  /\ UNCHANGED <<svc_chngd_queue, in_init, ready, told>>

(* service_changed_complete, and service_changed_failure: of a discovery   *)
(* that failed nothing is kept; the next event is processed.               *)
ChangeComplete(success, d) ==
  LET kept == IF success THEN d ELSE Cleared(d, op_range) IN
  /\ IF svc_chngd_queue # <<>>
     THEN /\ svc_chngd_queue' = Tail(svc_chngd_queue)
          /\ Process(Head(svc_chngd_queue), kept)
     ELSE /\ in_svc_chngd' = FALSE
          /\ Finished
          /\ db' = kept
          /\ RegisterServiceChanged(kept)
          /\ UNCHANGED svc_chngd_queue
  /\ UNCHANGED <<in_init, ready, told>>

(* op->complete_func *)
Complete(success, d) ==
  /\ IF in_init THEN InitComplete(success, d) ELSE ChangeComplete(success, d)
  /\ UNCHANGED cur_svc

-----------------------------------------------------------------------------
(* Answers to discovery requests.                                          *)

Outside == <<world, server, up>>

Answered(request) == up /\ asked = request /\ UNCHANGED Outside

Ask(request) ==
  /\ asked' = request
  /\ UNCHANGED <<op_range, flags, events, told>>

(* A request may be refused, or its answer may not fit what is in the      *)
(* database already because the service has changed since.                 *)
Refused == "errors" \in world
MayMisfit(s) == table[s] \notin db[s].seen
Learnt(s) == [db EXCEPT ![s].seen = @ \union {table[s]}]

(* exchange_mtu_cb: a server without MTU exchange is no obstacle.          *)
MtuExchanged ==
  /\ Answered("mtu")
  /\ Ask("primary")
  /\ UNCHANGED <<db, pending_svcs, tmp_queue, cur_svc>>

(* Mutant of MtuRefused: the ready handler is not called.                   *)
MtuRefused_Silent ==
  /\ Answered("mtu")
  /\ Refused
  /\ in_init' = FALSE
  /\ Finished
  /\ db' = Cleared(db, Slots)
  /\ UNCHANGED <<in_svc_chngd, ready, told, events, cur_svc>>

MtuRefused ==
  /\ Answered("mtu")
  /\ Refused
  /\ in_init' = FALSE
  /\ Finished
  /\ NotifyReady(FALSE)
  /\ db' = Cleared(db, Slots)
  /\ UNCHANGED <<in_svc_chngd, events, cur_svc>>

(* The services found, in the order of their handles.                      *)
InOrder(slots) ==
  CHOOSE q \in [1 .. Cardinality(slots) -> slots] :
    \A i, j \in DOMAIN q : i < j => q[i] < q[j]

Found(secondary) ==
  {s \in op_range : table[s] # 0 /\ (s \in Secondary) = secondary}
Inserted(slots) ==
  [s \in Slots |-> IF s \in slots THEN [seen |-> {table[s]}, active |-> FALSE]
                                  ELSE db[s]]

(* discover_primary_cb: without primary services the secondary ones are    *)
(* not looked for, and the discovery has failed.                           *)
PrimaryAnswered ==
  /\ Answered("primary")
  /\ \/ /\ Found(FALSE) # {}
        /\ db' = Inserted(Found(FALSE))
        /\ pending_svcs' = InOrder(Found(FALSE))
        /\ Ask("secondary")
        /\ UNCHANGED <<tmp_queue, cur_svc>>
     \/ Found(FALSE) = {} /\ Complete(FALSE, db)
     \/ Refused /\ Complete(FALSE, db)

(* discover_secondary_cb *)
SecondaryAnswered ==
  LET svcs == pending_svcs \o InOrder(Found(TRUE)) IN
  /\ Answered("secondary")
  /\ \/ /\ db' = Inserted(Found(TRUE))
        /\ cur_svc' = Head(svcs)
        /\ tmp_queue' = <<Head(svcs)>>
        /\ pending_svcs' = Tail(svcs)
        /\ Ask("includes")
     \/ Refused /\ Complete(FALSE, db)

(* Where the next service to look into is: those of a single handle are    *)
(* passed over.                                                            *)
NextIn(svcs) == SelectInSeq(svcs, LAMBDA s : s \notin Single)
After(svcs, i) == SubSeq(svcs, i + 1, Len(svcs))

(* discover_incl_cb: the services included now; each must be known.        *)
IncludedNow(s) ==
  IF table[s] = 0 THEN {} ELSE {i \in Included[s] : table[i] # 0}

(* ... from "next" on: the next service, or the characteristics of the     *)
(* first.                                                                  *)
IncludesDone(d) ==
  LET i == NextIn(pending_svcs)
      all == tmp_queue \o pending_svcs
  IN
  /\ db' = d
  /\ IF i # 0
     THEN /\ cur_svc' = pending_svcs[i]
          /\ tmp_queue' = tmp_queue \o SubSeq(pending_svcs, 1, i)
          /\ pending_svcs' = After(pending_svcs, i)
          /\ Ask("includes")
     ELSE /\ cur_svc' = Head(all)
          /\ tmp_queue' = <<>>
          /\ pending_svcs' = Tail(all)
          /\ Ask("chrcs")

IncludesAnswered ==
  LET s == cur_svc
      known == \A i \in IncludedNow(s) : db[i] # Absent
  IN
  /\ Answered("includes")
  /\ \/ IncludedNow(s) = {} /\ IncludesDone(db)
     \/ IncludedNow(s) # {} /\ known /\ IncludesDone(Learnt(s))
     \/ IncludedNow(s) # {} /\ (~ known \/ MayMisfit(s)) /\ Complete(FALSE, db)
     \/ Refused /\ Complete(FALSE, db)

(* discover_chrcs_cb and discover_descs_cb from "next" on: the service is  *)
(* active.  Those of a single handle are passed over and stay inactive,    *)
(* except the first of all.                                                *)
ServiceDone(d) ==
  LET active == [d EXCEPT ![cur_svc].active = TRUE]
      i == NextIn(pending_svcs)
  IN
  IF i = 0 THEN Complete(TRUE, active)
  ELSE /\ db' = active
       /\ cur_svc' = pending_svcs[i]
       /\ pending_svcs' = After(pending_svcs, i)
       /\ Ask("chrcs")
       /\ UNCHANGED tmp_queue

(* discover_chrcs_cb: the characteristics are inserted as their            *)
(* descriptors are looked for.                                             *)
ChrcsAnswered ==
  LET s == cur_svc
      some == table[s] # 0 /\ s \notin Single
  IN
  /\ Answered("chrcs")
  /\ \/ ~ some /\ ServiceDone(db)
     \/ /\ some /\ s \in Described
        /\ db' = Learnt(s)
        /\ Ask("descs")
        /\ UNCHANGED <<pending_svcs, tmp_queue, cur_svc>>
     \/ some /\ s \notin Described /\ ServiceDone(Learnt(s))
     \/ some /\ MayMisfit(s) /\ Complete(FALSE, db)
     \/ Refused /\ Complete(FALSE, db)

(* discover_descs_cb *)
DescsAnswered ==
  LET s == cur_svc IN
  /\ Answered("descs")
  /\ \/ table[s] = 0 /\ ServiceDone(db)
     \/ table[s] # 0 /\ ServiceDone(Learnt(s))
     \/ table[s] # 0 /\ MayMisfit(s) /\ Complete(FALSE, db)
     \/ Refused /\ Complete(FALSE, db)

(* service_changed_register_cb.  If it failed, notify_client_ready has     *)
(* nothing to say to a client that is ready.                               *)
RegisterAnswered ==
  /\ up
  /\ registering
  /\ registering' = FALSE
  /\ \/ /\ table[Gatt] # 0
        /\ ccc' = TRUE
        /\ NotifyReady(TRUE)
        /\ UNCHANGED <<svc_chngd_ind_id, listening>>
     \/ /\ Refused \/ MayMisfit(Gatt)
        /\ svc_chngd_ind_id' = FALSE
        /\ listening' = FALSE
        /\ NotifyReady(FALSE)
        /\ UNCHANGED ccc
  /\ UNCHANGED <<world, table, changes, owed, up, db, in_init, in_svc_chngd,
                 svc_chngd_queue, op>>

-----------------------------------------------------------------------------
(* The server changes.                                                     *)

(* Mutant of Indicated: the range is discovered at once in any case.        *)
Indicated_Always ==
  /\ up
  /\ owed # <<>>
  /\ owed' = Tail(owed)
  /\ IF listening
     THEN /\ Process(Head(owed), db)
          /\ UNCHANGED <<svc_chngd_queue, in_init, ready, cur_svc>>
     ELSE UNCHANGED <<db, flags, events, op>>
  /\ UNCHANGED <<world, table, changes, ccc, up, told>>

(* service_changed_cb *)
Indicated ==
  /\ up
  /\ owed # <<>>
  /\ owed' = Tail(owed)
  /\ \/ ~ listening /\ UNCHANGED <<db, flags, events, op>>
     \/ /\ listening /\ ~ in_svc_chngd
        /\ Process(Head(owed), db)
        /\ UNCHANGED <<svc_chngd_queue, in_init, ready, cur_svc>>
     \/ /\ listening /\ in_svc_chngd
        /\ svc_chngd_queue' = Append(svc_chngd_queue, Head(owed))
        /\ UNCHANGED <<db, flags, svc_chngd_ind_id, listening, registering, op>>
  /\ UNCHANGED <<world, table, changes, ccc, up, told>>

(* The server replaces, adds and removes services; a service has changed   *)
(* if one that it includes has come or gone.  The range it will indicate   *)
(* covers what has changed.                                                *)
Hull(slots) == Span(Min(slots), Max(slots))
Settled == owed = <<>> /\ ~ in_svc_chngd /\ svc_chngd_queue = <<>>
Present(t, slots) == \E s \in slots : t[s] # 0
Allowed(range, t) ==
  /\ "early" \in world \/ ccc
  /\ "overlap" \in world \/ Settled
  /\ "gatt" \in world \/ Gatt \notin range
  /\ \/ "secondary" \in world
     \/ Present(t, range \ Secondary) \/ ~ Present(t, range)

ServerChanges(t) ==
  LET changed == {s \in Slots : t[s] # table[s]}
      moved == {s \in changed : t[s] = 0 \/ table[s] = 0}
      range == Hull(changed)
  IN
  /\ changes < MaxChanges
  /\ changed # {}
  /\ \A s \in Slots : Included[s] \intersect moved # {} =>
                        s \in changed \/ t[s] = 0
  /\ Allowed(range, t)
  /\ table' = t
  /\ changes' = changes + 1
  /\ owed' = IF ccc THEN Append(owed, range) ELSE owed
  /\ UNCHANGED <<world, ccc, up, db, flags, events, op, told>>

Change ==
  \E slots \in SUBSET Slots :
    \E t \in [slots -> {0, changes + 2}] :
      ServerChanges([s \in Slots |-> IF s \in slots THEN t[s] ELSE table[s]])

(* att_disconnect_cb.  The op and its request stay until the client is     *)
(* freed.                                                                  *)
Disconnected ==
  /\ up
  /\ up' = FALSE
  /\ in_init' = FALSE
  /\ IF in_init THEN told' = Append(told, FALSE) ELSE UNCHANGED told
  /\ ready' = FALSE
  /\ owed' = <<>>
  /\ UNCHANGED <<world, table, changes, ccc, db, in_svc_chngd, events, op>>

-----------------------------------------------------------------------------
Answer ==
  \/ MtuExchanged \/ MtuRefused \/ PrimaryAnswered \/ SecondaryAnswered
  \/ IncludesAnswered \/ ChrcsAnswered \/ DescsAnswered \/ RegisterAnswered

Next == Answer \/ Indicated \/ Change \/ Disconnected

Spec == Init /\ [][Next]_vars

(* The server answers, and tells of its changes, as long as it is there.   *)
FairSpec == Spec /\ WF_vars(Answer) /\ WF_vars(Indicated)

-----------------------------------------------------------------------------
(* Properties.                                                             *)

(* The ready handler is called once (LEClient's promise can be set once),  *)
(* and the client does not go back on it while it is connected.            *)
ReadyOnce ==
  /\ Len(told) <= 1
  /\ up => ready = (told = <<TRUE>>)

(* A discovery under way is never given up for another one, whose requests *)
(* would share its discovery_req: the next begins when it is complete.     *)
OneDiscovery ==
  [][asked # "nothing" /\ op_range' # op_range =>
       svc_chngd_queue # <<>> /\ svc_chngd_queue' = Tail(svc_chngd_queue)]_vars

(* The flags tell whether a discovery is under way, and of which kind, and *)
(* events are only queued behind one that will take them up.               *)
FlagsTell ==
  up => /\ asked # "nothing" <=> in_init \/ in_svc_chngd
        /\ ~ (in_init /\ in_svc_chngd)
        /\ svc_chngd_queue # <<>> => in_svc_chngd

(* A client whose initialisation failed keeps nothing of what it found.    *)
FailedMeansEmpty ==
  up /\ told = <<FALSE>> => \A s \in Slots : db[s] = Absent

Inv == TypeOK /\ ReadyOnce /\ FlagsTell /\ FailedMeansEmpty

(* Once everything is answered, the database is the server's, as long as   *)
(* the server tells of its changes one at a time.                          *)
Quiet == up /\ asked = "nothing" /\ ~ registering /\ owed = <<>>
Same(s) ==
  /\ db[s].seen = IF table[s] = 0 THEN {} ELSE {table[s]}
  /\ db[s].active = (table[s] # 0) \/ s \in Single
Matches == Quiet /\ ready => \A s \in Slots : Same(s)
MatchesOneAtATime == world = {} => Matches

(* The ready callback, which LEClient's constructor waits for, is called:  *)
(* on every path through discovery, or by the disconnection.               *)
ReadyTold == <>(told # <<>>)

(* Every change is worked off: the queue of events drains.                 *)
ChangesSettle == []<>(Settled \/ ~ up)

=============================================================================
