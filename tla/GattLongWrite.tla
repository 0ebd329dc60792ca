--------------------------- MODULE GattLongWrite ---------------------------
(***************************************************************************)
(* Long writes and reliable (prepared) write sessions of                   *)
(* lib/bluez/gatt-client.c.  Both are made of PREPARE WRITE requests, kept *)
(* by the server in one queue, and an EXECUTE WRITE that commits or drops  *)
(* the whole queue.  The client has to keep them apart.                    *)
(*                                                                         *)
(* Below is the ATT bearer of AttTransport, seen as AttService promises it:*)
(* requests are answered one at a time in submission order.  The server    *)
(* processes a request when its answer is handled: nothing else reaches    *)
(* the server's queue in between.  The bearer does not fail here.          *)
(***************************************************************************)
EXTENDS Naturals, Sequences, SequencesExt, FiniteSets

CONSTANTS
  Long,      (* struct request of each bt_gatt_client_write_long_value     *)
  Session,   (* struct request of each reliable write session              *)
  Chunks,    (* how many PREPARE WRITEs each of them takes                 *)
  Usages,    (* what upper layers may do, see usage                        *)
  None

Writes == Long \union Session

GattConstantsOK ==
  /\ Long \intersect Session = {}
  /\ None \notin Writes
  /\ Chunks \in [Writes -> Nat \ {0}]
  /\ Usages \subseteq SUBSET {"long", "session", "cancel", "impatient",
                              "blocking", "shell", "strays"}

VARIABLES
  usage,            (* what the upper layer of this program does: long     *)
                    (* writes, sessions, cancelling either; an impatient   *)
                    (* one does not await the answers of its session;      *)
                    (* the other words are GattCallers'                    *)
  in_long_write,
  session,          (* reliable_write_session_id, or None for 0            *)
  long_write_queue,
  created,          (* requests made so far                                *)
  refs,             (* req->ref_count; 0 once freed                        *)
  removed,          (* req->removed, no longer in pending_requests         *)
  started,          (* req->att_id # 0                                     *)
  data,             (* which op req->data points to                        *)
  chunk,            (* op->index, in PDUs; for a session, PDUs prepared    *)
  line,             (* requests handed to the bearer and not done with     *)
  in_callback,      (* the head's handler is inside op->callback           *)
  ended,            (* history: how often the write's callback has run     *)
  prepared,         (* the server's prepare queue                          *)
  commit            (* history: the batch the server committed last        *)

client == <<in_long_write, session, long_write_queue>>
request == <<created, refs, removed, started, data, chunk>>
server == <<prepared, commit>>
vars == <<usage, client, request, line, in_callback, ended, server>>

(* One PDU on the line: its answer goes to cb(req), and then, if it owns a *)
(* reference, request_unref(req).                                          *)
Entry == [pdu : {"PREP", "COMMIT", "CANCEL"}, req : Writes, chunk : Nat,
          cb : {"prepare_write_cb", "execute_write_cb", "prep_write_cb",
                "exec_write_cb", "cancel_long_write_cb",
                "cancel_prep_write_cb"},
          owns : BOOLEAN]

TypeOK ==
  /\ usage \in Usages
  /\ in_long_write \in BOOLEAN
  /\ session \in Session \union {None}
  /\ long_write_queue \in Seq(Long)
  /\ created \subseteq Writes /\ removed \subseteq created
  /\ started \subseteq created
  /\ refs \in [Writes -> Nat]
  /\ data \in [Writes -> {"none", "long_write_op", "prep_write_op", "write_op"}]
  /\ chunk \in [Writes -> Nat]
  /\ line \in Seq(Entry)
  /\ in_callback \in BOOLEAN
  /\ ended \in [Writes -> Nat]
  /\ prepared \in Seq(Writes \X Nat) /\ commit \in Seq(Writes \X Nat)

Init ==
  /\ usage \in Usages
  /\ in_long_write = FALSE
  /\ session = None
  /\ long_write_queue = <<>>
  /\ created = {} /\ removed = {} /\ started = {}
  /\ refs = [r \in Writes |-> 0]
  /\ data = [r \in Writes |-> "none"]
  /\ chunk = [r \in Writes |-> 0]
  /\ line = <<>>
  /\ in_callback = FALSE
  /\ ended = [r \in Writes |-> 0]
  /\ prepared = <<>> /\ commit = <<>>

Prep(r, n, cb, owns) ==
  [pdu |-> "PREP", req |-> r, chunk |-> n, cb |-> cb, owns |-> owns]
Exec(pdu, r, cb, owns) ==
  [pdu |-> pdu, req |-> r, chunk |-> 0, cb |-> cb, owns |-> owns]

Of(r) == {i \in DOMAIN line : line[i].req = r}
PendingRequest(r) == r \in created \ removed /\ refs[r] > 0

-----------------------------------------------------------------------------
(* API calls, made from a callback or between two.                         *)

Create(r) ==
  /\ r \notin created
  /\ created' = created \union {r}
  /\ refs' = [refs EXCEPT ![r] = 1]

FirstPrep(r) == Prep(r, 1, "prepare_write_cb", TRUE)

(* Mutant of WriteLong: never queues behind the long write in progress.     *)
WriteLong_NotQueued(r) ==
  /\ "long" \in usage
  /\ Create(r)
  /\ data' = [data EXCEPT ![r] = "long_write_op"]
  /\ chunk' = [chunk EXCEPT ![r] = 1]
  /\ in_long_write' = TRUE
  /\ line' = Append(line, FirstPrep(r))
  /\ started' = started \union {r}
  /\ UNCHANGED <<usage, session, long_write_queue, removed, in_callback,
                 ended, server>>

(* bt_gatt_client_write_long_value                                         *)
WriteLong(r) ==
  /\ "long" \in usage
  /\ Create(r)
  /\ data' = [data EXCEPT ![r] = "long_write_op"]
  /\ chunk' = [chunk EXCEPT ![r] = 1]
  /\ IF in_long_write \/ session # None
     THEN /\ long_write_queue' = Append(long_write_queue, r)
          /\ UNCHANGED <<in_long_write, started, line>>
     ELSE /\ in_long_write' = TRUE
          /\ line' = Append(line, FirstPrep(r))
          /\ started' = started \union {r}
          /\ UNCHANGED long_write_queue
  /\ UNCHANGED <<usage, session, removed, in_callback, ended, server>>

(* bt_gatt_client_prepare_write: opens a session, or goes on with it; the  *)
(* request's data is replaced by the op of the new PDU.                    *)
PrepareWrite(r) ==
  /\ "session" \in usage
  /\ ~ in_long_write
  /\ "impatient" \in usage \/ Of(r) = {}
  /\ \/ session = None /\ Create(r)
     \/ session = r /\ PendingRequest(r) /\ UNCHANGED <<created, refs>>
  /\ chunk[r] < Chunks[r]
  /\ session' = r
  /\ data' = [data EXCEPT ![r] = "prep_write_op"]
  /\ chunk' = [chunk EXCEPT ![r] = @ + 1]
  /\ line' = Append(line, Prep(r, chunk[r] + 1, "prep_write_cb", FALSE))
  /\ started' = started \union {r}
  /\ UNCHANGED <<usage, in_long_write, long_write_queue, removed, in_callback,
                 ended, server>>

(* bt_gatt_client_write_execute                                            *)
WriteExecute(r) ==
  /\ "session" \in usage
  /\ ~ in_long_write
  /\ session = r
  /\ PendingRequest(r)
  /\ "impatient" \in usage \/ Of(r) = {}
  /\ Cardinality(Of(r)) <= Chunks[r]    (* bound: impatient callers repeat *)
  /\ data' = [data EXCEPT ![r] = "write_op"]
  /\ line' = Append(line, Exec("COMMIT", r, "exec_write_cb", TRUE))
  /\ UNCHANGED <<usage, client, created, refs, removed, started, chunk,
                 in_callback, ended, server>>

(* bt_gatt_client_cancel of a long write: unlinked if it has not started,  *)
(* which leaves its reference behind; otherwise an EXECUTE WRITE follows,  *)
(* and the PREPARE WRITE on the line keeps its callback.                   *)
CancelLong(r) ==
  /\ "cancel" \in usage
  /\ PendingRequest(r)
  /\ removed' = removed \union {r}
  /\ IF r \in started
     THEN /\ line' = Append(line, Exec("CANCEL", r, "cancel_long_write_cb", FALSE))
          /\ UNCHANGED long_write_queue
     ELSE /\ long_write_queue' = RemoveFirst(long_write_queue, r)
          /\ UNCHANGED line
  /\ UNCHANGED <<usage, in_long_write, session, created, refs, started, data,
                 chunk, in_callback, ended, server>>

(* bt_gatt_client_cancel of a session                                      *)
CancelSession(r) ==
  /\ "cancel" \in usage
  /\ PendingRequest(r)
  /\ "impatient" \in usage \/ Of(r) = {}
  /\ removed' = removed \union {r}
  /\ line' = Append(line, Exec("CANCEL", r, "cancel_prep_write_cb", TRUE))
  /\ UNCHANGED <<usage, client, created, refs, started, data, chunk,
                 in_callback, ended, server>>

-----------------------------------------------------------------------------
(* Answers.  The handler of the line's head dereferences req and req->data *)
(* (cancel_long_write_cb gets the client instead): what happens when they  *)
(* are not what it expects is undefined, and the model stops.              *)

Expects(cb) ==
  CASE cb \in {"prepare_write_cb", "execute_write_cb"} -> {"long_write_op"}
    [] cb = "prep_write_cb" -> {"prep_write_op"}
    [] cb = "exec_write_cb" -> {"write_op"}
    [] OTHER -> {"long_write_op", "prep_write_op", "write_op"}

Sound(e) ==
  \/ e.cb = "cancel_long_write_cb"
  \/ refs[e.req] > 0 /\ data[e.req] \in Expects(e.cb)

Handling(cb) ==
  /\ line # <<>>
  /\ Head(line).cb = cb
  /\ Sound(Head(line))
  /\ ~ in_callback

(* The server answers PREPARE WRITE with an error, or queues it and echoes *)
(* it, possibly not as it was sent.                                        *)
Outcomes == {"echoed", "garbled", "error"}
Prepares(e, outcome) ==
  prepared' = IF outcome = "error" THEN prepared
              ELSE Append(prepared, <<e.req, e.chunk>>)

(* EXECUTE WRITE empties the server's queue, whatever it answers.          *)
Executes(e) ==
  \/ /\ e.pdu = "COMMIT"
     /\ commit' = prepared /\ prepared' = <<>>
  \/ UNCHANGED commit /\ prepared' = <<>>

(* prepare_write_cb of a reliable long write: the next PDU, or the end.    *)
PrepareWriteCb(outcome) ==
  LET e == Head(line)
      r == e.req
      more == outcome = "echoed" /\ chunk[r] < Chunks[r]
      last == Exec(IF outcome = "echoed" THEN "COMMIT" ELSE "CANCEL", r,
                   "execute_write_cb", TRUE)
  IN
  /\ Handling("prepare_write_cb")
  /\ Prepares(e, outcome)
  /\ chunk' = [chunk EXCEPT ![r] = IF more THEN @ + 1 ELSE @]
  /\ line' = Append(Tail(line),
                    IF more THEN Prep(r, chunk[r] + 1, "prepare_write_cb", TRUE)
                            ELSE last)
  /\ UNCHANGED <<usage, client, created, refs, removed, started, data,
                 in_callback, ended, commit>>

(* prep_write_cb only tells the caller of bt_gatt_client_prepare_write.    *)
PrepWriteCb(outcome) ==
  /\ Handling("prep_write_cb")
  /\ Prepares(Head(line), outcome)
  /\ line' = Tail(line)
  /\ UNCHANGED <<usage, client, request, in_callback, ended, commit>>

(* execute_write_cb and exec_write_cb up to op->callback ...               *)
WriteEnds ==
  /\ Handling("execute_write_cb") \/ Handling("exec_write_cb")
  /\ Executes(Head(line))
  /\ ended' = [ended EXCEPT ![Head(line).req] = @ + 1]
  /\ in_callback' = TRUE
  /\ UNCHANGED <<usage, client, request, line>>

(* start_next_long_write; rest is the line behind the request done with.   *)
StartNext(rest) ==
  IF long_write_queue = <<>>
  THEN /\ in_long_write' = FALSE
       /\ line' = rest
       /\ UNCHANGED <<long_write_queue, started>>
  ELSE /\ long_write_queue' = Tail(long_write_queue)
       /\ line' = Append(rest, FirstPrep(Head(long_write_queue)))
       /\ started' = started \union {Head(long_write_queue)}
       /\ UNCHANGED in_long_write

(* Mutant of Unref: nothing is given back.                                  *)
Unref_Forgotten(r) == UNCHANGED refs

Unref(r) == refs' = [refs EXCEPT ![r] = @ - 1]

(* ... and after it: a session is over, the next long write is started,    *)
(* the bearer gives the reference back.                                    *)
WriteEnded ==
  /\ in_callback
  /\ in_callback' = FALSE
  /\ session' = IF Head(line).cb = "exec_write_cb" THEN None ELSE session
  /\ StartNext(Tail(line))
  /\ Unref(Head(line).req)
  /\ UNCHANGED <<usage, created, removed, data, chunk, ended, server>>

CancelLongWriteCb ==
  /\ Handling("cancel_long_write_cb")
  /\ Executes(Head(line))
  /\ in_long_write' = (in_long_write /\ long_write_queue # <<>>)
  /\ line' = Tail(line)
  /\ UNCHANGED <<usage, session, long_write_queue, request, in_callback,
                 ended>>

CancelPrepWriteCb ==
  /\ Handling("cancel_prep_write_cb")
  /\ Executes(Head(line))
  /\ session' = None
  /\ line' = Tail(line)
  /\ Unref(Head(line).req)
  /\ UNCHANGED <<usage, in_long_write, long_write_queue, created, removed,
                 started, data, chunk, in_callback, ended>>

-----------------------------------------------------------------------------
Api ==
  \/ \E r \in Long : WriteLong(r) \/ CancelLong(r)
  \/ \E r \in Session : PrepareWrite(r) \/ WriteExecute(r) \/ CancelSession(r)

Answer ==
  \/ \E outcome \in Outcomes : PrepareWriteCb(outcome) \/ PrepWriteCb(outcome)
  \/ WriteEnds \/ WriteEnded \/ CancelLongWriteCb \/ CancelPrepWriteCb

Next == Api \/ Answer

Spec == Init /\ [][Next]_vars

(* The peer answers, callbacks return, and whoever opens a session ends it.*)
FairSpec ==
  /\ Spec
  /\ WF_vars(Answer)
  /\ \A r \in Session : SF_vars(WriteExecute(r) \/ CancelSession(r))

-----------------------------------------------------------------------------
(* Properties.                                                             *)

(* "We avoid interleaving prepared writes": whatever the server has queued *)
(* belongs to a single long write or session.                              *)
NoInterleaving ==
  \A i, j \in DOMAIN prepared : prepared[i][1] = prepared[j][1]

(* What a long write commits is its whole value, in order, and nothing     *)
(* else: no part of it is missing, and no other write's parts are in it.   *)
CommitWhole ==
  commit # <<>> /\ commit[1][1] \in Long =>
    LET r == commit[1][1] IN commit = [i \in 1 .. Chunks[r] |-> <<r, i>>]

(* Where both do hold: an upper layer that keeps to long writes, or to     *)
(* sessions, and cancels none.                                             *)
Alone == usage \in {{"long"}, {"session"}}
NeverMixedAlone == Alone => NoInterleaving /\ CommitWhole

(* A handler gets a live request whose data is the op it casts it to.      *)
UserDataSound == line # <<>> /\ ~ in_callback => Sound(Head(line))

(* ... as it does when the caller of a session awaits its answers.         *)
UserDataSoundPatient == "impatient" \notin usage => UserDataSound

(* Unless writes are cancelled, or a session is executed again before the  *)
(* answer, every reference to a request is held by something that will     *)
(* give it back: a PDU on the line, the queue of long writes, an open      *)
(* session.                                                                *)
Owners(r) == {i \in Of(r) : line[i].owns}
RefsExact ==
  usage \intersect {"cancel", "impatient"} = {} =>
  \A r \in Writes :
    refs[r] = Cardinality(Owners(r))
              + (IF r \in ToSet(long_write_queue) THEN 1 ELSE 0)
              + (IF r = session /\ Owners(r) = {} THEN 1 ELSE 0)

Inv == TypeOK /\ UserDataSoundPatient /\ RefsExact

(* The callback LEClient::write_long_value waits for is called, unless the *)
(* write is cancelled.                                                     *)
EveryLongWriteEnds ==
  \A r \in Long : r \in created ~> ended[r] > 0 \/ r \in removed

(* ... as it is when no session is cancelled.                              *)
WriteOver(r) ==
  ended[r] > 0 \/ r \in removed \/ removed \intersect Session # {}
LongWritesEndUncancelled == \A r \in Long : r \in created ~> WriteOver(r)

=============================================================================
