---------------------------- MODULE GattHelpers ----------------------------
(***************************************************************************)
(* The discovery procedures of lib/bluez/gatt-helpers.c: a range of        *)
(* handles is asked for in one ATT request after the other, each starting  *)
(* behind the last handle of the answer before, and the results are        *)
(* collected for iterators.  struct bt_gatt_request is counted by hand     *)
(* between its user, the request on the bearer and, for included services  *)
(* with long UUIDs, the READs that fetch them.                             *)
(*                                                                         *)
(* The bearer answers one request at a time (AttService).  Handles have    *)
(* the width given by MaxHandle, 0xffff in the code, and wrap behind it.   *)
(***************************************************************************)
EXTENDS Integers, Sequences, SequencesExt, FiniteSets, FiniteSetsExt

CONSTANTS
  MaxHandle,   (* the last handle, 2^w - 1                                 *)
  MaxPerPdu,   (* bound: entries in an answer                              *)
  MaxPdus,     (* bound: answers with entries that a procedure gets ...    *)
  MaxWild,     (* ... and from a server that answers anything              *)
  Databases,   (* what the server may have: sets of Entry                  *)
  Procedures,
  Mtus,        (* what client and server can receive                       *)
  DefaultMtu,  (* BT_ATT_DEFAULT_LE_MTU                                    *)
  None,
  Usages       (* what user and server may do, see usage                   *)

AllProcedures ==
  {"primary", "byUuid", "included", "characteristics", "readByType",
   "descriptors", "mtu"}

(* An attribute, its end group handle, and whether its UUID is too long to *)
(* come with it.                                                           *)
Entry == [handle : 1 .. MaxHandle, end : 1 .. MaxHandle, long : BOOLEAN]

HelperConstantsOK ==
  /\ {MaxHandle, MaxPerPdu, MaxPdus, MaxWild, DefaultMtu} \subseteq Nat \ {0}
  /\ Mtus \subseteq Nat \ {0}
  /\ Databases \subseteq SUBSET Entry
  /\ Procedures \subseteq AllProcedures
  /\ Usages \subseteq SUBSET
       {"wild", "errors", "refuses", "cancelInside", "cancelReading",
        "attFirst"}

VARIABLES
  usage,         (* "wild": the server answers any handles; "errors": ...  *)
                 (* any error; "refuses": bt_att_send fails;               *)
                 (* "cancelInside": the callback cancels its procedure;    *)
                 (* "cancelReading": the user cancels while included       *)
                 (* services are READ; "attFirst": the bearer is freed     *)
                 (* while the user holds the procedure                     *)
  db,            (* the server's attributes of the type asked for          *)
  procedure,     (* which one runs, None before                            *)
  start_handle, end_handle,
  asked,         (* the range the user asked for: its start                *)
  id,            (* op->id: 0, "current" or that of a request gone by      *)
  refs,          (* op->ref_count, 0 when freed                            *)
  holds,         (* the user has a reference                               *)
  results,       (* the list from result_head on                           *)
  wire,          (* the request on the bearer: None, "next" or "read" ...  *)
  from,          (* ... the handle it starts from or reads                 *)
  heard,         (* ... and whether anything handles its answer            *)
  reading,       (* entries being READ and yet to be READ                  *)
  bearer,        (* "up", "down" or "freed"                                *)
  rx_mtu,        (* what the two sides of an MTU exchange can receive      *)
  mtu,           (* att->mtu                                               *)
  told,          (* history: what the callback was told, in order          *)
  cancelled,     (* history: the user has cancelled                        *)
  fault          (* "none", or what was used after it was freed            *)

op == <<procedure, start_handle, end_handle, asked, id, refs, results>>
line == <<wire, from, heard, reading>>
user == <<holds, told, cancelled>>
mtus == <<rx_mtu, mtu>>
vars == <<usage, db, op, line, user, bearer, mtus, fault>>

Pdu == [kind : {"list", "longs", "read"}, entries : Seq(Entry)]

TypeOK ==
  /\ usage \in Usages /\ db \in Databases
  /\ procedure \in AllProcedures \union {None}
  /\ {start_handle, end_handle, asked, from} \subseteq 0 .. MaxHandle
  /\ id \in {"0", "current", "old"}
  /\ refs \in Nat
  /\ {holds, heard, cancelled} \subseteq BOOLEAN
  /\ results \in Seq(Pdu) /\ reading \in Seq(Entry)
  /\ wire \in {None, "next", "read"}
  /\ bearer \in {"up", "down", "freed"}
  /\ rx_mtu \in [client : Mtus, server : Mtus] \union {None}
  /\ mtu \in Mtus \union {DefaultMtu}
  /\ told \in Seq({"success", "failure"})
  /\ fault \in {"none", "op", "att"}

Init ==
  /\ usage \in Usages /\ db \in Databases
  /\ "wild" \in usage => db = {}
  /\ procedure = None
  /\ start_handle = 0 /\ end_handle = 0 /\ asked = 0
  /\ id = "0" /\ refs = 0 /\ results = <<>>
  /\ wire = None /\ from = 0 /\ heard = FALSE /\ reading = <<>>
  /\ bearer = "up"
  /\ rx_mtu = None /\ mtu = DefaultMtu
  /\ holds = FALSE /\ told = <<>> /\ cancelled = FALSE
  /\ fault = "none"

(* Mutant of Following: a handle is skipped.                               *)
Following_Skips(h) == (h + 2) % (MaxHandle + 1)

(* start_handle = last + 1, in 16 bits                                     *)
Following(h) == (h + 1) % (MaxHandle + 1)

-----------------------------------------------------------------------------
(* Starting and ending.                                                    *)

(* A reference for the request that is sent and, if held, one for the user. *)
Request(p, s, e, held) ==
  /\ procedure = None /\ p \in Procedures
  /\ bearer = "up"
  /\ s <= e
  /\ procedure' = p
  /\ start_handle' = s /\ end_handle' = e /\ asked' = s
  /\ id' = "current"
  /\ holds' = held /\ refs' = IF held THEN 2 ELSE 1
  /\ wire' = "next" /\ from' = s /\ heard' = TRUE
  /\ UNCHANGED <<usage, db, results, reading, told, cancelled, bearer, mtus,
                 fault>>

DiscoverServices(s, e) ==
  \E p \in {"primary", "byUuid"} : Request(p, s, e, TRUE)
DiscoverIncluded(s, e) == Request("included", s, e, TRUE)
DiscoverCharacteristics(s, e) == Request("characteristics", s, e, TRUE)
DiscoverDescriptors(s, e) == Request("descriptors", s, e, TRUE)

(* bt_gatt_read_by_type gives its user nothing to hold.                    *)
ReadByType(s, e) == Request("readByType", s, e, FALSE)

(* n references go.  The last takes the procedure with it; one more finds  *)
(* freed memory.                                                           *)
Drop(n) ==
  /\ refs' = IF refs >= n THEN refs - n ELSE 0
  /\ fault' = IF refs >= n THEN fault ELSE "op"

(* What the user does within the callback, besides nothing.                *)
UserWithin(within) ==
  /\ within # "nothing" => holds
  /\ holds' = (holds /\ within # "unref")
  /\ cancelled' = (cancelled \/ within = "cancel")

(* Whether op->id is 0 after the callback.                                 *)
NoId(sent, within) == ~ sent \/ within = "cancel" \/ id = "0"

(* discovery_op_complete, within the callback of an answer, and the        *)
(* destruction of the answered request after it.  sent: op->id is not 0.   *)
(* What the user does within its callback comes first; a cancel gives back *)
(* the reference of the request at once and clears op->id.                 *)
Complete(ok, notFound, sent, within) ==
  LET success == ok \/ (notFound /\ results' # <<>>)
      byUser == IF within = "unref" THEN 1 ELSE 0
  IN
  /\ told' = Append(told, IF success THEN "success" ELSE "failure")
  /\ UserWithin(within)
  /\ id' = "0"
  /\ wire' = None /\ heard' = FALSE /\ reading' = <<>> /\ UNCHANGED from
  (* a request that was refused has left its reference behind              *)
  /\ Drop(byUser + (IF NoId(sent, within) THEN 1 ELSE 0) + (IF sent THEN 1 ELSE 0))

(* The next request is sent, by a handler whose own reference goes.        *)
SendNext(h) ==
  /\ id' = "current"
  /\ wire' = "next" /\ from' = h /\ heard' = TRUE
  /\ UNCHANGED <<refs, user, fault>>

-----------------------------------------------------------------------------
(* The server.                                                             *)

InOrder(S) == SetToSortSeq(S, LAMBDA x, y : x.handle < y.handle)
Found == InOrder({x \in db : x.handle \in from .. end_handle})

(* The entries of one answer, which all have the same length.              *)
Answers ==
  {SubSeq(Found, 1, k) : k \in {j \in 1 .. Len(Found) :
     /\ j <= MaxPerPdu
     /\ procedure = "included" => \A n \in 1 .. j : Found[n].long = Found[1].long}}

(* A wild server answers with one handle, whichever it likes.              *)
WildAnswers ==
  IF "wild" \in usage /\ Len(results) < MaxWild
  THEN {<<[handle |-> h, end |-> h, long |-> long]>> :
          h \in 1 .. MaxHandle, long \in {FALSE, procedure = "included"}}
  ELSE {}

Within ==
  {"nothing", "unref"} \union IF "cancelInside" \in usage THEN {"cancel"} ELSE {}
Refusals == IF "refuses" \in usage THEN BOOLEAN ELSE {FALSE}

(* An answer whose handler was taken away by a cancel.                     *)
Unheard ==
  /\ fault = "none" /\ bearer = "up"
  /\ wire # None /\ ~ heard
  /\ wire' = None
  /\ UNCHANGED <<usage, db, op, from, heard, reading, user, bearer, mtus, fault>>

(* Mutant of Answered: a procedure that its user does not hold is given up. *)
Answered_Held ==
  fault = "none" /\ bearer = "up" /\ wire = "next" /\ heard /\ holds

Answered == fault = "none" /\ bearer = "up" /\ wire = "next" /\ heard

(* An ERROR RESPONSE.  "Attribute not found" is how a conforming server    *)
(* ends a procedure; a start beyond the end is an invalid handle.          *)
AnswerError(notFound, within) ==
  /\ Answered /\ procedure # "mtu"
  /\ \/ "errors" \in usage \/ "wild" \in usage
     \/ Found = <<>> /\ (notFound <=> from # 0 /\ from <= end_handle)
  /\ UNCHANGED results
  /\ Complete(FALSE, notFound, TRUE, within)
  /\ UNCHANGED <<usage, db, procedure, start_handle, end_handle, asked,
                 bearer, mtus>>

(* What the handlers of entries have in common: the result is kept even if *)
(* its last handle lies before the start; that ends the procedure, else    *)
(* the next request is sent if there is more to ask for.  What is reported *)
(* at the end of the range, and after a refusal, differs.                  *)
Continue(es, last, more, atEnd, afterRefusal, refused, within) ==
  LET forward == last >= start_handle IN
  /\ Answered /\ Len(results) < MaxPdus
  /\ results' = Append(results, [kind |-> "list", entries |-> es])
  /\ start_handle' = IF forward THEN Following(last) ELSE start_handle
  /\ \/ /\ forward /\ more /\ ~ refused /\ within = "nothing"
        /\ SendNext(Following(last))
        /\ UNCHANGED reading
     \/ /\ forward /\ more /\ refused
        /\ Complete(afterRefusal, FALSE, FALSE, within)
     \/ /\ ~ (forward /\ more) /\ ~ refused
        /\ Complete(forward /\ atEnd, FALSE, TRUE, within)
  /\ UNCHANGED <<usage, db, procedure, end_handle, asked, bearer, mtus>>

(* read_by_grp_type_cb.  Some devices end the last group at the last       *)
(* handle of all: the end that is reported is that of the range.           *)
ServicesFound(es, refused, within) ==
  LET last == Last(es).end
      kept == IF last = MaxHandle /\ last > end_handle
              THEN [es EXCEPT ![Len(es)].end = end_handle] ELSE es
  IN /\ procedure = "primary"
     /\ Continue(kept, last, last < end_handle, TRUE, FALSE, refused, within)

(* find_by_type_val_cb reports failure at the end of the range.            *)
ServicesByUuidFound(es, refused, within) ==
  LET last == Last(es).end IN
  /\ procedure = "byUuid"
  /\ Continue(es, last, last < end_handle, FALSE, FALSE, refused, within)

(* discover_included_cb for UUIDs that come with the entries.              *)
IncludedFound(es, refused, within) ==
  LET last == Last(es).handle IN
  /\ procedure = "included" /\ ~ es[1].long
  /\ Continue(es, last, last # end_handle, TRUE, FALSE, refused, within)

CharacteristicsFound(es, refused, within) ==
  LET last == Last(es).handle IN
  /\ procedure = "characteristics"
  /\ Continue(es, last, last # end_handle, TRUE, FALSE, refused, within)

ValuesFound(es, refused, within) ==
  LET last == Last(es).handle IN
  /\ procedure = "readByType"
  /\ Continue(es, last, last # end_handle, TRUE, FALSE, refused, within)

(* discover_descs_cb reports success even if its next request is refused.  *)
DescriptorsFound(es, refused, within) ==
  LET last == Last(es).handle IN
  /\ procedure = "descriptors"
  /\ Continue(es, last, last # end_handle, TRUE, TRUE, refused, within)

(* discover_included_cb for long UUIDs, and read_included: the procedure   *)
(* is referenced from read_incl_data and the answered request gives back   *)
(* its reference; op->id goes on naming that request.  A refusal is told   *)
(* to the callback directly.                                               *)
AnswerLongs(es, refused, within) ==
  /\ Answered /\ Len(results) < MaxPdus
  /\ procedure = "included" /\ es[1].long
  /\ results' = Append(results, [kind |-> "longs", entries |-> es])
  /\ \/ /\ ~ refused /\ within = "nothing"
        /\ id' = "old"
        /\ wire' = "read" /\ heard' = TRUE /\ reading' = es
        /\ UNCHANGED <<refs, user, fault>>
     \/ /\ refused
        /\ told' = Append(told, "failure")
        /\ UserWithin(within)
        /\ id' = IF within = "cancel" THEN "0" ELSE "old"
        /\ wire' = None /\ heard' = FALSE /\ UNCHANGED reading
        /\ Drop(1 + IF within = "unref" THEN 1 ELSE 0)
  /\ UNCHANGED <<usage, db, procedure, start_handle, end_handle, asked, from,
                 bearer, mtus>>

(* read_included_cb.  answer: "uuid", "notFound" or "error".  The handle   *)
(* behind the last included service is asked for next, whatever it is.     *)
AnswerRead(answer, refused, within) ==
  LET longs == SelectLastInSeq(results, LAMBDA r : r.kind = "longs")
      last == Last(results[longs].entries).handle
      read == [kind |-> "read", entries |-> <<Head(reading)>>]
      done == Len(reading) = 1 /\ last = end_handle
  IN
  /\ fault = "none" /\ bearer = "up" /\ wire = "read" /\ heard
  /\ answer # "uuid" => usage \intersect {"errors", "wild"} # {}
  /\ results' = IF answer = "uuid" THEN Append(results, read) ELSE results
  /\ \/ /\ answer # "uuid" /\ ~ refused
        /\ Complete(FALSE, answer = "notFound", TRUE, within)
     \/ /\ answer = "uuid" /\ done /\ ~ refused
        /\ Complete(TRUE, FALSE, TRUE, within)
     \/ /\ answer = "uuid" /\ ~ done /\ refused
        /\ Complete(FALSE, FALSE, Len(reading) > 1, within)
     \/ /\ answer = "uuid" /\ ~ done /\ ~ refused
        /\ within = "nothing"
        /\ IF Len(reading) > 1
           THEN /\ reading' = Tail(reading)
                /\ UNCHANGED <<id, wire, from, heard, refs, user, fault>>
           ELSE /\ reading' = <<>>
                /\ SendNext(Following(last))
  /\ UNCHANGED <<usage, db, procedure, start_handle, end_handle, asked,
                 bearer, mtus>>

-----------------------------------------------------------------------------
(* Exchanging the MTU: one request, with an op of its own (mtu_op) that    *)
(* only the request refers to.                                             *)

ExchangeMtu(client, server) ==
  /\ procedure = None /\ "mtu" \in Procedures
  /\ bearer = "up" /\ db = {}
  /\ procedure' = "mtu"
  /\ rx_mtu' = [client |-> client, server |-> server]
  /\ refs' = 1 /\ wire' = "next" /\ heard' = TRUE
  /\ UNCHANGED <<usage, db, start_handle, end_handle, asked, id, results, from,
                 reading, user, bearer, mtu, fault>>

(* mtu_cb, then destroy_mtu_op; bt_att_set_mtu ignores less than the       *)
(* default, and the callback is told of success all the same.              *)
MtuAnswered(ok) ==
  LET least == Min({rx_mtu.client, rx_mtu.server}) IN
  /\ Answered /\ procedure = "mtu"
  /\ ok \/ "errors" \in usage
  /\ mtu' = IF ok /\ least >= DefaultMtu THEN least ELSE mtu
  /\ told' = Append(told, IF ok THEN "success" ELSE "failure")
  /\ wire' = None /\ heard' = FALSE
  /\ Drop(1)
  /\ UNCHANGED <<usage, db, procedure, start_handle, end_handle, asked, id,
                 results, from, reading, holds, cancelled, bearer, rx_mtu>>

(* bt_att_cancel with the id that bt_gatt_exchange_mtu returned            *)
CancelMtu ==
  /\ Answered /\ procedure = "mtu"
  /\ heard' = FALSE
  /\ cancelled' = TRUE
  /\ Drop(1)
  /\ UNCHANGED <<usage, db, procedure, start_handle, end_handle, asked, id,
                 results, wire, from, reading, holds, told, bearer, mtus>>

-----------------------------------------------------------------------------
(* The user and the bearer.                                                *)

(* Mutant of UserCancel: the request is not cancelled on the bearer.        *)
UserCancel_Keeps ==
  /\ fault = "none" /\ holds
  /\ wire = "read" => "cancelReading" \in usage
  /\ cancelled' = TRUE
  /\ id' = "0"
  /\ UNCHANGED <<usage, db, procedure, start_handle, end_handle, asked, refs,
                 results, line, holds, told, bearer, mtus, fault>>

(* bt_gatt_request_cancel: the request on the bearer loses its handler and *)
(* gives back its reference, if op->id still names it.                     *)
UserCancel ==
  /\ fault = "none" /\ holds
  /\ wire = "read" => "cancelReading" \in usage
  /\ cancelled' = TRUE
  /\ id' = "0"
  /\ \/ id = "current" /\ bearer = "up" /\ wire = "next" /\ heard
        /\ heard' = FALSE
        /\ Drop(1)
     \/ id # "0" /\ bearer = "freed"
        /\ fault' = "att"
        /\ UNCHANGED <<heard, refs>>
     \/ /\ id = "0" \/ bearer = "down" \/ (bearer = "up" /\ id = "old")
        /\ UNCHANGED <<heard, refs, fault>>
  /\ UNCHANGED <<usage, db, procedure, start_handle, end_handle, asked,
                 results, wire, from, reading, holds, told, bearer, mtus>>

(* bt_gatt_request_unref; with the last reference the request that op->id  *)
(* names is cancelled.                                                     *)
UserUnref ==
  /\ fault = "none" /\ holds
  /\ holds' = FALSE
  /\ refs' = IF refs > 0 THEN refs - 1 ELSE 0
  /\ fault' = CASE refs = 0 -> "op"
                [] refs = 1 /\ id # "0" /\ bearer = "freed" -> "att"
                [] OTHER -> fault
  /\ UNCHANGED <<usage, db, procedure, start_handle, end_handle, asked, id,
                 results, line, told, cancelled, bearer, mtus>>

(* att.c cancels everything when the link goes down, and when the bearer   *)
(* is freed: requests are destroyed, nothing is called and op->id stays.   *)
BearerGoes ==
  /\ wire' = None /\ heard' = FALSE /\ reading' = <<>> /\ UNCHANGED from
  /\ Drop(IF wire # None /\ heard THEN 1 ELSE 0)
  /\ UNCHANGED <<usage, db, procedure, start_handle, end_handle, asked, id,
                 results, user, mtus>>

BearerDown ==
  /\ fault = "none" /\ bearer = "up"
  /\ bearer' = "down"
  /\ BearerGoes

BearerFreed ==
  /\ fault = "none" /\ bearer # "freed"
  /\ holds => "attFirst" \in usage
  /\ bearer' = "freed"
  /\ BearerGoes

-----------------------------------------------------------------------------
Answer ==
  \/ Unheard
  \/ \E within \in Within, refused \in Refusals :
       \/ \E es \in Answers \union WildAnswers :
            \/ ServicesFound(es, refused, within)
            \/ ServicesByUuidFound(es, refused, within)
            \/ IncludedFound(es, refused, within)
            \/ CharacteristicsFound(es, refused, within)
            \/ ValuesFound(es, refused, within)
            \/ DescriptorsFound(es, refused, within)
            \/ AnswerLongs(es, refused, within)
       \/ \E answer \in {"uuid", "notFound", "error"} :
            AnswerRead(answer, refused, within)
  \/ \E notFound \in BOOLEAN, within \in Within : AnswerError(notFound, within)
  \/ \E ok \in BOOLEAN : MtuAnswered(ok)

Begin ==
  \E s, e \in 1 .. MaxHandle :
    \/ DiscoverServices(s, e) \/ DiscoverIncluded(s, e)
    \/ DiscoverCharacteristics(s, e) \/ DiscoverDescriptors(s, e)
    \/ ReadByType(s, e)

Next ==
  \/ Begin
  \/ \E client, server \in Mtus : ExchangeMtu(client, server)
  \/ CancelMtu
  \/ Answer
  \/ UserCancel \/ UserUnref
  \/ BearerDown \/ BearerFreed

Spec == Init /\ [][Next]_vars

(* The server answers what it is asked (or the bearer's timer ends it).    *)
FairSpec == Spec /\ WF_vars(Answer)

-----------------------------------------------------------------------------
(* Properties.                                                             *)

Conforming == usage \intersect {"wild", "errors", "refuses"} = {}

(* A procedure is referenced by its user and by what is on its way for it, *)
(* and by nothing else, unless it is cancelled where the code does not     *)
(* expect it: within its callback, or while included services are READ.    *)
RefsExact ==
  usage \intersect {"cancelInside", "cancelReading"} = {} =>
    refs = (IF holds THEN 1 ELSE 0) + (IF wire # None /\ heard THEN 1 ELSE 0)

(* Neither the procedure nor the bearer is used after it was freed, for    *)
(* users that cancel at neither of those places and give up a procedure    *)
(* before the bearer.                                                      *)
NoUseAfterFree ==
  usage \intersect {"cancelInside", "cancelReading", "attFirst"} = {} =>
    fault = "none"

(* An MTU other than the default is one that both sides said they can      *)
(* receive; it is the larger such one whenever success is reported.        *)
MtuAgreed ==
  /\ mtu # DefaultMtu => mtu <= rx_mtu.client /\ mtu <= rx_mtu.server
  /\ procedure = "mtu" /\ told = <<"success">> =>
       mtu = Max({DefaultMtu, Min({rx_mtu.client, rx_mtu.server})})

Inv == TypeOK /\ RefsExact /\ NoUseAfterFree /\ MtuAgreed

(* What bt_gatt_result_..._count return; READ PDUs count for nothing.      *)
ElementCount == FoldSeq(LAMBDA r, n : n + Len(r.entries), 0, results)
IncludedCount ==
  FoldSeq(LAMBDA r, n : IF r.kind = "read" THEN n ELSE n + Len(r.entries), 0,
          results)
Count == IF procedure = "included" THEN IncludedCount ELSE ElementCount

(* What the iterators return: a READ PDU belongs to the entry whose place  *)
(* among the long ones is its distance from them.                          *)
Iterated ==
  FlattenSeq([k \in DOMAIN results |->
    IF results[k].kind = "read" THEN <<>> ELSE results[k].entries])
Paired ==
  \A k \in DOMAIN results :
    results[k].kind = "longs" =>
      \A n \in DOMAIN results[k].entries :
        /\ k + n \in DOMAIN results
        /\ results[k + n].kind = "read"
        /\ results[k + n].entries[1] = results[k].entries[n]

(* With a conforming server a procedure that reports success has found     *)
(* each attribute of the range once and in order, over however many        *)
(* answers it took, each with its UUID, and counts them right; one that reports failure, that     *)
(* there are none.  find_by_type_val_cb reports failure where the last     *)
(* service reaches the end of the range.                                   *)
FoundAll ==
  Conforming /\ told # <<>> /\ procedure # "mtu" =>
    LET all == InOrder({x \in db : x.handle \in asked .. end_handle})
        Handles(es) == [k \in DOMAIN es |-> es[k].handle]
    IN IF told[1] = "success"
       THEN /\ all # <<>> /\ Handles(Iterated) = Handles(all) /\ Paired
            /\ Count = Len(all)
       ELSE all = <<>> \/ (procedure = "byUuid" /\ Last(all).end >= end_handle)

(* The callback is called once, and not after the user has cancelled,      *)
(* unless that happened while included services were READ.                 *)
TellsOnce ==
  told' # told => told = <<>> /\ ("cancelReading" \notin usage => ~ cancelled)
ToldOnce == [][TellsOnce]_vars

(* With a server that answers, a procedure ends: it asks for the handles   *)
(* behind those it has, and never for the same ones again.                 *)
Ends ==
  wire # None /\ "wild" \notin usage ~> wire = None \/ fault # "none"

=============================================================================
