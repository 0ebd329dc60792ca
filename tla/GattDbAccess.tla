---------------------------- MODULE GattDbAccess ----------------------------
(***************************************************************************)
(* lib/bluez/gatt-db.c: reading and writing the attributes of GattDb.      *)
(*                                                                         *)
(* An attribute with a read and a write function (Managed) hands each      *)
(* request to its owner with an id, and keeps it until the owner answers   *)
(* with that id, five seconds are over, or the attribute is destroyed.     *)
(* The value of any other attribute is stored in the database.             *)
(***************************************************************************)
EXTENDS GattDb

CONSTANTS
  Requests,
  Managed,     (* handles of the attributes with functions                 *)
  MaxLen       (* bound: bytes of a stored value                           *)

ASSUME AccessConstantsOK ==
  /\ IsFiniteSet(Requests) /\ None \notin Requests
  /\ Managed \subseteq Handles
  /\ MaxLen \in Nat

VARIABLES
  pending,     (* pending_reads and pending_writes of all attributes, and  *)
               (* those that a destroyed one has left behind               *)
  ids,         (* read_id and write_id of an attribute                     *)
  given,       (* of a request: the attribute and id its owner was given   *)
  told,        (* of a request: the calls of its callback, each with the   *)
               (* request that the answer is to, or "timeout", "cancelled" *)
  value        (* of an attribute                                          *)

access == <<pending, ids, given, told, value>>
vars == <<usage, db, access>>

Kinds == {"read", "write"}
ManagedPlaces == Services \X Managed
StoredPlaces == Services \X (Handles \ Managed)
Bytes == {"zero", "written", "undefined"}

AccessTypeOK ==
  /\ \A k \in DOMAIN pending :
       pending[k] \in [req : Requests, at : ManagedPlaces, kind : Kinds, id : Nat]
  /\ ids \in [ManagedPlaces \X Kinds -> Nat]
  /\ given \in [Requests -> [at : ManagedPlaces, kind : Kinds, id : Nat] \union {None}]
  /\ \A r \in Requests : ToSet(told[r]) \subseteq Requests \union {"timeout", "cancelled"}
  /\ value \in [StoredPlaces -> BoundedSeq(Bytes, MaxLen)]

Init ==
  /\ DbInit
  /\ pending = <<>>
  /\ ids = [p \in ManagedPlaces \X Kinds |-> 0]
  /\ given = [r \in Requests |-> None]
  /\ told = [r \in Requests |-> <<>>]
  /\ value = [p \in StoredPlaces |-> <<>>]

(* The attributes that callers read and write.                             *)
Accessible(at) ==
  /\ MayCall /\ "access" \in usage
  /\ status[at[1]] = "listed"
  /\ \E a \in ToSet(service[at[1]].attributes) :
       a.handle = at[2] /\ a.type \in {"value", "desc"}

(* Mutant of Entry: the id is not counted up.                              *)
Entry_SameId(r, at, kind) == [req |-> r, at |-> at, kind |-> kind, id |-> 1]

(* new pending_read or pending_write                                       *)
Entry(r, at, kind) == [req |-> r, at |-> at, kind |-> kind, id |-> ids[at, kind] + 1]

(* gatt_db_attribute_read, gatt_db_attribute_write: with functions.        *)
Ask(r, at, kind) ==
  LET p == Entry(r, at, kind) IN
  /\ Accessible(at)
  /\ given[r] = None
  /\ pending' = Append(pending, p)
  /\ ids' = [ids EXCEPT ![at, kind] = @ + 1]
  /\ given' = [given EXCEPT ![r] = [at |-> at, kind |-> kind, id |-> p.id]]
  /\ UNCHANGED <<usage, db, told, value>>

(* pending_read_result, pending_write_result                               *)
Call(p, outcome) == told' = [told EXCEPT ![p.req] = Append(@, outcome)]

(* The request leaves its queue and its callback is called.                *)
Resolve(k, outcome) ==
  /\ pending' = RemoveAt(pending, k)
  /\ Call(pending[k], outcome)

(* gatt_db_attribute_read_result, gatt_db_attribute_write_result: the owner *)
(* answers request r, be it in time, late or once more.                    *)
Result(r) ==
  LET k == SelectInSeq(pending, LAMBDA p :
             [at |-> p.at, kind |-> p.kind, id |-> p.id] = given[r])
  IN
  /\ MayCall /\ given[r] # None /\ status[given[r].at[1]] = "listed"
  /\ k # 0
  /\ Resolve(k, r)
  /\ UNCHANGED <<usage, db, ids, given, value>>

(* The timer of pending[k] has run out; it lives on when the attribute is   *)
(* freed under a request that was made too late to be cancelled.           *)
Expire(k) ==
  /\ fault = "none" /\ frames = <<>>
  /\ IF status[pending[k].at[1]] = "freed"
     THEN fault' = "attribute" /\ UNCHANGED <<pending, told>>
     ELSE Resolve(k, "timeout") /\ UNCHANGED fault
  /\ UNCHANGED <<usage, content, watch, held, alive, frames, ids, given, value>>

ReadTimeout == \E k \in DOMAIN pending : pending[k].kind = "read" /\ Expire(k)
WriteTimeout == \E k \in DOMAIN pending : pending[k].kind = "write" /\ Expire(k)

(* Mutant of Timeout: writes have no timer.                                 *)
Timeout_Reads == ReadTimeout

(* timeout_callback of timeout-glib.c; a timer runs out once.              *)
Timeout == ReadTimeout \/ WriteTimeout

(* The database has changed; attribute_destroy cancels what is pending on  *)
(* the attributes of the services that were freed.  A callback that reads  *)
(* the attribute again leaves a request behind with its timer.             *)
Cancelled ==
  LET Freed(p) == status[p.at[1]] # "freed" /\ status'[p.at[1]] = "freed"
      gone == SelectSeq(pending, LAMBDA p : Freed(p))
      kept == SelectSeq(pending, LAMBDA p : ~ Freed(p))
  IN
  /\ told' = [r \in Requests |->
       IF \E p \in ToSet(gone) : p.req = r THEN Append(told[r], "cancelled")
       ELSE told[r]]
  /\ \/ pending' = kept /\ UNCHANGED <<ids, given>>
     \/ /\ "readInside" \in usage
        /\ \E p \in ToSet(gone), r \in Requests :
             /\ given[r] = None
             /\ LET new == Entry(r, p.at, p.kind) IN
                /\ pending' = Append(kept, new)
                /\ ids' = [ids EXCEPT ![p.at, p.kind] = new.id]
                /\ given' = [given EXCEPT ![r] =
                     [at |-> p.at, kind |-> p.kind, id |-> new.id]]
  /\ value' = [at \in StoredPlaces |->
       IF status'[at[1]] = "freed" THEN <<>> ELSE value[at]]

(* gatt_db_attribute_write: a stored value grows as far as it must.  Of     *)
(* the bytes between its old end and the new ones only those of the first   *)
(* allocation are set.                                                     *)
Grown(old, offset, len) ==
  LET gap == IF old = <<>> THEN "zero" ELSE "undefined"
      size == Max({Len(old), offset + len})
  IN [k \in 1 .. size |->
        IF k > offset /\ k <= offset + len THEN "written"
        ELSE IF k <= Len(old) THEN old[k] ELSE gap]

Write(at, offset, len) ==
  /\ Accessible(at)
  /\ len > 0 /\ offset + len <= MaxLen
  /\ "holes" \notin usage => value[at] = <<>> \/ offset <= Len(value[at])
  /\ value' = [value EXCEPT ![at] = Grown(@, offset, len)]
  /\ UNCHANGED <<usage, db, pending, ids, given, told>>

(* gatt_db_attribute_reset *)
Reset(at) ==
  /\ Accessible(at)
  /\ value' = [value EXCEPT ![at] = <<>>]
  /\ UNCHANGED <<usage, db, pending, ids, given, told>>

Next ==
  \/ DbNext /\ Cancelled
  \/ \E r \in Requests, at \in ManagedPlaces, kind \in Kinds : Ask(r, at, kind)
  \/ \E r \in Requests : Result(r)
  \/ Timeout
  \/ \E at \in StoredPlaces :
       \/ \E offset \in 0 .. MaxLen, len \in 1 .. MaxLen : Write(at, offset, len)
       \/ Reset(at)

(* A timer that has run out is called when control is back in the main     *)
(* loop, however often it leaves it (strong fairness), provided that the   *)
(* program iterates the glib context that timeout_add attaches timers to:  *)
(* what becomes of requests in a program that does not, as this one, is    *)
(* shown by AttTransport.  A notification is a loop and comes to its end.  *)
Spec ==
  /\ Init /\ [][Next]_vars
  /\ SF_vars(Timeout)
  /\ WF_vars((CallWatcher \/ Told) /\ Cancelled)

-----------------------------------------------------------------------------
(* Properties.                                                             *)

(* The callback of a request is called at most once, and until then the    *)
(* request is pending: answers, also late ones and second ones, timers and *)
(* the removal of the service race for it.  An answer reaches the request  *)
(* whose id the owner was given.                                           *)
ToldOnce ==
  fault = "none" => \A r \in Requests :
    /\ told[r] \in {<<>>, <<r>>, <<"timeout">>, <<"cancelled">>}
    /\ (\E p \in ToSet(pending) : p.req = r) <=> given[r] # None /\ told[r] = <<>>

(* No byte that was never set is in a stored value, for callers that do    *)
(* not write behind its end.                                               *)
NoGarbage ==
  "holes" \notin usage => \A at \in StoredPlaces : "undefined" \notin ToSet(value[at])

(* Nothing is used after it was freed, for callers that do not read in the *)
(* callback of a read that is cancelled either.                            *)
NoUseAfterFree == "readInside" \notin usage => DbSafe

Inv == DbInv /\ AccessTypeOK /\ NoGarbage /\ NoUseAfterFree

(* Each request is answered in the end, whatever its owner does and        *)
(* whether or not the service goes away, where timers run.                 *)
Answered ==
  \A r \in Requests : given[r] # None ~> told[r] # <<>> \/ fault # "none"

=============================================================================
