---------------------------- MODULE GattCallers ----------------------------
(***************************************************************************)
(* The two programs that write long values through lib/bluez/gatt-client.c:*)
(* LEClient (le_client.cpp), whose caller waits for a promise that a       *)
(* callback on the loop's thread keeps, and the shell of btgattclient.c,   *)
(* which runs in the loop and waits for nothing.  Both remember the session*)
(* they have opened.  The client is ready (bt_gatt_client_is_ready).       *)
(***************************************************************************)
EXTENDS GattLongWrite

VARIABLES
  reliable_session_id, (* LEClient's and the shell's; None for 0           *)
  caller,              (* whose promise LEClient's caller waits for, None, *)
                       (* or "refused" if the call was not accepted        *)
  unverified           (* long writes that end with reliable_error         *)

callers == <<reliable_session_id, caller, unverified>>

CallersTypeOK ==
  /\ reliable_session_id \in Session \union {None}
  /\ caller \in Writes \union {None, "refused"}
  /\ unverified \subseteq Long

CallersInit ==
  /\ Init
  /\ reliable_session_id = None
  /\ caller = None
  /\ unverified = {}

Direct == usage \intersect {"blocking", "shell"} = {}
Promises == "blocking" \in usage /\ caller = None

-----------------------------------------------------------------------------
(* LEClient::write_long_value, cmd_write_long_value                        *)
ClientWriteLong(r) ==
  /\ Promises
  /\ WriteLong(r)
  /\ caller' = r
  /\ UNCHANGED <<reliable_session_id, unverified>>

CmdWriteLong(r) == "shell" \in usage /\ WriteLong(r) /\ UNCHANGED callers

(* What becomes of a PREPARE WRITE of the session the caller names: the    *)
(* client takes it, or 0 is remembered.                                    *)
Proceed(id, r) ==
  /\ reliable_session_id = id
  /\ id \in {None, r}
  /\ \/ PrepareWrite(r) /\ reliable_session_id' = r
     \/ /\ in_long_write \/ session # id
        /\ reliable_session_id' = None
        /\ UNCHANGED vars
  /\ UNCHANGED <<caller, unverified>>

(* LEClient::write_prepare, cmd_write_prepare                              *)
ClientWritePrepare(id, r) == Promises /\ Proceed(id, r)
CmdWritePrepare(id, r) == "shell" \in usage /\ Proceed(id, r)

Accepted(id) == ~ in_long_write /\ session = id /\ PendingRequest(id)

(* write_execute(id, false)                                                *)
GiveUp(id) ==
  IF PendingRequest(id) THEN CancelSession(id) ELSE UNCHANGED vars

(* LEClient::write_execute: whichever id the caller gives, the session is  *)
(* forgotten, and a promise nobody knows is awaited if the call is refused.*)
ClientWriteExecute(id, execute) ==
  /\ Promises
  /\ "strays" \in usage \/ (id # None /\ id = reliable_session_id)
  /\ IF execute
     THEN /\ IF Accepted(id) THEN WriteExecute(id) ELSE UNCHANGED vars
          /\ caller' = IF Accepted(id) THEN id ELSE "refused"
     ELSE GiveUp(id) /\ UNCHANGED caller
  /\ reliable_session_id' = None
  /\ UNCHANGED unverified

(* cmd_write_execute: only the session the shell remembers.                *)
CmdWriteExecute(id, execute) ==
  /\ "shell" \in usage
  /\ id = reliable_session_id
  /\ CASE execute /\ Accepted(id) -> WriteExecute(id)
       [] execute /\ ~ Accepted(id) -> UNCHANGED vars
       [] OTHER -> GiveUp(id)
  /\ reliable_session_id' = None
  /\ UNCHANGED <<caller, unverified>>

-----------------------------------------------------------------------------
(* write_long_cb keeps the promise, but for a reliable_error; write_cb     *)
(* keeps it always.                                                        *)
KeepPromise ==
  /\ WriteEnds
  /\ caller' = IF caller = Head(line).req /\ caller \notin unverified
               THEN None ELSE caller
  /\ UNCHANGED <<reliable_session_id, unverified>>

(* prepare_write_cb, of which the callback hears later what came of it.    *)
Verify(outcome) ==
  /\ PrepareWriteCb(outcome)
  /\ unverified' = IF outcome = "garbled" THEN unverified \union {Head(line).req}
                   ELSE unverified
  /\ UNCHANGED <<reliable_session_id, caller>>

CallersAnswer ==
  \/ KeepPromise
  \/ \E outcome \in Outcomes : Verify(outcome)
  \/ /\ \/ \E outcome \in Outcomes : PrepWriteCb(outcome)
        \/ WriteEnded
        \/ CancelLongWriteCb
        \/ CancelPrepWriteCb
     /\ UNCHANGED callers

(* Whoever opens a session may end it, unless he waits.                    *)
EndSession(r) ==
  \/ Direct /\ (WriteExecute(r) \/ CancelSession(r)) /\ UNCHANGED callers
  \/ \E execute \in BOOLEAN :
       ClientWriteExecute(r, execute) \/ CmdWriteExecute(r, execute)

CallersNext ==
  \/ Direct /\ Api /\ UNCHANGED callers
  \/ \E r \in Long : ClientWriteLong(r) \/ CmdWriteLong(r)
  \/ \E r \in Session, id \in Session \union {None} :
       ClientWritePrepare(id, r) \/ CmdWritePrepare(id, r)
  \/ \E id \in Session \union {None}, execute \in BOOLEAN :
       ClientWriteExecute(id, execute) \/ CmdWriteExecute(id, execute)
  \/ CallersAnswer

CallersSpec == CallersInit /\ [][CallersNext]_<<vars, callers>>

-----------------------------------------------------------------------------
(* Properties.                                                             *)

(* A program never loses the session it has opened: it remembers it until  *)
(* the EXECUTE WRITE that ends it is on its way.  LEClient relies on its   *)
(* caller for that, the shell compares the id it is given.  (An impatient  *)
(* program may go on with a session that is being executed, and remember   *)
(* it for longer than it lasts.)                                           *)
SessionKnown ==
  ~ Direct /\ "impatient" \notin usage
    /\ ("blocking" \notin usage \/ "strays" \notin usage) =>
    /\ session # None =>
         \/ reliable_session_id = session
         \/ \E i \in Of(session) : line[i].pdu # "PREP"
    /\ reliable_session_id # None => session = reliable_session_id

CallersInv == Inv /\ CallersTypeOK /\ SessionKnown

(* Where LEClient's caller waits for ever: the call was refused, the write *)
(* was not verified, or it is queued behind a session that only its caller *)
(* would end, or that was given up (cancel_prep_write_cb starts no long    *)
(* write).                                                                 *)
Hopeless ==
  \/ caller = "refused"
  \/ caller \in unverified
  \/ /\ caller \in ToSet(long_write_queue)
     /\ \/ session # None /\ Of(session) = {}
        \/ removed \intersect Session # {}

(* Anywhere else the call returns.                                         *)
CallReturns == caller # None ~> caller = None \/ Hopeless

=============================================================================
