----------------------------- MODULE AttService -----------------------------
(***************************************************************************)
(* What the ATT bearer promises the code above it, without queues, writer, *)
(* pending slots, timers or PDUs: three first-in first-out lines of        *)
(* submitted operations.  Requests and indications are answered strictly   *)
(* in the order they were submitted, each callback runs at most once, and  *)
(* an operation's user_data is given back exactly once, never before its   *)
(* callback.  Nothing is answered once the service has closed.             *)
(***************************************************************************)
EXTENDS Naturals, Sequences, SequencesExt

CONSTANTS
  Ops,       (* operations, each submitted at most once                    *)
  LineOf     (* the line an operation joins: "REQ", "IND" or "WRITE"       *)

Lines == {"REQ", "IND", "WRITE"}

VARIABLES
  open,      (* new operations are accepted                                *)
  line,      (* per line: operations submitted and not answered yet        *)
  calling,   (* operations whose callback is running                       *)
  submitted, (* operations ever accepted                                   *)
  released   (* operations whose user_data has been given back             *)

service == <<open, line, calling, submitted, released>>

ServiceInit ==
  /\ open = TRUE
  /\ line = [l \in Lines |-> <<>>]
  /\ calling = {}
  /\ submitted = {}
  /\ released = {}

Submit(o) ==
  /\ open
  /\ o \notin submitted
  /\ submitted' = submitted \union {o}
  /\ line' = [line EXCEPT ![LineOf[o]] = Append(@, o)]
  /\ UNCHANGED <<open, calling, released>>

(* The callback of the oldest operation of its line starts.                *)
Answer(o) ==
  /\ LineOf[o] \in {"REQ", "IND"}
  /\ line[LineOf[o]] # <<>> /\ o = Head(line[LineOf[o]])
  /\ calling = {}
  /\ calling' = {o}
  /\ line' = [line EXCEPT ![LineOf[o]] = Tail(@)]
  /\ UNCHANGED <<open, submitted, released>>

(* The callback returns, or the operation is cancelled by its callback.    *)
Finish(o) ==
  /\ o \in calling
  /\ calling' = {}
  /\ released' = released \union {o}
  /\ UNCHANGED <<open, line, submitted>>

(* A command leaves; it has no callback and goes in submission order too.  *)
Emit(o) ==
  /\ line["WRITE"] # <<>> /\ o = Head(line["WRITE"])
  /\ line' = [line EXCEPT !["WRITE"] = Tail(@)]
  /\ released' = released \union {o}
  /\ UNCHANGED <<open, calling, submitted>>

(* An operation is cancelled, or times out, without its callback.          *)
Drop(o) ==
  /\ \E k \in DOMAIN line[LineOf[o]] :
       /\ line[LineOf[o]][k] = o
       /\ line' = [line EXCEPT ![LineOf[o]] = RemoveAt(@, k)]
  /\ released' = released \union {o}
  /\ UNCHANGED <<open, calling, submitted>>

InLine == UNION {ToSet(line[l]) : l \in Lines}

(* Everything in line is dropped, with or without closing; an operation    *)
(* whose callback is running may be dropped with it.                       *)
Flush ==
  /\ open' \in {open, FALSE}
  /\ line' = [l \in Lines |-> <<>>]
  /\ calling' \in {calling, {}}
  /\ released' = released \union InLine \union (calling \ calling')
  /\ UNCHANGED submitted

ServiceNext ==
  \/ \E o \in Ops : Submit(o) \/ Answer(o) \/ Finish(o) \/ Emit(o) \/ Drop(o)
  \/ Flush

ServiceSpec == ServiceInit /\ [][ServiceNext]_service

=============================================================================
