--------------------------- MODULE MCFoundations ---------------------------
(***************************************************************************)
(* What lib/bluez/gatt-client.c stands on, in one run: queue.c, the        *)
(* registrations and references of att.c, the procedures of                *)
(* gatt-helpers.c.  Each behaviour is one of one of them and the variables *)
(* of the others are None.                                                 *)
(*                                                                         *)
(* Registrations: two handlers for PDUs, of which the request for the MTU  *)
(* concerns both and a signed command one, two for disconnection, and a    *)
(* debug closure.  Procedures: handles of three bits; a server with        *)
(* nothing, with neighbours, a gap and a last group that reaches the end,  *)
(* and with long and short UUIDs.                                          *)
(***************************************************************************)
EXTENDS Integers, Sequences, TLC

CONSTANTS Entries, Data, n1, n2, d1, d2, g1, Requests, None

QueueUsages == {{}, {"removeTwo", "refill", "destroyInside"}}

Handlers == {n1, n2, d1, d2, g1}
Kind == (n1 :> "notify") @@ (n2 :> "notify") @@ (d1 :> "disconn")
          @@ (d2 :> "disconn") @@ (g1 :> "debug")
Opcode == (n1 :> "ALL_REQUESTS") @@ (n2 :> "MTU_REQ")
RegistryUsages == {{}, {"others", "orphans", "mtu"}}

At(h, e, long) == [handle |-> h, end |-> e, long |-> long]
Databases ==
  {{},
   {At(2, 3, FALSE), At(4, 4, FALSE), At(6, 7, FALSE)},
   {At(2, 2, TRUE), At(3, 3, TRUE), At(5, 5, FALSE)},
   {At(3, 3, FALSE), At(6, 6, TRUE), At(7, 7, TRUE)}}
HelperUsages ==
  {{}, {"errors", "refuses"}, {"wild", "refuses"},
   {"errors", "refuses", "cancelInside", "cancelReading", "attFirst"}}

VARIABLES
  part,
  usage, head, tail, entries, next, data, refs, used, ref_count, owned,
  stack, fault, notify_list, disconn_list, slot, status, destroyed, owners,
  requests, holding, io, in_req, replies, accepted, mtu, remote_sign, frame,
  db, procedure, start_handle, end_handle, asked, id, holds, results, wire,
  from, heard, reading, bearer, rx_mtu, told, cancelled

Q == INSTANCE ListQueue WITH Null <- None, MaxDepth <- 2, Usages <- QueueUsages
A == INSTANCE AttRegistry
       WITH PDUs <- {"MTU_REQ", "SIGNED_WRITE_CMD"}, ExtSigned <- FALSE,
            MaxOwners <- 2, MaxMtu <- 1, Usages <- RegistryUsages
H == INSTANCE GattHelpers
       WITH MaxHandle <- 7, MaxPerPdu <- 2, MaxPdus <- 5, MaxWild <- 2,
            Procedures <- {"primary", "byUuid", "included", "characteristics",
                           "readByType", "descriptors", "mtu"},
            Mtus <- {22, 23, 30, 40}, DefaultMtu <- 23,
            Usages <- HelperUsages

ASSUME FoundationConstantsOK ==
  Q!QueueConstantsOK /\ A!RegistryConstantsOK /\ H!HelperConstantsOK

vars == <<part, usage, head, tail, entries, next, data, refs, used, ref_count,
          owned, stack, fault, notify_list, disconn_list, slot, status,
          destroyed, owners, requests, holding, io, in_req, replies,
          accepted, mtu, remote_sign, frame, db, procedure, start_handle,
          end_handle, asked, id, holds, results, wire, from, heard, reading,
          bearer, rx_mtu, told, cancelled>>

QueueingInit ==
  /\ part = "queue" /\ Q!Init
  /\ notify_list = None /\ disconn_list = None /\ slot = None
  /\ status = None /\ destroyed = None /\ owners = None /\ requests = None
  /\ holding = None /\ io = None /\ in_req = None /\ replies = None
  /\ accepted = None /\ mtu = None /\ remote_sign = None /\ frame = None
  /\ db = None /\ procedure = None /\ start_handle = None
  /\ end_handle = None /\ asked = None /\ id = None /\ holds = None
  /\ results = None /\ wire = None /\ from = None /\ heard = None
  /\ reading = None /\ bearer = None /\ rx_mtu = None /\ told = None
  /\ cancelled = None
Queueing(Step) ==
  /\ part = "queue" /\ Step
  /\ UNCHANGED <<part, notify_list, disconn_list, slot, status, destroyed, owners,
                 requests, holding, io, in_req, replies, accepted, mtu,
                 remote_sign, frame, db, procedure, start_handle,
                 end_handle, asked, id, holds, results, wire, from, heard,
                 reading, bearer, rx_mtu, told, cancelled>>

DispatchingInit ==
  /\ part = "registry" /\ A!Init
  /\ head = None /\ tail = None /\ entries = None /\ next = None
  /\ data = None /\ refs = None /\ used = None /\ owned = None
  /\ stack = None /\ db = None /\ procedure = None /\ start_handle = None
  /\ end_handle = None /\ asked = None /\ id = None /\ holds = None
  /\ results = None /\ wire = None /\ from = None /\ heard = None
  /\ reading = None /\ bearer = None /\ rx_mtu = None /\ told = None
  /\ cancelled = None
Dispatching(Step) ==
  /\ part = "registry" /\ Step
  /\ UNCHANGED <<part, head, tail, entries, next, data, refs, used, owned, stack,
                 db, procedure, start_handle, end_handle, asked, id, holds,
                 results, wire, from, heard, reading, bearer, rx_mtu, told,
                 cancelled>>

DiscoveringInit ==
  /\ part = "helpers" /\ H!Init
  /\ head = None /\ tail = None /\ entries = None /\ next = None
  /\ data = None /\ used = None /\ ref_count = None /\ owned = None
  /\ stack = None /\ notify_list = None /\ disconn_list = None
  /\ slot = None /\ status = None /\ destroyed = None /\ owners = None
  /\ requests = None /\ holding = None /\ io = None /\ in_req = None
  /\ replies = None /\ accepted = None /\ remote_sign = None
  /\ frame = None
Discovering(Step) ==
  /\ part = "helpers" /\ Step
  /\ UNCHANGED <<part, head, tail, entries, next, data, used, ref_count, owned,
                 stack, notify_list, disconn_list, slot, status, destroyed,
                 owners, requests, holding, io, in_req, replies, accepted,
                 remote_sign, frame>>

Init == QueueingInit \/ DispatchingInit \/ DiscoveringInit
Next == Queueing(Q!Next) \/ Dispatching(A!Next) \/ Discovering(H!Next)

(* The server answers what it is asked (or the bearer's timer ends it).    *)
Spec == Init /\ [][Next]_vars /\ WF_vars(Discovering(H!Answer))

-----------------------------------------------------------------------------
(* Properties: those of the parts.                                         *)

(* The list, the handlers and the references are what their users believe, *)
(* and nothing is used after it was freed, under the uses that the         *)
(* invariants name.                                                        *)
Inv ==
  /\ part = "queue" => Q!Inv
  /\ part = "registry" => A!Inv
  /\ part = "helpers" => H!Inv

(* What stays in a queue while it is walked is visited once, in order.     *)
AllVisited == [][part = "queue" => Q!VisitsAll]_vars

(* queue.c implements the sequence that queue.h promises.                  *)
Sequence == INSTANCE SequenceQueue
  WITH contents <- IF part = "queue" THEN Q!Contents ELSE <<>>
ImplementsSequence == Sequence!Spec

(* A handler is told of a PDU or of the disconnection exactly once, and    *)
(* the user of a procedure of its end at most once.                        *)
ToldOnce ==
  [][/\ part = "registry" => A!TellsOnce
     /\ part = "helpers" => H!TellsOnce]_vars

(* A procedure that succeeds has found all there is.                       *)
FoundAll == part = "helpers" => H!FoundAll

(* A procedure ends, with a server that is not wild.                       *)
Ends ==
  part = "helpers" /\ wire # None /\ "wild" \notin usage
    ~> (part = "helpers" => wire = None \/ fault # "none")

=============================================================================
