------------------------------- MODULE GattDb -------------------------------
(***************************************************************************)
(* lib/bluez/gatt-db.c: the services of a GATT database in the order of    *)
(* their handles, the attributes of each, the queries, and the watchers    *)
(* that are told of services that become active and cease to be.           *)
(*                                                                         *)
(* Handles have the width given by MaxHandle, 0xffff in the code.  Each    *)
(* struct gatt_db_service is allocated once, so that using one after it    *)
(* was freed shows.  A watcher may call the API before it returns, also so *)
(* that the watchers are told of something else meanwhile: notifications   *)
(* are a stack of frames.                                                  *)
(***************************************************************************)
EXTENDS Integers, Sequences, SequencesExt, FiniteSets, FiniteSetsExt, Uuid

CONSTANTS
  Services,
  MaxHandle,
  Keys,        (* declaration and UUID of services                         *)
  Watchers,
  Places(_),   (* bound: key, start and number of handles asked for        *)
  Most(_),     (* bound: services and watchers that there will be, by usage *)
  MaxDepth,    (* bound: notifications within each other                   *)
  None,
  Usages       (* what callers do, see usage                               *)

Key == [type : {"primary", "secondary"}, uuid : Uuid]

ASSUME DbConstantsOK ==
  /\ IsFiniteSet(Services) /\ IsFiniteSet(Watchers)
  /\ None \notin Services \union Watchers
  /\ MaxHandle \in Nat \ {0} /\ MaxDepth \in Nat \ {0}
  /\ Keys \subseteq Key
  /\ Usages \subseteq SUBSET
       {"watch", "around", "wild", "mixed", "ends", "half", "inside",
        "activeInside", "removeInside", "leaveInside", "unrefInside",
        "access", "readInside", "holes"}

VARIABLES
  usage,        (* "watch": watchers register;                             *)
                (* "around": a new service lies around existing ones;      *)
                (* "wild": attributes are inserted at any handle; "mixed": *)
                (* attributes are added behind ones inserted with gaps;    *)
                (* "ends": services at the last handle or after a clear;   *)
                (* "half": watchers without one of the functions;          *)
                (* "inside": a watcher adds, removes and (de)activates     *)
                (* services before it returns; "activeInside": ... also    *)
                (* one that watchers are being told of, or that is on its  *)
                (* way out; "removeInside": removes also such a service;   *)
                (* "leaveInside": unregisters also another watcher, or     *)
                (* itself in a notification within another;                *)
                (* "unrefInside": gives up the database; the others see    *)
                (* GattDbAccess                                            *)
  services,     (* db->services                                            *)
  status,       (* of a service: "new", "listed", "out" or "freed"         *)
  service,      (* its key, start, num_handles, active and attributes      *)
  next_handle,
  notify_list,
  watching,     (* of a watcher: "new", "registered" or "gone"             *)
  hears,        (* the functions it has: "added", "removed" or both        *)
  known,        (* history: services it was told of, and not of their end  *)
  due,          (* history: services activated while it was registered     *)
  held,         (* the user's reference to the database                    *)
  alive,        (* the database has not been freed                         *)
  frames,       (* the notifications in progress, the innermost last       *)
  fault         (* "none", or what was used after it was freed             *)

content == <<services, status, service, next_handle>>
list == <<notify_list, watching, hears>>
watch == <<list, known, due>>
db == <<content, watch, held, alive, frames, fault>>

Handles == 1 .. MaxHandle
Functions == {"added", "removed"}
Types == {"primary", "secondary", "chrc", "value", "desc", "incl"}
(* refers: the handle in the declaration of a characteristic, the first and *)
(* the last one in that of an included service.                            *)
Attribute ==
  [handle : 0 .. MaxHandle, type : Types, refers : Seq(0 .. MaxHandle)]
Service ==
  [key : Keys, start : Handles, num : Handles, active : BOOLEAN,
   attributes : Seq(Attribute)]

TypeOK ==
  /\ usage \in Usages
  /\ services \in Seq(Services) /\ IsInjective(services)
  /\ status \in [Services -> {"new", "listed", "out", "freed"}]
  /\ service \in [Services -> Service \union {None}]
  /\ next_handle \in 0 .. MaxHandle
  /\ notify_list \in Seq(Watchers)
  /\ watching \in [Watchers -> {"new", "registered", "gone"}]
  /\ hears \in [Watchers -> SUBSET Functions]
  /\ {known, due} \subseteq [Watchers -> SUBSET Services]
  /\ {held, alive} \subseteq BOOLEAN
  /\ Len(frames) <= MaxDepth
  /\ \A k \in DOMAIN frames : frames[k].service \in Services
  /\ fault \in {"none", "attribute", "service", "entry", "null", "db"}

(* gatt_db_new *)
DbInit ==
  /\ usage \in Usages
  /\ services = <<>>
  /\ status = [s \in Services |-> "new"]
  /\ service = [s \in Services |-> None]
  /\ next_handle = 1
  /\ notify_list = <<>>
  /\ watching = [w \in Watchers |-> "new"]
  /\ known = [w \in Watchers |-> {}] /\ due = known /\ hears = known
  /\ held = TRUE /\ alive = TRUE
  /\ frames = <<>>
  /\ fault = "none"

Idle == fault = "none" /\ alive /\ frames = <<>>
Top == Last(frames)
InWatcher == fault = "none" /\ frames # <<>> /\ Top.cur # None
MayCall == held /\ (Idle \/ (InWatcher /\ "inside" \in usage))

End(s) == service[s].start + service[s].num - 1
LastAttribute(s) == Last(service[s].attributes)
Listed == {s \in Services : status[s] = "listed"}

(* Services that watchers are not being told of, nor will be.              *)
Settled(ss) == ss \subseteq Listed \ {frames[k].service : k \in DOMAIN frames}

-----------------------------------------------------------------------------
(* Services.                                                               *)

(* What is freed is forgotten; the rest of status is as given.             *)
Free(ss, st) ==
  /\ status' = [s \in Services |-> IF s \in ss THEN "freed" ELSE st[s]]
  /\ service' = [s \in Services |-> IF s \in ss THEN None ELSE service[s]]
Out(ss) ==
  [s \in Services |-> IF s \in ss \intersect Listed THEN "out" ELSE status[s]]

(* new_attribute *)
Attr(h, type, refers) == [handle |-> h, type |-> type, refers |-> refers]

(* find_insert_loc: the first service that holds one of the new ends or    *)
(* lies behind them.                                                       *)
Holds(s, h) == h \in service[s].start .. End(s)
Stops(s, start, end) ==
  Holds(s, start) \/ Holds(s, end) \/ end < service[s].start
(* Mutant of InsertLoc: the start of the new service is not looked at.      *)
InsertLoc_End(start, end) ==
  LET k == SelectInSeq(services, LAMBDA s : Holds(s, end)
                                              \/ end < service[s].start)
  IN IF k = 0 THEN Len(services) + 1 ELSE k

InsertLoc(start, end) ==
  LET k == SelectInSeq(services, LAMBDA s : Stops(s, start, end))
  IN IF k = 0 THEN Len(services) + 1 ELSE k

(* gatt_db_insert_service; a service that is already there is returned as  *)
(* it is, and any other that meets the new one refuses it.                 *)
InsertService(s, key, start, num) ==
  LET end == start + num - 1
      k == InsertLoc(start, end)
  IN
  /\ MayCall
  /\ status[s] = "new" /\ s = CHOOSE x \in Services : status[x] = "new"
  /\ Cardinality({x \in Services : status[x] # "new"}) < Most(usage).services
  /\ start >= 1 /\ end <= MaxHandle
  /\ "around" \notin usage =>
       \A x \in Listed : ~ (start < service[x].start /\ End(x) < end)
  /\ "ends" \notin usage => end < MaxHandle /\ next_handle # 0
  /\ k <= Len(services) => end < service[services[k]].start
  /\ services' = InsertAt(services, k, s)
  /\ status' = [status EXCEPT ![s] = "listed"]
  /\ service' = [service EXCEPT ![s] =
       [key |-> key, start |-> start, num |-> num, active |-> FALSE,
        attributes |-> <<Attr(start, key.type, <<>>)>>]]
  /\ next_handle' = Max({start + num, next_handle}) % (MaxHandle + 1)
  /\ UNCHANGED <<usage, watch, held, alive, frames, fault>>

(* gatt_db_add_service; next_handle is 0 behind the last handle, and after *)
(* gatt_db_clear.                                                          *)
AddService(s, key, num) == InsertService(s, key, next_handle, num)

-----------------------------------------------------------------------------
(* Attributes take the first free place of attributes[], and keep one for  *)
(* the value behind the declaration of a characteristic.                   *)

Room(s, offset) == Len(service[s].attributes) < service[s].num - offset

Append_(s, attrs) ==
  /\ service' = [service EXCEPT ![s].attributes = @ \o attrs]
  /\ UNCHANGED <<usage, services, status, next_handle, watch, held, alive,
                 frames, fault>>

Fill(s) == MayCall /\ status[s] = "listed" /\ ~ service[s].active

(* Where callers that are not wild insert the next attribute.              *)
Fits(s, first, last) ==
  "wild" \notin usage => LastAttribute(s).handle < first /\ last <= End(s)
NoGap(s) ==
  \/ "mixed" \in usage
  \/ LastAttribute(s).handle + 1 =
       service[s].start + Len(service[s].attributes)

(* service_insert_characteristic; h is the handle of the value.            *)
Characteristic(s, h) ==
  /\ Fill(s) /\ Room(s, 1)
  /\ Append_(s, <<Attr(h - 1, "chrc", <<h>>), Attr(h, "value", <<>>)>>)

InsertCharacteristic(s, h) ==
  /\ h # MaxHandle /\ h > service[s].start
  /\ Fits(s, h - 1, h)
  /\ Characteristic(s, h)

AddCharacteristic(s) ==
  /\ NoGap(s)
  /\ LastAttribute(s).handle + 2 <= MaxHandle
  /\ Characteristic(s, LastAttribute(s).handle + 2)

(* service_insert_descriptor *)
Descriptor(s, h) ==
  /\ Fill(s) /\ Room(s, 0)
  /\ Append_(s, <<Attr(h, "desc", <<>>)>>)

InsertDescriptor(s, h) ==
  /\ h > service[s].start
  /\ Fits(s, h, h)
  /\ Descriptor(s, h)

AddDescriptor(s) ==
  /\ NoGap(s)
  /\ LastAttribute(s).handle + 1 <= MaxHandle
  /\ Descriptor(s, LastAttribute(s).handle + 1)

(* gatt_db_service_add_included, attribute_update: the handles of the other *)
(* service are copied.                                                     *)
AddIncluded(s, other) ==
  /\ NoGap(s)
  /\ LastAttribute(s).handle + 1 <= MaxHandle
  /\ status[other] = "listed"
  /\ Fill(s) /\ Room(s, 0)
  /\ Append_(s, <<Attr(LastAttribute(s).handle + 1, "incl",
                       <<service[other].start, End(other)>>)>>)

-----------------------------------------------------------------------------
(* Watchers.                                                               *)

Register(w, functions) ==
  /\ MayCall \/ (InWatcher /\ held)
  /\ watching[w] = "new" /\ w = CHOOSE x \in Watchers : watching[x] = "new"
  /\ "watch" \in usage
  /\ Cardinality({x \in Watchers : watching[x] # "new"}) < Most(usage).watchers
  /\ functions # {}
  /\ functions = Functions \/ "half" \in usage
  /\ hears' = [hears EXCEPT ![w] = functions]
  /\ watching' = [watching EXCEPT ![w] = "registered"]
  /\ notify_list' = Append(notify_list, w)
  /\ UNCHANGED <<usage, content, known, due, held, alive, frames, fault>>

After(w) ==
  LET k == SelectInSeq(notify_list, LAMBDA x : x = w)
  IN IF k < Len(notify_list) THEN notify_list[k + 1] ELSE None

(* notify_destroy *)
DestroyNotify(w) ==
  /\ watching' = [watching EXCEPT ![w] = "gone"]
  /\ hears' = [hears EXCEPT ![w] = {}]
  /\ known' = [known EXCEPT ![w] = {}] /\ due' = [due EXCEPT ![w] = {}]

(* gatt_db_unregister.  queue_foreach goes on behind an entry that left    *)
(* while it was at it.                                                     *)
Unregister(w) ==
  /\ held /\ (Idle \/ InWatcher)
  /\ \/ frames = <<>>
     \/ Len(frames) = 1 /\ Top.cur = w
     \/ "leaveInside" \in usage
  /\ watching[w] = "registered"
  /\ DestroyNotify(w)
  /\ notify_list' = SelectSeq(notify_list, LAMBDA x : x # w)
  /\ frames' = [k \in DOMAIN frames |->
       IF frames[k].cur = w THEN [frames[k] EXCEPT !.frozen = After(w)]
       ELSE frames[k]]
  /\ UNCHANGED <<usage, content, held, alive, fault>>

(* notify_service_changed for s.  What comes after the watchers is "keep", *)
(* or "free" for a service that is destroyed, and then what is left of     *)
(* gatt_db_clear (todo) or gatt_db_clear_range (range).                    *)
Frame(s, added, then, todo, range) ==
  [service |-> s, added |-> added, cur |-> None, frozen |-> None,
   then |-> then, todo |-> todo, range |-> range]

NextWatcher ==
  IF notify_list = <<>> THEN None
  ELSE IF Top.cur = None THEN Head(notify_list)
  ELSE IF watching[Top.cur] = "registered" THEN After(Top.cur)
  ELSE Top.frozen

(* handle_notify.  The entry behind one that left may have left after it.  *)
CallWatcher ==
  LET w == NextWatcher
      s == Top.service
      what == IF Top.added THEN "added" ELSE "removed"
      wrong == IF watching[w] # "registered" THEN "entry"
               ELSE IF status[s] = "freed" THEN "attribute"
               ELSE IF what \notin hears[w] THEN "null"
               ELSE "none"
  IN
  /\ fault = "none" /\ frames # <<>>
  /\ w # None
  /\ fault' = wrong
  /\ IF wrong = "none"
     THEN /\ known' = [known EXCEPT ![w] =
                         IF Top.added THEN @ \union {s} ELSE @ \ {s}]
          /\ frames' = [frames EXCEPT ![Len(frames)].cur = w]
     ELSE UNCHANGED <<known, frames>>
  /\ UNCHANGED <<usage, content, list, due, held, alive>>

(* Mutant of SetActive: the watchers are told of what becomes active only.  *)
SetActive_Silent(s, active) ==
  /\ MayCall /\ Len(frames) < MaxDepth
  /\ Settled({s}) \/ "activeInside" \in usage
  /\ status[s] \in {"listed", "out"} /\ service[s].active # active
  /\ service' = [service EXCEPT ![s].active = active]
  /\ due' = [w \in Watchers |->
               IF watching[w] = "registered" /\ active THEN due[w] \union {s}
               ELSE due[w] \ {s}]
  /\ frames' = IF active THEN Append(frames, Frame(s, active, "keep", <<>>, {}))
               ELSE frames
  /\ UNCHANGED <<usage, services, status, next_handle, list, known, held, alive, fault>>

(* gatt_db_service_set_active                                              *)
SetActive(s, active) ==
  /\ MayCall /\ Len(frames) < MaxDepth
  /\ Settled({s}) \/ "activeInside" \in usage
  /\ status[s] \in {"listed", "out"} /\ service[s].active # active
  /\ service' = [service EXCEPT ![s].active = active]
  /\ due' = [w \in Watchers |->
               IF watching[w] = "registered" /\ active THEN due[w] \union {s}
               ELSE due[w] \ {s}]
  /\ frames' = Append(frames, Frame(s, active, "keep", <<>>, {}))
  /\ UNCHANGED <<usage, services, status, next_handle, list, known, held, alive, fault>>

-----------------------------------------------------------------------------
(* Removing services.  gatt_db_service_destroy tells the watchers of those *)
(* that are active, when they have left the list.                          *)

(* The services in sq are destroyed one after the other up to the first    *)
(* that is active, of which the watchers are told; the rest waits.  One    *)
(* that waited may have been freed meanwhile.  The services of which the   *)
(* watchers have been told (done) are freed before.                        *)
DestroyUpTo(sq, done, below, then, range) ==
  LET k == SelectInSeq(sq, LAMBDA s : status[s] = "freed" \/ service[s].active)
      silent == ToSet(IF k = 0 THEN sq ELSE SubSeq(sq, 1, k - 1))
      off == IF then # "range" \/ k = 0 THEN ToSet(sq) ELSE silent \union {sq[k]}
      rest == IF then = "clear" THEN SubSeq(sq, k + 1, Len(sq)) ELSE <<>>
      again == done \union IF k = 0 THEN {} ELSE {sq[k]}
  IN
  /\ services' = SelectSeq(services, LAMBDA s : s \notin off)
  /\ Free(silent \union done, Out(off))
  /\ frames' = IF k = 0 THEN below
               ELSE Append(below, Frame(sq[k], FALSE, then, rest, range))
  /\ Len(frames') <= MaxDepth
  /\ due' = [w \in Watchers |-> due[w] \ off]
  /\ next_handle' = IF then = "clear" /\ k = 0 THEN 0 ELSE next_handle
  /\ fault' = IF \E s \in again : status[s] = "freed" THEN "service" ELSE fault

MayDestroy(ss) == MayCall /\ (Settled(ss) \/ "removeInside" \in usage)

(* gatt_db_remove_service frees a service also if it is not in the list.   *)
RemoveService(s) ==
  /\ MayDestroy({s})
  /\ status[s] \in {"listed", "out"}
  /\ DestroyUpTo(<<s>>, {}, frames, "free", {})
  /\ UNCHANGED <<usage, list, known, held, alive>>

(* gatt_db_clear *)
Clear ==
  /\ MayDestroy(ToSet(services))
  /\ services # <<>>
  /\ DestroyUpTo(services, {}, frames, "clear", {})
  /\ UNCHANGED <<usage, list, known, held, alive>>

(* match_range and gatt_db_clear_range: queue_remove_all looks for the next *)
(* one after each.                                                         *)
InRange(range) ==
  SelectSeq(services, LAMBDA s : service[s].start .. End(s) \intersect range # {})
ClearRange(start, end) ==
  LET found == InRange(start .. end) IN
  /\ MayDestroy(ToSet(found))
  /\ found # <<>>
  /\ DestroyUpTo(found, {}, frames, "range", start .. end)
  /\ UNCHANGED <<usage, list, known, held, alive>>

(* gatt_db_destroy: the watchers go first, so that none is told.           *)
FreeDb ==
  /\ alive' = FALSE
  /\ services' = <<>>
  /\ Free({s \in Services : status[s] # "new"}, status)
  /\ notify_list' = <<>>
  /\ watching' = [w \in Watchers |->
                    IF watching[w] = "registered" THEN "gone" ELSE watching[w]]
  /\ hears' = [w \in Watchers |-> {}] /\ known' = hears' /\ due' = hears'
  /\ UNCHANGED <<usage, next_handle>>

(* gatt_db_unref by the user.  A notification to someone has a reference   *)
(* of its own.                                                             *)
Unref ==
  /\ held /\ (Idle \/ (InWatcher /\ "unrefInside" \in usage))
  /\ held' = FALSE
  /\ IF frames = <<>> THEN FreeDb
     ELSE UNCHANGED <<usage, content, watch, alive>>
  /\ UNCHANGED <<frames, fault>>

(* The watchers have been told.  Without the user's reference that of the  *)
(* outermost notification was the last one, and gatt_db_clear and          *)
(* gatt_db_clear_range use the database that went with it.                 *)
Told ==
  LET s == Top.service
      below == Front(frames)
      rest == CASE Top.then = "clear" -> Top.todo
                [] Top.then = "range" -> InRange(Top.range)
                [] OTHER -> <<>>
  IN
  /\ fault = "none" /\ frames # <<>>
  /\ NextWatcher = None
  /\ IF ~ held /\ below = <<>>
     THEN /\ FreeDb
          /\ frames' = <<>>
          /\ fault' = IF Top.then \in {"clear", "range"} THEN "db" ELSE fault
     ELSE /\ DestroyUpTo(rest, IF Top.then = "keep" THEN {} ELSE {s}, below,
                         Top.then, Top.range)
          /\ UNCHANGED <<usage, list, known, alive>>
  /\ UNCHANGED held

-----------------------------------------------------------------------------
Layout ==
  \/ \E s \in Services, place \in Places(usage) :
       \/ InsertService(s, place.key, place.start, place.num)
       \/ AddService(s, place.key, place.num)
  \/ \E s \in Listed, h \in Handles :
       InsertCharacteristic(s, h) \/ InsertDescriptor(s, h)
  \/ \E s \in Listed :
       AddCharacteristic(s) \/ AddDescriptor(s)
  \/ \E s, other \in Listed : AddIncluded(s, other)

Removals ==
  \/ \E s \in Services : RemoveService(s)
  \/ Clear
  \/ \E start, end \in Handles : ClearRange(start, end)
  \/ Unref

Watch ==
  \/ \E w \in Watchers, functions \in SUBSET Functions : Register(w, functions)
  \/ \E w \in Watchers : Unregister(w)
  \/ \E s \in Services, active \in BOOLEAN : SetActive(s, active)
  \/ CallWatcher \/ Told

DbNext == Layout \/ Removals \/ Watch

-----------------------------------------------------------------------------
(* Queries.                                                                *)

Active == SelectSeq(services, LAMBDA s : service[s].active)

(* Mutant of UpTo: the end of the range is left out.                        *)
UpTo_Before(attrs, start, end) ==
  SelectSeq(attrs, LAMBDA a : a.handle >= start /\ a.handle < end)

(* Up to the first attribute behind the range, of those in the range.      *)
UpTo(attrs, start, end) ==
  LET k == SelectInSeq(attrs, LAMBDA a : a.handle > end)
      seen == IF k = 0 THEN attrs ELSE SubSeq(attrs, 1, k - 1)
  IN SelectSeq(seen, LAMBDA a : a.handle >= start)

FindInformation(start, end) ==
  FlattenSeq([k \in DOMAIN Active |->
    IF End(Active[k]) < start THEN <<>>
    ELSE UpTo(service[Active[k]].attributes, start, end)])

ReadByType(start, end, type) ==
  FlattenSeq([k \in DOMAIN Active |->
    SelectSeq(UpTo(service[Active[k]].attributes, start, end),
              LAMBDA a : a.type = type)])

FindByType(start, end, type) ==
  FlattenSeq([k \in DOMAIN Active |->
    SelectSeq(service[Active[k]].attributes,
              LAMBDA a : a.handle \in start .. end /\ a.type = type)])

(* The value of the declaration of a service.                              *)
Declared(s) == UuidToLe(service[s].key.uuid)

(* gatt_db_read_by_group_type: up to a UUID of another length.             *)
ReadByGroupType(start, end, type) ==
  LET of == SelectSeq(Active, LAMBDA s : service[s].key.type = type
                                  /\ service[s].start \in start .. end)
      k == SelectInSeq(of, LAMBDA s :
             Len(Declared(s)) # Len(Declared(of[1])))
  IN IF k = 0 THEN of ELSE SubSeq(of, 1, k - 1)

(* find_service_for_handle *)
FindService(h) ==
  LET k == SelectInSeq(services, LAMBDA s : Holds(s, h))
  IN IF k = 0 THEN None ELSE services[k]

(* gatt_db_get_attribute *)
GetAttribute(h) ==
  LET attrs == service[FindService(h)].attributes
      j == SelectInSeq(attrs, LAMBDA a : a.handle = h)
  IN IF FindService(h) = None THEN None ELSE IF j = 0 THEN None ELSE attrs[j]

(* gatt_db_attribute_get_service_uuid                                      *)
ServiceUuid(s) == LeToUuid(Declared(s))

(* gatt_db_service_foreach_desc for the characteristic declared at c.      *)
DescriptorsOf(s, c) ==
  LET attrs == service[s].attributes
      rest == SubSeq(attrs, c + 2, Len(attrs))
      k == SelectInSeq(rest, LAMBDA a : a.type \in {"chrc", "incl"})
  IN IF k = 0 THEN rest ELSE SubSeq(rest, 1, k - 1)

-----------------------------------------------------------------------------
(* Properties.                                                             *)

Tame == usage \intersect {"around", "wild", "mixed"} = {}

(* Services are in the order of their handles and disjoint, and their      *)
(* attributes lie in them and ascend, for callers that put no service      *)
(* around others, insert attributes at ascending handles of the service,   *)
(* and do not add any behind a gap.                                        *)
InOrder ==
  Tame =>
    /\ \A j, k \in DOMAIN services :
         j < k => End(services[j]) < service[services[k]].start
    /\ \A s \in Listed :
         LET attrs == service[s].attributes IN
         /\ Len(attrs) <= service[s].num
         /\ LastAttribute(s).handle <= End(s)
         /\ \A j \in 1 .. Len(attrs) - 1 : attrs[j].handle < attrs[j + 1].handle

(* A service that is added does not meet another: next_handle lies behind  *)
(* them all, as long as none takes the last handle (next_handle wraps) and *)
(* none comes after a clear (which sets it to 0).                          *)
NextIsFree ==
  "ends" \notin usage /\ next_handle # 0 => \A s \in Listed : End(s) < next_handle

(* All the services of a type, asked for from the end of the last answer.  *)
Pages(type) ==
  LET pages[start \in 1 .. MaxHandle + 1] ==
        LET found == IF start > MaxHandle THEN <<>>
                     ELSE ReadByGroupType(start, MaxHandle, type)
        IN IF found = <<>> THEN <<>> ELSE found \o pages[End(Last(found)) + 1]
  IN pages

(* The queries stop early, skip services and take the first match, and     *)
(* find what a look at each attribute finds, in the order of handles; the  *)
(* answers that stop at another length of UUID follow on to one another.   *)
QueriesExact ==
  Tame /\ Idle =>
    LET all == UNION {ToSet(service[s].attributes) : s \in Listed}
        visible == UNION {ToSet(service[s].attributes) : s \in ToSet(Active)}
        Ascends(sq) == \A k \in 1 .. Len(sq) - 1 : sq[k].handle < sq[k + 1].handle
    IN
    /\ \A h \in Handles :
         GetAttribute(h) = IF \E a \in all : a.handle = h
                           THEN CHOOSE a \in all : a.handle = h ELSE None
    /\ \A start \in Handles : \A end \in start .. MaxHandle :
         LET found == FindInformation(start, end) IN
         /\ ToSet(found) = {a \in visible : a.handle \in start .. end}
         /\ Ascends(found)
         /\ \A type \in {a.type : a \in visible} :
              /\ ReadByType(start, end, type)
                   = SelectSeq(found, LAMBDA a : a.type = type)
              /\ FindByType(start, end, type) = ReadByType(start, end, type)
    /\ \A type \in {"primary", "secondary"} :
         Pages(type)[1] = SelectSeq(Active, LAMBDA s : service[s].key.type = type)
    /\ \A s \in Listed :
         LET attrs == service[s].attributes
             Owner(k) == Max({j \in 1 .. k : attrs[j].type # "desc"})
         IN \A c \in {j \in DOMAIN attrs : attrs[j].type = "chrc"} :
              DescriptorsOf(s, c) =
                [k \in 1 .. Cardinality({j \in DOMAIN attrs :
                               attrs[j].type = "desc" /\ Owner(j) = c + 1})
                   |-> attrs[c + 1 + k]]

(* Between notifications a watcher knows of the services that were         *)
(* activated while it was registered, and of none that is gone, however    *)
(* they went: removed, cleared in a range or all at once, deactivated, by  *)
(* the user or by a watcher in the middle of another notification.  Those  *)
(* that (de)activate a service while watchers are being told of it are     *)
(* left out: the watchers behind hear of the two changes in the wrong      *)
(* order, and may believe in an inactive service for good.                 *)
WatchersKnow ==
  frames = <<>> /\ fault = "none" /\ "activeInside" \notin usage =>
    \A w \in ToSet(notify_list) :
      /\ due[w] \subseteq known[w]
      /\ known[w] \subseteq {s \in Listed : service[s].active}

DbInv == TypeOK /\ InOrder /\ NextIsFree

(* Nothing is used after it was freed, for watchers that have both         *)
(* functions and that, before they return, neither remove a service that   *)
(* watchers are being told of or that is on its way out, nor unregister    *)
(* another watcher (or themselves, within two notifications), nor give up  *)
(* the database.                                                           *)
DbSafe ==
  usage \intersect {"half", "removeInside", "leaveInside", "unrefInside"} = {} =>
    fault = "none"

=============================================================================
