----------------------------- MODULE GattDbView -----------------------------
(***************************************************************************)
(* How the GATT client and LEClient look at the database: the iterators    *)
(* and lookups of lib/bluez/gatt-db.c, and what LEClient (le_client.cpp)   *)
(* prints with them when services are found or have changed.               *)
(***************************************************************************)
EXTENDS GattDbAccess

(* gatt_db_foreach_service_in_range: the services that start in the range, *)
(* active or not, of one UUID or (None) of any.                            *)
ForeachServiceInRange(uuid, start, end) ==
  SelectSeq(services, LAMBDA s :
    /\ service[s].start \in start .. end
    /\ uuid = None \/ Cmp(ServiceUuid(s), uuid))

ForeachService(uuid) == ForeachServiceInRange(uuid, 1, MaxHandle)

(* gatt_db_get_service_with_uuid *)
ServiceWithUuid(uuid) ==
  LET k == SelectInSeq(services, LAMBDA s : Cmp(ServiceUuid(s), uuid))
  IN IF k = 0 THEN None ELSE services[k]

(* gatt_db_attribute_get_service_data *)
ServiceData(s) ==
  [start |-> service[s].start, end |-> End(s),
   primary |-> service[s].attributes[1].type # "secondary",
   uuid |-> ServiceUuid(s)]

(* gatt_db_service_foreach and its callers for includes, characteristics.  *)
ServiceForeach(s, type) ==
  SelectSeq(service[s].attributes, LAMBDA a : a.type = type)

(* gatt_db_attribute_get_char_data, gatt_db_attribute_get_incl_data: None  *)
(* for any other attribute.                                                *)
CharData(a) == IF a.type = "chrc" THEN a.refers[1] ELSE None
InclData(a) ==
  IF a.type = "incl" THEN [start |-> a.refers[1], end |-> a.refers[2]] ELSE None

-----------------------------------------------------------------------------
(* LEClient.  A print is the sequence of what its lines are about.         *)

(* print_uuid *)
PrintUuid(u) == UuidToString(ToUuid128(u))

(* print_included_data: nothing, when no attribute lies where the included *)
(* service began; else the UUID of the service that lies there now.        *)
PrintIncluded(a) ==
  IF GetAttribute(InclData(a).start) = None THEN <<>>
  ELSE <<[handle |-> a.handle, value |-> InclData(a).start,
          uuid |-> PrintUuid(ServiceUuid(FindService(InclData(a).start)))]>>

(* print_descriptor *)
PrintDescriptor(a) == [handle |-> a.handle, value |-> 0, uuid |-> None]

(* print_characteristic *)
PrintCharacteristic(s, a) ==
  LET c == SelectInSeq(service[s].attributes, LAMBDA x : x = a)
      descs == DescriptorsOf(s, c)
  IN <<[handle |-> a.handle, value |-> CharData(a), uuid |-> None]>>
       \o [k \in DOMAIN descs |-> PrintDescriptor(descs[k])]

(* print_service *)
PrintService(s) ==
  LET incls == ServiceForeach(s, "incl")
      chrcs == ServiceForeach(s, "chrc")
  IN <<[handle |-> ServiceData(s).start, value |-> ServiceData(s).end,
        uuid |-> PrintUuid(ServiceData(s).uuid)]>>
       \o FlattenSeq([k \in DOMAIN incls |-> PrintIncluded(incls[k])])
       \o FlattenSeq([k \in DOMAIN chrcs |-> PrintCharacteristic(s, chrcs[k])])

(* service_changed_cb *)
PrintRange(start, end) ==
  LET found == ForeachServiceInRange(None, start, end)
  IN FlattenSeq([k \in DOMAIN found |-> PrintService(found[k])])

-----------------------------------------------------------------------------
(* The shell of btgattclient.c prints services as LEClient does.           *)

PrintServices(uuid) ==
  LET found == ForeachService(uuid)
  IN FlattenSeq([k \in DOMAIN found |-> PrintService(found[k])])

(* cmd_services: all of them, those of the UUID that was typed, or those   *)
(* of a handle, which print_services_by_handle does not look at yet.       *)
CmdServices(option, argument) ==
  IF option \in {"-u", "--uuid"}
  THEN PrintServices(ToUuid128(StringToUuid(argument)))
  ELSE PrintServices(None)

(* log_service_event, for a service that comes or goes.                    *)
LogServiceEvent(s) ==
  [uuid |-> UuidToString(ServiceUuid(s)), start |-> service[s].start,
   end |-> End(s)]

-----------------------------------------------------------------------------
(* Properties.                                                             *)

(* A characteristic's declaration leads to its value, and, as long as no   *)
(* service has gone, the declaration of an included service to that        *)
(* service.  Of the services of a UUID, in whatever length it was declared  *)
(* and is asked for, the first in the order of handles is found.           *)
LookupsExact ==
  /\ \A s \in Listed : \A k \in DOMAIN service[s].attributes :
       LET a == service[s].attributes[k] IN
       /\ CharData(a) # None =>
            /\ GetAttribute(CharData(a)).type = "value"
            /\ service[s].attributes[k + 1] = GetAttribute(CharData(a))
       /\ InclData(a) # None /\ (\A x \in Services : status[x] \in {"new", "listed"}) =>
            LET included == FindService(InclData(a).start) IN
            /\ included # None
            /\ ServiceData(included).start = InclData(a).start
            /\ ServiceData(included).end = InclData(a).end
  /\ \A uuid \in Uuid :
       LET same == {s \in Listed : Cmp(service[s].key.uuid, uuid)} IN
       /\ ToSet(ForeachService(uuid)) = same
       /\ IF same = {} THEN ServiceWithUuid(uuid) = None
          ELSE /\ ServiceWithUuid(uuid) \in same
               /\ \A s \in same :
                    service[ServiceWithUuid(uuid)].start <= service[s].start

(* LEClient prints each attribute of the services that begin in the range  *)
(* once, other than values and descriptors of nothing, and the services    *)
(* with their UUIDs; an include whose service has gone is left out.        *)
PrintExact ==
  \A start \in Handles : \A end \in start .. MaxHandle :
    LET printed == PrintRange(start, end)
        found == {s \in Listed : service[s].start \in start .. end}
        Owner(s, k) == Max({j \in 1 .. k : service[s].attributes[j].type # "desc"})
        Shown(s, k) ==
          LET a == service[s].attributes[k] IN
          CASE a.type = "value" -> FALSE
            [] a.type = "desc" -> service[s].attributes[Owner(s, k)].type = "value"
            [] a.type = "incl" -> GetAttribute(a.refers[1]) # None
            [] OTHER -> TRUE
    IN /\ {printed[k].handle : k \in DOMAIN printed} =
            UNION {{service[s].attributes[k].handle :
                      k \in {j \in DOMAIN service[s].attributes : Shown(s, j)}} :
                    s \in found}
       /\ Cardinality({printed[k].handle : k \in DOMAIN printed}) = Len(printed)
       /\ \A k \in DOMAIN printed, s \in found :
            printed[k].handle = service[s].start =>
              Cmp(StringToUuid(printed[k].uuid), service[s].key.uuid)

(* Either print of a service's UUID, typed at the shell, brings back the   *)
(* service, with all others of that UUID and no more; without a UUID all   *)
(* are shown.                                                              *)
CommandsExact ==
  /\ CmdServices("none", None) = PrintRange(1, MaxHandle)
  /\ \A s \in Listed :
       LET same == {x \in Listed : Cmp(service[x].key.uuid, service[s].key.uuid)}
           starts == {service[x].start : x \in same}
           typed == {LogServiceEvent(s).uuid, PrintUuid(ServiceUuid(s))}
       IN \A text \in typed :
            LET printed == CmdServices("-u", text)
                headers == SelectSeq(printed, LAMBDA line :
                             \E x \in Listed : line.handle = service[x].start)
            IN /\ ToSet(headers) = {PrintService(x)[1] : x \in same}
               /\ Len(headers) = Cardinality(starts)

(* What is asked of the database and what is shown of it is what was put   *)
(* into it, whichever way it is looked at.                                 *)
ViewsExact ==
  /\ ConversionsAgree
  /\ QueriesExact
  /\ Tame /\ Idle => LookupsExact /\ PrintExact /\ CommandsExact

=============================================================================
