------------------------ MODULE AvailabilityRoutines ------------------------
(***************************************************************************)
(* The service routines of NGSI9 that write: what each of them makes of    *)
(* the URL, the headers and the payload before the operations of           *)
(* Availability begin.  A routine is a set: it has the request that is     *)
(* handed to the database layer, or nothing when the routine answers that  *)
(* the request is bad.                                                     *)
(*                                                                         *)
(* A REST request has the fields of its route among: url, the record of    *)
(* what the URL names; paths, the vector of service paths of the header;   *)
(* type and notExist, the URI parameters entity::type and                  *)
(* !exist=entity::type; payload.                                           *)
(***************************************************************************)
EXTENDS Naturals, Sequences

CONSTANT BadPaths   \* the service paths with a character that is not accepted, such as '#'

Refused == {}

DEFAULT_SERVICE_PATH_UPDATES == "/"

servicePathCheck(path) == path \notin BadPaths

\* The only path of a registration
ServicePath(r) ==
  {path \in IF r.paths = <<>> THEN {DEFAULT_SERVICE_PATH_UPDATES} ELSE {r.paths[1]} : Len(r.paths) <= 1 /\ servicePathCheck(path)}

postRegisterContext(r, rcr) ==
  {[kind |-> "register", id |-> rcr.id, parts |-> rcr.parts, duration |-> rcr.duration, path |-> path] : path \in ServicePath(r)}

\* A notification has no duration: that of a registration without one is used.
postNotifyContextAvailability(r) ==
  {[kind |-> "notify", id |-> 0, parts |-> r.payload.parts, duration |-> 0, path |-> path] : path \in ServicePath(r)}

\* A registration of one part, with one entity and at most one attribute
RegisterContextRequestFill(rpr, entityId, entityType, attributeName) ==
  [id |-> rpr.id, duration |-> rpr.duration,
   parts |-> <<[entities |-> {[id |-> entityId, type |-> entityType]},
                attrs |-> IF attributeName = "" THEN {} ELSE {attributeName}, app |-> rpr.app]>>]

postContextEntitiesByEntityId(r) == postRegisterContext(r, RegisterContextRequestFill(r.payload, r.url.id, "", ""))
postContextEntityAttributes(r) == postRegisterContext(r, RegisterContextRequestFill(r.payload, r.url.id, "", ""))
postEntityByIdAttributeByName(r) == postRegisterContext(r, RegisterContextRequestFill(r.payload, r.url.id, "", r.url.attr))

\* The id of the entity is empty, and it is no pattern.
postContextEntityTypes(r) == postRegisterContext(r, RegisterContextRequestFill(r.payload, "", r.url.type, ""))
postContextEntityTypeAttribute(r) == postRegisterContext(r, RegisterContextRequestFill(r.payload, "", r.url.type, r.url.attr))

\* The URI parameters and the type of the URL; exist=entity::type does nothing.
Contradicted(r) == r.notExist \/ r.type \notin {"", r.url.type}

postContextEntitiesByEntityIdAndType(r) ==
  IF Contradicted(r) THEN Refused
  ELSE postRegisterContext(r, RegisterContextRequestFill(r.payload, r.url.id, r.url.type, ""))

postEntityByIdAttributeByNameWithTypeAndId(r) ==
  IF Contradicted(r) THEN Refused
  ELSE postRegisterContext(r, RegisterContextRequestFill(r.payload, r.url.id, r.url.type, r.url.attr))

postSubscribeContextAvailability(scar) ==
  {[kind |-> "subscribe", id |-> 0, entities |-> scar.entities, attrs |-> scar.attrs, duration |-> scar.duration]}

\* The scope that fill() adds for exist and !exist is never read.
postSubscribeContextAvailabilityConvOp(r) == postSubscribeContextAvailability(r.payload)

postUpdateContextAvailabilitySubscription(ucas) ==
  {[kind |-> "updateSubscription", id |-> ucas.id, entities |-> ucas.entities, attrs |-> ucas.attrs, duration |-> ucas.duration]}

putAvailabilitySubscriptionConvOp(r) ==
  IF r.url.id # r.payload.id THEN Refused ELSE postUpdateContextAvailabilitySubscription(r.payload)

postUnsubscribeContextAvailability(id) == {[kind |-> "unsubscribe", id |-> id]}
deleteAvailabilitySubscriptionConvOp(r) == postUnsubscribeContextAvailability(r.url.id)

-----------------------------------------------------------------------------
\* The routine of the route.  The standard operations have the whole request in their payload.
serviceRoutine(r) ==
  CASE r.route = "registerContext" -> postRegisterContext(r, r.payload)
    [] r.route = "notifyContextAvailability" -> postNotifyContextAvailability(r)
    [] r.route = "contextEntities/{id}" -> postContextEntitiesByEntityId(r)
    [] r.route = "contextEntities/{id}/attributes" -> postContextEntityAttributes(r)
    [] r.route = "contextEntities/{id}/attributes/{name}" -> postEntityByIdAttributeByName(r)
    [] r.route = "contextEntityTypes/{type}" -> postContextEntityTypes(r)
    [] r.route = "contextEntityTypes/{type}/attributes/{name}" -> postContextEntityTypeAttribute(r)
    [] r.route = "contextEntities/type/{type}/id/{id}" -> postContextEntitiesByEntityIdAndType(r)
    [] r.route = "contextEntities/type/{type}/id/{id}/attributes/{name}" -> postEntityByIdAttributeByNameWithTypeAndId(r)
    [] r.route = "subscribeContextAvailability" -> postSubscribeContextAvailability(r.payload)
    [] r.route = "contextAvailabilitySubscriptions" -> postSubscribeContextAvailabilityConvOp(r)
    [] r.route = "updateContextAvailabilitySubscription" -> postUpdateContextAvailabilitySubscription(r.payload)
    [] r.route = "PUT contextAvailabilitySubscriptions/{id}" -> putAvailabilitySubscriptionConvOp(r)
    [] r.route = "unsubscribeContextAvailability" -> postUnsubscribeContextAvailability(r.payload.id)
    [] r.route = "DELETE contextAvailabilitySubscriptions/{id}" -> deleteAvailabilitySubscriptionConvOp(r)
=============================================================================
