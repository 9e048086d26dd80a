--------------------------- MODULE ServiceRoutines ---------------------------
(***************************************************************************)
(* The service routines of the entities: the convenience operations of     *)
(* NGSIv1 (lib/serviceRoutines) and the operations of NGSIv2               *)
(* (lib/serviceRoutinesV2).  Each of them turns a REST request into one    *)
(* update or query of the kind ContextOperations models (postUpdateContext *)
(* or postQueryContext), and the response of that operation into a status. *)
(* The routines of the entity types do the same with a query of            *)
(* EntityTypes.                                                            *)
(*                                                                         *)
(* A REST request is a record                                              *)
(*   route      the service routine; api: the version of its path,          *)
(*   id, type   the entity of the path ("" where the path has none),       *)
(*   ptype      the type given as URI parameter (entity::type or type),    *)
(*   info       "notExist" or "exist": a URI parameter about entity::type, *)
(*   attr, metaID  the attribute of the path and its ID,                   *)
(*   entity     the entity in the payload of a POST,                       *)
(*   caV        the attributes in the payload,                             *)
(*   elements, action  the entities and the action of a batch,             *)
(*   attrL      the attributes a query asks for,                           *)
(*   append     the option of that name,                                   *)
(*   ids, idPattern, types, geometry, coords, georel, q  the parameters of *)
(*              GET /v2/entities,                                          *)
(*   offset, limit, values  the parameters of the queries of types,        *)
(*   broken     whether a part of it does not pass the checks of characters *)
(*              and lengths in the routine, or cannot be parsed.           *)
(* The status of an NGSIv1 answer is that in its payload; the status of an *)
(* NGSIv2 answer is that of the HTTP response.                             *)
(***************************************************************************)
EXTENDS EntityTypes

CONSTANTS
  Rests,      \* the REST requests that may come, for each value of inst.rests
  Anchored    \* the pattern that a list of ids makes: "^id1$|^id2$" ...

VARIABLES
  rest,      \* what each thread knows of its REST request, or NoRest
  answered   \* the request answered by the last step, or NoAnswer

restVars == <<vars, rest, answered>>

NoRest == [r |-> [route |-> "none"]]
NoResult == [answer |-> <<>>, total |-> 0]
NoAnswer == [r |-> [route |-> "none"], req |-> Idle.req, status |-> "none"]

(***************************************************************************)
(* From a REST request to a standard operation.  A routine refuses the     *)
(* request, with a status, or calls a standard operation and gives the     *)
(* response to a function that extracts the status.                        *)
(***************************************************************************)
Refuse(status) == [refused |-> status]
Call(req, fill) == [refused |-> "", req |-> req, fill |-> fill]

\* ?!exist=entity::type reaches the database whatever the update.
UpdateOf(r, ver, act, flavour, elements) ==
  [kind |-> "update", api |-> ver, action |-> act, flavour |-> flavour,
   elements |-> elements, typeInfo |-> IF r.info = "notExist" THEN "empty" ELSE "any"]
OneElement(id, type, caV) ==
  <<[id |-> id, type |-> type, isPattern |-> FALSE, attrs |-> caV]>>

\* The ways UpdateContextRequest::fill() makes an update in NGSIv1 ...
fillFromUpdateElement(r, id, type) ==
  UpdateOf(r, "v1", "UPDATE", "NONE", OneElement(id, type, r.caV))
fillFromAppendElement(r, id, type) ==
  UpdateOf(r, "v1", "APPEND", "NONE", OneElement(id, type, r.caV))

NamedAttribute(name, id) ==
  [name |-> name, id |-> id, value |-> "", type |-> "", location |-> "", md |-> NoFunction]

fillByName(r, id, type, name, metaID, act) ==
  UpdateOf(r, "v1", act, "NONE",
    OneElement(id, type, IF name = "" THEN <<>> ELSE <<NamedAttribute(name, metaID)>>))

\* The payload is one attribute; it gets the ID of the path when it has none.
fillFromAttribute(r, id, type, name, metaID, act) ==
  UpdateOf(r, "v1", act, "NONE",
    OneElement(id, type, <<[r.caV[1] EXCEPT !.name = name, !.id = IF @ = "" THEN metaID ELSE @]>>))

\* ... and in NGSIv2.
fillFromEntity(r, id, type, caV, act, flavour) ==
  UpdateOf(r, "v2", act, flavour, OneElement(id, type, caV))
fillFromOneAttribute(r, act) ==
  UpdateOf(r, "v2", act, "NONE",
    OneElement(r.id, r.ptype, <<[r.caV[1] EXCEPT !.name = r.attr]>>))
fillFromEntities(r) == UpdateOf(r, "v2", r.action, "NONE", r.elements)

\* QueryContextRequest::fill(); the limit is the default one.
DEFAULT_PAGINATION_LIMIT_INT == 20
QueryOf(entities, attrL, info) ==
  [kind |-> "query", entities |-> entities, attrL |-> attrL,
   limit |-> DEFAULT_PAGINATION_LIMIT_INT, typeInfo |-> info, scopes |-> <<>>]
En1(id, type, isPattern) == <<[id |-> id, type |-> type, isPattern |-> isPattern]>>
fillQuery(id, type, isPattern, info, name) ==
  QueryOf(En1(id, type, isPattern), {name} \ {""}, info)

\* This one makes a pattern of the id.
fillQueryAttribute(id, type, name) == QueryOf(En1(id, type, TRUE), {name} \ {""}, "any")

fillFromBatchQuery(r) ==
  QueryOf(IF r.elements = <<>> THEN En1(".*", "", TRUE) ELSE r.elements, r.attrL, "any")

typeInfo(r) ==
  CASE r.info = "notExist" -> "empty"
    [] r.info = "exist" -> "notEmpty"
    [] OTHER -> "any"

(***************************************************************************)
(* NGSIv1: /v1/contextEntities, with the id, or the type and the id, in    *)
(* the path.                                                               *)
(***************************************************************************)
postIndividualContextEntity(r) ==
  LET differ(a, b) == a # "" /\ b # "" /\ a # b
      first(a, b) == IF a # "" THEN a ELSE b
  IN  IF \/ differ(r.entity.id, r.id) \/ differ(r.entity.type, r.ptype)
         \/ r.entity.isPattern \/ first(r.entity.id, r.id) = ""
      THEN Refuse("BadRequest")
      ELSE Call(fillFromAppendElement(r, first(r.entity.id, r.id), first(r.entity.type, r.ptype)),
                "AppendContextElementResponse")

putIndividualContextEntity(r) ==
  Call(fillFromUpdateElement(r, r.id, r.ptype), "UpdateContextElementResponse")
deleteIndividualContextEntity(r) == Call(fillByName(r, r.id, r.ptype, "", "", "DELETE"), "StatusCode")
getIndividualContextEntity(r) ==
  Call(fillQuery(r.id, r.ptype, FALSE, typeInfo(r), ""), "ContextElementResponse")
getAllContextEntities(r) ==
  Call(fillQuery(".*", r.ptype, TRUE, typeInfo(r), ""), "QueryContextResponse")

postIndividualContextEntityAttribute(r) ==
  Call(fillFromAttribute(r, r.id, r.ptype, r.attr, "", "APPEND"), "StatusCode")
putIndividualContextEntityAttribute(r) ==
  Call(fillFromAttribute(r, r.id, r.ptype, r.attr, "", "UPDATE"), "StatusCode")
deleteIndividualContextEntityAttribute(r) ==
  Call(fillByName(r, r.id, r.ptype, r.attr, "", "DELETE"), "StatusCode")
getIndividualContextEntityAttribute(r) ==
  Call(fillQuery(r.id, r.ptype, FALSE, typeInfo(r), r.attr), "FirstElement")

\* The ID in the payload, if there is one, is that of the path.
UnmatchingId(r) == r.caV[1].id \notin {"", r.metaID}

putAttributeValueInstance(r) ==
  IF UnmatchingId(r)
  THEN Refuse("BadRequest")
  ELSE Call(fillFromAttribute(r, r.id, r.ptype, r.attr, r.metaID, "UPDATE"), "StatusCode")
deleteAttributeValueInstance(r) ==
  Call(fillByName(r, r.id, r.ptype, r.attr, r.metaID, "DELETE"), "StatusCode")
getAttributeValueInstance(r) ==
  Call(fillQuery(r.id, r.ptype, FALSE, typeInfo(r), r.attr), "FirstElementById")

\* The type in the path: it cannot be asked to be absent, and the one among the
\* URI parameters has to be the same.
UnmatchingType(r) == r.ptype \notin {"", r.type}
BadTypeParameters(r) == typeInfo(r) = "empty" \/ UnmatchingType(r)
Checked(bad, call) == IF bad THEN Refuse("BadRequest") ELSE call

\* /v1/contextEntityTypes
getNgsi10ContextEntityTypes(r) ==
  Checked(BadTypeParameters(r), Call(fillQueryAttribute(".*", r.type, ""), "QueryContextResponse"))
getNgsi10ContextEntityTypesAttribute(r) ==
  Checked(BadTypeParameters(r), Call(fillQueryAttribute(".*", r.type, r.attr), "QueryContextResponse"))

\* /v1/contextEntities/type/{type}/id/{id}
postAllEntitiesWithTypeAndId(r) ==
  Checked(r.entity.id # "" \/ r.entity.type # "" \/ r.entity.isPattern \/ BadTypeParameters(r),
          Call(fillFromAppendElement(r, r.id, r.type), "AppendContextElementResponse"))

putAllEntitiesWithTypeAndId(r) ==
  Checked(BadTypeParameters(r),
          Call(fillFromUpdateElement(r, r.id, r.type), "UpdateContextElementResponse"))
deleteAllEntitiesWithTypeAndId(r) ==
  Checked(BadTypeParameters(r), Call(fillByName(r, r.id, r.type, "", "", "DELETE"), "StatusCode"))
getAllEntitiesWithTypeAndId(r) ==
  Checked(BadTypeParameters(r),
          Call(fillQuery(r.id, r.type, FALSE, typeInfo(r), ""), "ContextElementResponse"))

postIndividualContextEntityAttributeWithTypeAndId(r) ==
  Checked(BadTypeParameters(r),
          Call(fillFromAttribute(r, r.id, r.type, r.attr, "", "APPEND"), "StatusCode"))
putIndividualContextEntityAttributeWithTypeAndId(r) ==
  Checked(BadTypeParameters(r),
          Call(fillFromAttribute(r, r.id, r.type, r.attr, "", "UPDATE"), "StatusCode"))
deleteIndividualContextEntityAttributeWithTypeAndId(r) ==
  Checked(BadTypeParameters(r), Call(fillByName(r, r.id, r.type, r.attr, "", "DELETE"), "StatusCode"))

\* The only query whose id is a pattern.
getIndividualContextEntityAttributeWithTypeAndId(r) ==
  Checked(BadTypeParameters(r),
          Call(fillQueryAttribute(r.id, r.type, r.attr), "ContextAttributeResponse"))

postAttributeValueInstanceWithTypeAndId(r) ==
  Checked(UnmatchingType(r) \/ UnmatchingId(r),
          Call(fillFromAttribute(r, r.id, r.type, r.attr, r.metaID, "APPEND"), "StatusCode"))
putAttributeValueInstanceWithTypeAndId(r) ==
  Checked(UnmatchingType(r) \/ UnmatchingId(r),
          Call(fillFromAttribute(r, r.id, r.type, r.attr, r.metaID, "UPDATE"), "StatusCode"))
deleteAttributeValueInstanceWithTypeAndId(r) ==
  Checked(UnmatchingType(r),
          Call(fillByName(r, r.id, r.type, r.attr, r.metaID, "DELETE"), "StatusCode"))

\* The only routine that does not use the type of the path in its query.
getAttributeValueInstanceWithTypeAndId(r) ==
  Checked(BadTypeParameters(r),
          Call(fillQuery(r.id, r.ptype, FALSE, typeInfo(r), r.attr), "ContextAttributeResponse"))

(***************************************************************************)
(* NGSIv2: /v2/entities and /v2/op.                                        *)
(***************************************************************************)
\* Forbidden characters in the id or the attribute of the path, an attribute
\* value that does not pass check(), an entity too long for the database.
Unbroken(r, call) == Checked(r.broken, call)

postEntities(r) ==
  Unbroken(r, Call(fillFromEntity(r, r.entity.id, r.entity.type, r.caV, "APPEND_STRICT", "ONCREATE"),
                   "postEntities"))
postEntity(r) ==
  Unbroken(r, Call(fillFromEntity(r, r.id, r.ptype, r.caV,
                     IF r.append THEN "APPEND_STRICT" ELSE "APPEND", "ONAPPENDORUPDATE"),
                   "postEntity"))
patchEntity(r) ==
  Unbroken(r, Call(fillFromEntity(r, r.id, r.ptype, r.caV, "UPDATE", "NONE"), "patchEntity"))
putEntity(r) ==
  Unbroken(r, Call(fillFromEntity(r, r.id, r.ptype, r.caV, "REPLACE", "NONE"), "OnlyElement"))
deleteEntity(r) ==
  Unbroken(r, Call(fillFromEntity(r, r.id, r.ptype,
                     IF r.attr = "" THEN <<>> ELSE <<NamedAttribute(r.attr, "")>>,
                     "DELETE", "NONE"),
                   "deleteEntity"))
putEntityAttribute(r) == Unbroken(r, Call(fillFromOneAttribute(r, "UPDATE"), "OnlyElement"))
putEntityAttributeValue(r) == Unbroken(r, Call(fillFromOneAttribute(r, "UPDATE"), "OnlyElement"))
postBatchUpdate(r) == Call(fillFromEntities(r), "postBatchUpdate")

getEntity(r) ==
  Unbroken(r, Call(QueryOf(En1(r.id, r.ptype, FALSE), r.attrL, "any"), "getEntity"))
getEntityAttribute(r) ==
  Unbroken(r, Call(fillQuery(r.id, r.ptype, FALSE, "any", ""), "getEntityAttribute"))
getEntityAttributeValue(r) ==
  Unbroken(r, Call(fillQuery(r.id, r.ptype, FALSE, "any", ""), "getEntityAttributeValue"))
postBatchQuery(r) == Call(fillFromBatchQuery(r), "Entities")

\* Coordinates and a georel go with a geometry, and a geometry with coordinates.
Lonely(r) == (r.coords # <<>>) # (r.geometry # <<>>) \/ (r.georel # <<>> /\ r.geometry = <<>>)

\* The ids of a list make one pattern; the types, if several, one entity each.
PatternOf(r) ==
  CASE r.ids # <<>> -> Anchored[r.ids]
    [] r.ids = <<>> /\ r.idPattern # "" -> r.idPattern
    [] OTHER -> ".*"
EntitiesOf(r) ==
  IF Len(r.types) < 2
  THEN En1(PatternOf(r), IF r.types = <<>> THEN "" ELSE r.types[1], TRUE)
  ELSE [i \in DOMAIN r.types |-> En1(PatternOf(r), r.types[i], TRUE)[1]]

\* What q filters is the subject of StringFilter: here it is only refused, when it cannot be parsed.
getEntities(r) ==
  LET scope == ScopeFill(r.api, r.geometry, r.coords, r.georel)
  IN  CASE r.ids # <<>> /\ r.idPattern # "" -> Refuse("BadRequest")
        [] ~(r.ids # <<>> /\ r.idPattern # "") /\ (Lonely(r) \/ (r.geometry # <<>> /\ ~scope.ok)) -> Refuse("InvalidModification")
        [] OTHER ->
             IF r.q /\ r.broken
             THEN Refuse("BadRequest")
             ELSE Call([QueryOf(EntitiesOf(r), {}, IF Len(r.types) = 1 THEN "notEmpty" ELSE "any")
                          EXCEPT !.scopes = IF r.geometry = <<>> THEN <<>> ELSE <<scope>>],
                       "Entities")

(***************************************************************************)
(* The entity types: /v1/contextTypes and /v2/types.                       *)
(***************************************************************************)
getEntityTypes(r) == Call(TypesQuery("v1", "all", "", r.offset, r.limit), "EntityTypes")
getAttributesForEntityType(r) == Call(TypesQuery("v1", "one", r.type, r.offset, r.limit), "EntityTypes")
getEntityAllTypes(r) ==
  Call(TypesQuery("v2", IF r.values THEN "values" ELSE "all", "", r.offset, r.limit), "getEntityAllTypes")
getEntityType(r) == Call(TypesQuery("v2", "one", r.type, r.offset, r.limit), "getEntityType")

(***************************************************************************)
(* The table of the routines (restServiceV).                               *)
(***************************************************************************)
Routine(r) ==
  CASE r.route = "postIndividualContextEntity" -> postIndividualContextEntity(r)
    [] r.route = "putIndividualContextEntity" -> putIndividualContextEntity(r)
    [] r.route = "deleteIndividualContextEntity" -> deleteIndividualContextEntity(r)
    [] r.route = "getIndividualContextEntity" -> getIndividualContextEntity(r)
    [] r.route = "getAllContextEntities" -> getAllContextEntities(r)
    [] r.route = "getNgsi10ContextEntityTypes" -> getNgsi10ContextEntityTypes(r)
    [] r.route = "getNgsi10ContextEntityTypesAttribute" -> getNgsi10ContextEntityTypesAttribute(r)
    [] r.route = "postIndividualContextEntityAttribute" -> postIndividualContextEntityAttribute(r)
    [] r.route = "putIndividualContextEntityAttribute" -> putIndividualContextEntityAttribute(r)
    [] r.route = "deleteIndividualContextEntityAttribute" ->
         deleteIndividualContextEntityAttribute(r)
    [] r.route = "getIndividualContextEntityAttribute" -> getIndividualContextEntityAttribute(r)
    [] r.route = "putAttributeValueInstance" -> putAttributeValueInstance(r)
    [] r.route = "deleteAttributeValueInstance" -> deleteAttributeValueInstance(r)
    [] r.route = "getAttributeValueInstance" -> getAttributeValueInstance(r)
    [] r.route = "postAllEntitiesWithTypeAndId" -> postAllEntitiesWithTypeAndId(r)
    [] r.route = "putAllEntitiesWithTypeAndId" -> putAllEntitiesWithTypeAndId(r)
    [] r.route = "deleteAllEntitiesWithTypeAndId" -> deleteAllEntitiesWithTypeAndId(r)
    [] r.route = "getAllEntitiesWithTypeAndId" -> getAllEntitiesWithTypeAndId(r)
    [] r.route = "postIndividualContextEntityAttributeWithTypeAndId" ->
         postIndividualContextEntityAttributeWithTypeAndId(r)
    [] r.route = "putIndividualContextEntityAttributeWithTypeAndId" ->
         putIndividualContextEntityAttributeWithTypeAndId(r)
    [] r.route = "deleteIndividualContextEntityAttributeWithTypeAndId" ->
         deleteIndividualContextEntityAttributeWithTypeAndId(r)
    [] r.route = "getIndividualContextEntityAttributeWithTypeAndId" ->
         getIndividualContextEntityAttributeWithTypeAndId(r)
    [] r.route = "postAttributeValueInstanceWithTypeAndId" ->
         postAttributeValueInstanceWithTypeAndId(r)
    [] r.route = "putAttributeValueInstanceWithTypeAndId" ->
         putAttributeValueInstanceWithTypeAndId(r)
    [] r.route = "deleteAttributeValueInstanceWithTypeAndId" ->
         deleteAttributeValueInstanceWithTypeAndId(r)
    [] r.route = "getAttributeValueInstanceWithTypeAndId" ->
         getAttributeValueInstanceWithTypeAndId(r)
    [] r.route = "postEntities" -> postEntities(r)
    [] r.route = "postEntity" -> postEntity(r)
    [] r.route = "patchEntity" -> patchEntity(r)
    [] r.route = "putEntity" -> putEntity(r)
    [] r.route = "deleteEntity" -> deleteEntity(r)
    [] r.route = "putEntityAttribute" -> putEntityAttribute(r)
    [] r.route = "putEntityAttributeValue" -> putEntityAttributeValue(r)
    [] r.route = "postBatchUpdate" -> postBatchUpdate(r)
    [] r.route = "getEntity" -> getEntity(r)
    [] r.route = "getEntityAttribute" -> getEntityAttribute(r)
    [] r.route = "getEntityAttributeValue" -> getEntityAttributeValue(r)
    [] r.route = "postBatchQuery" -> postBatchQuery(r)
    [] r.route = "getEntities" -> getEntities(r)
    [] r.route = "getEntityTypes" -> getEntityTypes(r)
    [] r.route = "getAttributesForEntityType" -> getAttributesForEntityType(r)
    [] r.route = "getEntityAllTypes" -> getEntityAllTypes(r)
    [] r.route = "getEntityType" -> getEntityType(r)

(***************************************************************************)
(* From the response of the standard operation to the status.              *)
(***************************************************************************)
Bad(status) == status # "Ok"
BadOnes(cerV) == SelectSeq(cerV, LAMBDA c : Bad(c.status))

\* StatusCode::fill() of an UpdateContextResponse.
statusCodeFill(o) ==
  CASE Bad(o.errorCode) -> o.errorCode
    [] ~Bad(o.errorCode) /\ o.cerV # <<>> -> o.cerV[1].status
    [] OTHER -> "ReceiverInternalError"

\* UpdateContextElementResponse::fill() and AppendContextElementResponse::fill():
\* the vector of attribute responses has one element, if any.
updateElementFill(o) ==
  CASE o.errorCode = "ContextElementNotFound" \/ o.cerV = <<>> -> "ContextElementNotFound"
    [] o.errorCode = "Ok" /\ o.cerV # <<>> -> o.cerV[1].status
    [] OTHER -> o.errorCode
appendElementFill(o) == updateElementFill(o)

\* The responses to a query hold the first entity.
contextElementFill(o) == o.errorCode
firstElementStatus(o) == IF o.cers = <<>> THEN o.errorCode ELSE "Ok"
firstElementById(o, metaID) ==
  IF o.cers # <<>> /\ o.cers[1].keys # {} /\ ~\E k \in o.cers[1].keys : k[2] = metaID
  THEN "ContextElementNotFound"
  ELSE firstElementStatus(o)
contextAttributeFill(o, metaID) ==
  CASE o.cers = <<>> -> IF Bad(o.errorCode) THEN o.errorCode ELSE "ContextElementNotFound"
    [] o.cers # <<>> /\ metaID # "" /\ ~\E k \in o.cers[1].keys : k[2] = metaID ->
         "ContextElementNotFound"
    [] OTHER -> o.errorCode

\* Mutant: several entities are not a conflict, the first is taken.
FirstOfSeveral(o) == o.errorCode

\* NGSIv2.  Entity::fill(), Attribute::fill() and Entities::fill().
entityFill(o) ==
  IF o.errorCode = "Ok" /\ Len(o.cers) > 1 THEN "Conflict" ELSE o.errorCode
attributeFill(o, name) ==
  IF entityFill(o) = "Ok" /\ ~\E k \in o.cers[1].keys : k[1] = name
  THEN "ContextElementNotFound"
  ELSE entityFill(o)
entitiesFill(o) == "Ok"

\* Without an attribute to render, there is nothing to point to.
attributeValueStatus(o, name) ==
  IF attributeFill(o, name) \in {"Ok", "Conflict", "ContextElementNotFound"}
  THEN attributeFill(o, name)
  ELSE "undefined"

Done(status) == IF Bad(status) THEN status ELSE "NoContent"

\* The responses of an update are looked at if there is just one.
onlyElementStatus(o) == IF Len(o.cerV) = 1 THEN Done(o.cerV[1].status) ELSE "NoContent"

\* Mutant: the status of the element is not looked at.
PatchAlwaysDone(o) == "NoContent"

patchEntityStatus(o) ==
  IF onlyElementStatus(o) = "InvalidParameter"
  THEN "ContextElementNotFound"
  ELSE onlyElementStatus(o)

\* invalidParameterForNgsiv2(): the errors about a location, by their wording.
GeoErrors == {"RequestEntityTooLarge", "BadRequest"}

postEntitiesStatuses(o) ==
  LET status == o.cerV[1].status
      caV == o.req.elements[1].attrs
  IN  CASE o.cerV = <<>> -> {"undefined"}
        [] o.cerV # <<>> /\ ~Bad(status) -> {"Created"}
        [] o.cerV # <<>> /\ status = "InvalidModification" -> {status}
        [] /\ o.cerV # <<>> /\ status = "InvalidParameter"
           /\ legalIdUsageInRequest(caV) /\ CreationRefused(caV, "v2") -> GeoErrors
        [] OTHER -> {"Ok"}

postEntityStatuses(o) ==
  LET failed == BadOnes(o.cerV)
  IN  CASE failed = <<>> -> {"NoContent"}
        [] failed # <<>> /\ failed[1].status = "InvalidParameter" ->
             GeoErrors \cup {"InvalidParameter"}
        [] OTHER -> {failed[1].status}

deleteEntityStatus(o) ==
  LET failed == BadOnes(o.cerV)
  IN  CASE failed = <<>> -> "NoContent"
        [] failed # <<>> /\ failed[1].status = "InvalidParameter" -> "ContextElementNotFound"
        [] OTHER -> failed[1].status

\* The last error is the one that counts.
postBatchUpdateStatus(o) ==
  LET failed == BadOnes(o.cerV)
  IN  IF failed = <<>> THEN Done(o.errorCode) ELSE failed[Len(failed)].status

\* The status of a query of types is part of the answer in NGSIv1 only; in NGSIv2 a type
\* is not there if it has been counted zero times, or not at all.
entityTypeStatus(o) == IF o.answer = <<>> \/ o.answer[1].count = 0 THEN "ContextElementNotFound" ELSE "Ok"

Statuses(fill, r, o) ==
  CASE fill = "StatusCode" -> {statusCodeFill(o)}
    [] fill = "UpdateContextElementResponse" -> {updateElementFill(o)}
    [] fill = "AppendContextElementResponse" -> {appendElementFill(o)}
    [] fill \in {"ContextElementResponse", "QueryContextResponse"} -> {contextElementFill(o)}
    [] fill = "FirstElement" -> {firstElementStatus(o)}
    [] fill = "FirstElementById" -> {firstElementById(o, r.metaID)}
    [] fill = "ContextAttributeResponse" -> {contextAttributeFill(o, r.metaID)}
    [] fill = "getEntity" -> {entityFill(o)}
    [] fill = "getEntityAttribute" -> {attributeFill(o, r.attr)}
    [] fill = "getEntityAttributeValue" -> {attributeValueStatus(o, r.attr)}
    [] fill = "Entities" -> {entitiesFill(o)}
    [] fill = "OnlyElement" -> {onlyElementStatus(o)}
    [] fill = "patchEntity" -> {patchEntityStatus(o)}
    [] fill = "postEntities" -> postEntitiesStatuses(o)
    [] fill = "postEntity" -> postEntityStatuses(o)
    [] fill = "deleteEntity" -> {deleteEntityStatus(o)}
    [] fill = "postBatchUpdate" -> {postBatchUpdateStatus(o)}
    [] fill = "EntityTypes" -> {o.errorCode}
    [] fill = "getEntityAllTypes" -> {"Ok"}
    [] fill = "getEntityType" -> {entityTypeStatus(o)}

(***************************************************************************)
(* The steps.  rest[t] remembers the documents when the request arrived    *)
(* (before) and when the standard operation was over (after).              *)
(***************************************************************************)
refuse(r, status) ==
  /\ requests' = requests + 1
  /\ answered' = [r |-> r, req |-> Idle.req, status |-> status, result |-> NoResult, before |-> db, after |-> db]
  /\ sent' = NoNotification
  /\ UNCHANGED <<inst, db, semaphore, pc, op, rest>>

restService(t) ==
  /\ pc[t] = "idle" /\ requests < inst.maxRequests
  /\ \E r \in Rests[inst.rests] :
       LET routine == Routine(r)
       IN  \/ routine.refused # "" /\ refuse(r, routine.refused)
           \/ /\ routine.refused = ""
              /\ CASE routine.req.kind = "update" -> startUpdate(t, routine.req)
                   [] routine.req.kind = "query" -> startQuery(t, routine.req)
                   [] routine.req.kind = "types" -> startTypes(t, routine.req)
              /\ rest' = [rest EXCEPT ![t] =
                            [r |-> r, fill |-> routine.fill, before |-> db, after |-> db]]
              /\ answered' = NoAnswer

standardStep(t) ==
  /\ rest[t] # NoRest
  /\ StandardSteps(t) \/ TypesSteps(t)
  /\ rest' = [rest EXCEPT ![t].after = IF pc[t] \in {"updateForward", "queryForward"} THEN @ ELSE db']
  /\ answered' = NoAnswer

restReply(t) ==
  /\ rest[t] # NoRest /\ pc[t] = "reply"
  /\ \E status \in Statuses(rest[t].fill, rest[t].r, op[t]) :
       answered' = [r |-> rest[t].r, req |-> op[t].req, status |-> status,
                    result |-> IF op[t].req.kind = "types"
                               THEN [answer |-> op[t].answer, total |-> op[t].total]
                               ELSE NoResult,
                    before |-> rest[t].before, after |-> rest[t].after]
  /\ reply(t)
  /\ rest' = [rest EXCEPT ![t] = NoRest]

RestInit == Init /\ rest = [t \in Threads |-> NoRest] /\ answered = NoAnswer

\* The requests for the standard operations themselves.
standardOperation(t) ==
  /\ rest[t] = NoRest
  /\ ThreadNext(t)
  /\ answered' = NoAnswer
  /\ UNCHANGED rest

RestNext ==
  \E t \in Threads :
    \/ standardOperation(t)
    \/ restService(t)
    \/ standardStep(t)
    \/ restReply(t)

RestSpec == RestInit /\ [][RestNext]_restVars

(***************************************************************************)
(* Properties.                                                             *)
(***************************************************************************)
Standard == answered.req
Answered(kind) == Standard.kind = kind

\* The documents an element names, and those of them that have changed.
Named(docs, e) ==
  {key \in DOMAIN docs : /\ key.id = e.id /\ e.type \in {"", key.type}
                         /\ Standard.typeInfo = "empty" => key.type = ""}
Changed(before, after) ==
  {key \in DOMAIN before \cup DOMAIN after :
     ~(key \in DOMAIN before /\ key \in DOMAIN after /\ before[key] = after[key])}

Succeeds ==
  IF answered.r.route = "postEntities"
  THEN answered.status = "Created"
  ELSE answered.status \in {"Ok", "NoContent"}

StoredBefore(e, before, ca) == \E key \in Named(before, e) : effectiveName(ca) \in DOMAIN before[key].attrs

\* The element is in force: its attributes are stored, or gone.  An UPDATE is
\* about the attributes that the entity has.
InForce(e, before, after) ==
  LET keys == {key \in DOMAIN after : key.id = e.id /\ key.type = NewEntityType(e.type, Standard.api)}
      there == IF keys # {} THEN keys ELSE Named(after, e)
  IN  CASE Standard.action = "DELETE" /\ e.attrs = <<>> -> Named(after, e) = {}
        [] Standard.action = "DELETE" /\ e.attrs # <<>> ->
             \A ca \in Elements(e.attrs), key \in there : effectiveName(ca) \notin DOMAIN after[key].attrs
        [] OTHER ->
             /\ there # {}
             /\ \A ca \in Elements(e.attrs) :
                  \/ Standard.action = "UPDATE" /\ ~StoredBefore(e, before, ca)
                  \/ \E key \in there : Holds(after[key], ca)

\* An UPDATE of attributes that are stored and of others that are not, one of
\* them about the location of the entity: when that is refused, the response has
\* an Ok for the stored ones (foundAndNotFoundAttributeSeparation()).
RefusalLost(e, before) ==
  /\ Standard.action = "UPDATE"
  /\ \E ca \in Elements(e.attrs) : StoredBefore(e, before, ca)
  /\ \E ca \in Elements(e.attrs) : ~StoredBefore(e, before, ca)
  /\ \E ca \in Elements(e.attrs) :
       getLocation(ca, Standard.api) # "" \/ \E key \in Named(before, e) : before[key].loc.name = ca.name

\* The entities that an operation may change: the one its URL, or the payload of
\* a POST, names, with the type of the path in the operations that have one,
\* whatever the URI parameters say; with the type among the URI parameters in
\* the others; without type if that is asked for.
MayChange(r, key) ==
  LET type == CASE r.type # "" -> r.type
                [] r.type = "" /\ r.ptype # "" -> r.ptype
                [] OTHER -> r.entity.type
  IN  /\ key.id = IF r.id # "" THEN r.id ELSE r.entity.id
      /\ type # "" => key.type = type
      /\ type = "" /\ r.info = "notExist" => key.type = NewEntityType("", Standard.api)

\* When writers are serialised, an operation changes no entity but the one that
\* it names, and in NGSIv2 never two.  If the database does not fail, the status
\* that an operation on one entity ends with tells what it did, after all the
\* conversions of the response (StatusCode::fill(), the fill() of the
\* convenience responses, the ends of the NGSIv2 routines): success means that
\* what was asked for is in the database, and anything else that the database
\* is as it was.  There is one exception: an UPDATE that is refused for its
\* location, of attributes of which some are not stored, is answered as a
\* success by PUT in NGSIv1 and PATCH in NGSIv2, and nothing is written.  POST
\* /v2/entities/<id> with the option append, which does a part and may answer 204
\* to what it refuses, is left out there, and so is what happens to several
\* entities of one id in NGSIv1.
AnswersTellTheEffect ==
  Serial /\ Answered("update") =>
    /\ answered.r.elements = <<>> =>
         /\ Standard.api = "v2" => Cardinality(Changed(answered.before, answered.after)) <= 1
         /\ \A key \in Changed(answered.before, answered.after) : MayChange(answered.r, key)
    /\ ~inst.dbFails /\ inst.regs = <<>> =>
         \/ answered.r.append
         \/ Len(Standard.elements) # 1
         \/ Cardinality(Named(answered.before, Standard.elements[1])) > 1 /\ Standard.api = "v1"
         \/ Succeeds /\ InForce(Standard.elements[1], answered.before, answered.after)
         \/ ~Succeeds /\ answered.after = answered.before
         \/ /\ RefusalLost(Standard.elements[1], answered.before) /\ answered.after = answered.before
            /\ answered.r.route \in {"putIndividualContextEntity", "putAllEntitiesWithTypeAndId", "patchEntity"}

\* The entities and attributes that a GET is about.
Wanted(r, docs) ==
  {key \in DOMAIN docs :
     /\ key.id = r.id \/ r.id = ""
     /\ IF r.type # "" THEN key.type = r.type ELSE r.ptype \in {"", key.type}
     /\ r.info = "notExist" /\ r.api = "v1" => key.type = ""
     /\ r.info = "exist" /\ r.api = "v1" => key.type # ""
     /\ r.attrL # {} => r.attrL \cap {k[1] : k \in DOMAIN docs[key].attrs} # {}}
Has(r, docs) ==
  {key \in Wanted(r, docs) :
     \/ r.attr = ""
     \/ \E k \in DOMAIN docs[key].attrs : k[1] = r.attr /\ r.metaID \in {"", k[2]}}

\* The attributes of the entities of a type, each with the types it has there.
TypedAttributes(docs, type) ==
  UNION {{<<k[1], docs[key].attrs[k].type>> : k \in Stored(docs[key])} :
         key \in {key \in DOMAIN docs : key.type = type}}
NamesOf(attrs) == {a[1] : a \in attrs}

\* The names that a page of the sorted ones has.
OnPage(r, names) ==
  {name \in names : LET place == Cardinality({n \in names : \E i, j \in DOMAIN Sorted :
                                                i < j /\ Sorted[i] = n /\ Sorted[j] = name})
                    IN  r.offset <= place /\ place < r.offset + r.limit}

\* What is told of one type: its attributes, with all their types in NGSIv2, and the number of
\* entities, which is not known of the entities without type.
TypeIsTold(r, docs, e, names) ==
  LET stored == TypedAttributes(docs, e.type)
  IN  /\ NamesOf(e.attrs) = names
      /\ e.attrs \subseteq stored
      /\ r.api = "v2" => e.attrs = {a \in stored : a[1] \in names}
      /\ e.type # "" => e.count = Cardinality({key \in DOMAIN docs : key.type = e.type})

TypesAreTold(r, docs, status, result) ==
  LET types == {key.type : key \in DOMAIN docs}
      attrs == OnPage(r, NamesOf(TypedAttributes(docs, r.type)))
  IN  IF Standard.query = "one"
      THEN /\ status = IF (IF r.api = "v2" THEN r.type \in types ELSE attrs # {}) THEN "Ok" ELSE "ContextElementNotFound"
           /\ status = "Ok" => TypeIsTold(r, docs, result.answer[1], attrs)
      ELSE /\ {e.type : e \in Elements(result.answer)} = OnPage(r, types)
           /\ Len(result.answer) = Cardinality(OnPage(r, types))
           /\ result.total = Cardinality(types)
           /\ status = IF r.api = "v1" /\ OnPage(r, types) = {} THEN "ContextElementNotFound" ELSE "Ok"
           /\ ~r.values => \A e \in Elements(result.answer) : TypeIsTold(r, docs, e, NamesOf(TypedAttributes(docs, e.type)))

\* When writers are serialised and the database does not fail, a GET of one
\* entity, attribute or type of entities answers 200 when it is stored and 404 when it is not,
\* and NGSIv2 answers 409 when the id is that of several entities: nothing is
\* missed by the query by attribute names (entitiesQuery()), by the choice of
\* the first response or by the lookup of the attribute in it (the fill() of
\* the responses).  The two typed paths that do not look for the entity of
\* their path are left out, and an ID asked of several entities.  When readers
\* are serialised too, the pages of the lists of entity types have every type
\* stored once, with its attributes, their types and the number of its entities
\* (mongoQueryTypes.cpp), although each of these comes from a query of its own.
GetsTellWhatIsStored ==
  LET r == answered.r
      wanted == Wanted(r, answered.after)
  IN  /\ inst.policy = "all" /\ ~inst.dbFails /\ Answered("types") =>
           TypesAreTold(r, answered.after, answered.status, answered.result)
      /\ Serial /\ ~inst.dbFails /\ inst.regs = <<>> /\ Answered("query") =>
        \/ r.id = "" /\ r.type = ""
        \/ r.route \in {"getIndividualContextEntityAttributeWithTypeAndId",
                        "getAttributeValueInstanceWithTypeAndId"}
        \/ r.metaID # "" /\ Cardinality(wanted) > 1
        \/ answered.status =
             CASE r.api = "v2" /\ Cardinality(wanted) > 1 -> "Conflict"
               [] ~(r.api = "v2" /\ Cardinality(wanted) > 1) /\ Has(r, answered.after) # {} -> "Ok"
               [] OTHER -> "ContextElementNotFound"

=============================================================================
