------------------------------ MODULE NgsiCheck ------------------------------
(***************************************************************************)
(* What the broker refuses of a message that has been parsed: the check()  *)
(* methods (lib/ngsi, lib/ngsi9, lib/ngsi10, lib/convenience).  A check    *)
(* returns "OK" or the reason, and the first reason found is the one given.*)
(* The records are those of NgsiRender; errorString is an error that was   *)
(* detected during the parse.                                              *)
(***************************************************************************)
EXTENDS NgsiRender, FiniteSetsExt

CONSTANT TooLong    \* the strings longer than MAX_ID_LEN

isTrue(s) == s \in {"true", "1"}
isFalse(s) == s \in {"false", "0"}
isBoolean(s) == isTrue(s) \/ isFalse(s)

\* The reason of the first check of several that does not say OK
FirstError(results) ==
  LET errors == {ix \in DOMAIN results : results[ix] # "OK"}
  IN  IF errors = {} THEN "OK" ELSE results[Min(errors)]

VectorCheck(check(_), vec) == FirstError([ix \in DOMAIN vec |-> check(vec[ix])])

Refuse(condition, reason) == IF condition THEN reason ELSE "OK"

(***************************************************************************)
(* The parts                                                               *)
(***************************************************************************)
EntityIdCheck(request, entity) ==
  FirstError(<<
    Refuse(entity.id = "", "empty entityId:id"),
    Refuse(~isBoolean(entity.isPattern) /\ entity.isPattern # "", "invalid isPattern value for entity"),
    Refuse(request = "RegisterContext" /\ isTrue(entity.isPattern), "isPattern set to true for a registration")>>)

EntityIdVectorCheck(request, vec) ==
  FirstError(<<
    Refuse(vec = <<>> /\ request \in {"DiscoverContextAvailability", "SubscribeContextAvailability",
                                      "UpdateContextAvailabilitySubscription", "QueryContext", "SubscribeContext"}, "No entities"),
    VectorCheck(LAMBDA e : EntityIdCheck(request, e), vec)>>)

AttributeListCheck(vec) == VectorCheck(LAMBDA name : Refuse(name = "", "empty attribute name"), vec)

MetadataCheck(ci, md) ==
  FirstError(<<
    Refuse(md.name = "", "missing metadata name"),
    Refuse(md.name \in TooLong, "metadata name length"),
    Refuse(forbiddenIdChars(ci.apiVersion, md.name), "Invalid characters in metadata name"),
    Refuse(md.type \in TooLong, "metadata type length"),
    Refuse(ci.apiVersion = "v2" /\ md.type = "", "metadata type length"),
    Refuse(forbiddenIdChars(ci.apiVersion, md.type), "Invalid characters in metadata type"),
    Refuse(md.valueType = "string" /\ forbiddenChars(md.value), "Invalid characters in metadata value"),
    Refuse(md.valueType = "string" /\ md.value = "", "missing metadata value")>>)

MetadataVectorCheck(ci, vec) == VectorCheck(LAMBDA md : MetadataCheck(ci, md), vec)

StatusCodeCheck(status) ==
  FirstError(<<Refuse(status.code = SccNone, "no code"), Refuse(status.reasonPhrase = "", "no reason phrase")>>)

\* The children of an object have names of their own, those of a vector have all the same, and no string has a
\* character that is not allowed.
RECURSIVE CompoundCheck(_)
CompoundCheck(node) ==
  LET names == [ix \in DOMAIN node.kids |-> node.kids[ix].name]
  IN  FirstError(<<
        Refuse(node.type = "vector" /\ \E ix \in DOMAIN names : names[ix] # names[1], "bad tag-name of vector item"),
        Refuse(node.type = "object" /\ \E ix1, ix2 \in DOMAIN names : ix1 # ix2 /\ names[ix1] = names[ix2], "duplicated tag-name"),
        Refuse(node.type = "string" /\ forbiddenChars(node.s), "Invalid characters in attribute value"),
        VectorCheck(CompoundCheck, node.kids)>>)

\* A compound value is checked instead of the metadata.
ContextAttributeCheck(ci, attr) ==
  FirstError(<<
    Refuse(attr.name = "", "missing attribute name"),
    Refuse(attr.name \in TooLong, "attribute name length"),
    Refuse(forbiddenIdChars(ci.apiVersion, attr.name), "Invalid characters in attribute name"),
    Refuse(attr.type \in TooLong, "attribute type length"),
    Refuse(ci.apiVersion = "v2" /\ attr.type = "", "attribute type length"),
    Refuse(forbiddenIdChars(ci.apiVersion, attr.type), "Invalid characters in attribute type"),
    IF attr.compound # <<>> /\ attr.compound[1].kids # <<>>
    THEN CompoundCheck(attr.compound[1])
    ELSE FirstError(<<Refuse(attr.valueType = "string" /\ forbiddenChars(attr.value), "Invalid characters in attribute value"),
                      MetadataVectorCheck(ci, attr.metadatas)>>)>>)

ContextAttributeVectorCheck(ci, vec) == VectorCheck(LAMBDA attr : ContextAttributeCheck(ci, attr), vec)

ContextElementCheck(ci, request, ce) ==
  FirstError(<<EntityIdCheck(request, ce), ContextAttributeVectorCheck(ci, ce.attributes), MetadataVectorCheck(ci, ce.metadatas)>>)

\* Only an update needs an element.
ContextElementVectorCheck(ci, request, vec) ==
  FirstError(<<
    Refuse(request = "UpdateContext" /\ vec = <<>>, "No context elements"),
    VectorCheck(LAMBDA ce : ContextElementCheck(ci, request, ce), vec)>>)

ContextElementResponseCheck(ci, request, cer) == FirstError(<<ContextElementCheck(ci, request, cer), StatusCodeCheck(cer)>>)

ContextElementResponseVectorCheck(ci, request, vec) == VectorCheck(LAMBDA cer : ContextElementResponseCheck(ci, request, cer), vec)

ContextRegistrationAttributeCheck(ci, attr) ==
  FirstError(<<
    Refuse(attr.name = "", "missing name for registration attribute"),
    Refuse(attr.isDomain = "", "missing isDomain value for registration attribute"),
    Refuse(~isBoolean(attr.isDomain), "invalid isDomain value for registration attribute"),
    MetadataVectorCheck(ci, attr.metadatas)>>)

ContextRegistrationAttributeVectorCheck(ci, vec) == VectorCheck(LAMBDA attr : ContextRegistrationAttributeCheck(ci, attr), vec)

ProvidingApplicationCheck(providingApplication) == Refuse(providingApplication = "", "no providing application")

\* A registration need not name an entity: entityIdVectorPresent, which the last test of the method reads, is set only
\* by RegisterContextRequest::fill(), along with an entity.
ContextRegistrationCheck(ci, request, reg) ==
  FirstError(<<
    EntityIdVectorCheck(request, reg.entities),
    ContextRegistrationAttributeVectorCheck(ci, reg.attributes),
    MetadataVectorCheck(ci, reg.metadatas),
    ProvidingApplicationCheck(reg.providingApplication)>>)

ContextRegistrationVectorCheck(ci, request, vec) == VectorCheck(LAMBDA reg : ContextRegistrationCheck(ci, request, reg), vec)

\* The error code of a response is not checked.
ContextRegistrationResponseCheck(ci, request, reg) == ContextRegistrationCheck(ci, request, reg)

ContextRegistrationResponseVectorCheck(ci, request, vec) ==
  VectorCheck(LAMBDA reg : ContextRegistrationResponseCheck(ci, request, reg), vec)

DurationCheck(duration) == Refuse(duration \in Malformed, "syntax error in duration string")
ThrottlingCheck(throttling) == Refuse(throttling \in Malformed, "syntax error in throttling string")
idCheck(id) == Refuse(id \in Malformed, "bad identifier")
SubscriptionIdCheck(id) == IF id = "" THEN "OK" ELSE idCheck(id)
RegistrationIdCheck(id) == IF id = "" THEN "OK" ELSE idCheck(id)

\* parseUrl() does not accept the empty string either.
ReferenceCheck(request, reference) ==
  FirstError(<<
    Refuse(reference = "" /\ request \in {"SubscribeContextAvailability", "SubscribeContext"}, "Empty Reference"),
    Refuse(reference = "" \/ reference \in Malformed, "Invalid URL")>>)

UpdateActionTypeCheck(action) ==
  FirstError(<<
    Refuse(action = "", "empty update action type"),
    Refuse(action \notin {"update", "UPDATE", "Update", "append", "APPEND", "Append", "append_strict", "APPEND_STRICT",
                          "Append_Strict", "delete", "DELETE", "Delete", "replace", "REPLACE", "Replace"},
           "invalid update action type")>>)

(***************************************************************************)
(* Restrictions.  A coordinate that str2double() refuses or that is out of *)
(* range is Malformed; the empty string is the number zero.                *)
(***************************************************************************)
FIWARE_LOCATION == {"FIWARE::Location", "FIWARE_Location"}
FIWARE_LOCATION_V2 == "FIWARE::Location::NGSIv2"
SCOPE_TYPE_SIMPLE_QUERY == "FIWARE::StringQuery"

CoordinatesCheck(point) ==
  FirstError(<<Refuse(point.latitude \in Malformed, "invalid value for latitude"),
               Refuse(point.longitude \in Malformed, "invalid value for longitude")>>)

\* Once the circle says whether it is inverted, its centre is not looked for.
CircleCheck(scope) ==
  FirstError(<<
    Refuse(scope.radius = "0", "Radius zero for a circle area"),
    Refuse(scope.radius = "", "Missing radius for circle area"),
    Refuse(scope.circleInverted # "" /\ ~isBoolean(scope.circleInverted), "bad value for circle/inverted"),
    Refuse(scope.circleInverted = "" /\ scope.latitude = "", "Missing latitude for circle center"),
    Refuse(scope.circleInverted = "" /\ scope.longitude = "", "Missing longitude for circle center"),
    CoordinatesCheck(scope)>>)

PolygonCheck(scope) ==
  FirstError(<<
    Refuse(Len(scope.vertices) < 3, "too few vertices for a polygon"),
    Refuse(scope.polygonInverted # "" /\ ~isBoolean(scope.polygonInverted), "bad value for polygon/inverted"),
    VectorCheck(LAMBDA point :
                  FirstError(<<Refuse(point.latitude = "", "missing latitude value for polygon vertex"),
                               Refuse(point.longitude = "", "missing longitude value for polygon vertex"),
                               CoordinatesCheck(point)>>), scope.vertices)>>)

\* The geometry of an NGSIv2 scope
LocationV2Check(scope) ==
  FirstError(<<
    Refuse(scope.areaType \in {"point", "line"} /\ scope.georel = "coveredBy", "geometry cannot be used with coveredBy georel"),
    Refuse(scope.areaType = "line" /\ Len(scope.vertices) < 2, "not enough points for a line"),
    Refuse(scope.areaType = "polygon" /\ Len(scope.vertices) < 4, "not enough vertices for a polygon")>>)

ScopeCheck(scope) ==
  FirstError(<<
    Refuse(forbiddenChars(scope.type), "illegal chars in scope type"),
    Refuse(scope.type # SCOPE_TYPE_SIMPLE_QUERY /\ forbiddenChars(scope.value), "illegal chars in scope"),
    CASE scope.type \in FIWARE_LOCATION /\ scope.areaType = "circle" -> CircleCheck(scope)
      [] scope.type \in FIWARE_LOCATION /\ scope.areaType = "polygon" -> PolygonCheck(scope)
      [] scope.type \in FIWARE_LOCATION -> "OK"
      [] scope.type = "" -> "Empty type in restriction scope"
      [] scope.value = "" -> "Empty value in restriction scope"
      [] scope.type = FIWARE_LOCATION_V2 -> LocationV2Check(scope)
      [] OTHER -> "OK">>)

ScopeVectorCheck(vec) == VectorCheck(ScopeCheck, vec)

RestrictionCheck(msg) ==
  IF msg.restrictions = 0 THEN "OK"
  ELSE FirstError(<<
         Refuse(msg.scopes = <<>> /\ msg.attributeExpression = "", "empty restriction"),
         ScopeVectorCheck(msg.scopes)>>)

ConditionValueListCheck(vec) == VectorCheck(LAMBDA v : Refuse(v = "", "empty condValue name"), vec)

\* Upper and lower case are not told apart; the restriction of a condition is not checked (a counter of 0).
NotifyConditionCheck(nc) ==
  FirstError(<<
    Refuse(nc.type = "", "empty type for NotifyCondition"),
    Refuse(nc.type \notin {"ONCHANGE", "OnChange", "onchange"}, "invalid notify condition type"),
    ConditionValueListCheck(nc.condValues)>>)

NotifyConditionVectorCheck(vec) == VectorCheck(NotifyConditionCheck, vec)

(***************************************************************************)
(* The messages.  Only the checks of a subscription and of the end of one  *)
(* look at nothing that was detected before.                               *)
(***************************************************************************)
Predetected(msg) == Refuse(msg.errorString # "", msg.errorString)

UpdateContextRequestCheck(ci, msg) ==
  FirstError(<<
    Predetected(msg),
    ContextElementVectorCheck(ci, "UpdateContext", msg.contextElements),
    UpdateActionTypeCheck(msg.updateAction)>>)

QueryContextRequestCheck(msg) ==
  FirstError(<<Predetected(msg), EntityIdVectorCheck("QueryContext", msg.entities), AttributeListCheck(msg.attributes), RestrictionCheck(msg)>>)

UpdateContextResponseCheck(ci, msg) ==
  FirstError(<<Predetected(msg), ContextElementResponseVectorCheck(ci, "UpdateContext", msg.contextResponses)>>)

QueryContextResponseCheck(ci, msg) ==
  FirstError(<<Predetected(msg), ContextElementResponseVectorCheck(ci, "QueryContext", msg.contextResponses)>>)

NotifyContextRequestCheck(ci, msg) ==
  FirstError(<<Predetected(msg), SubscriptionIdCheck(msg.subscriptionId), ContextElementResponseVectorCheck(ci, "QueryContext", msg.contextResponses)>>)

SubscribeContextRequestCheck(msg) ==
  FirstError(<<
    EntityIdVectorCheck("SubscribeContext", msg.entities), AttributeListCheck(msg.attributes),
    ReferenceCheck("SubscribeContext", msg.reference), DurationCheck(msg.duration), RestrictionCheck(msg),
    NotifyConditionVectorCheck(msg.notifyConditions), ThrottlingCheck(msg.throttling)>>)

UnsubscribeContextRequestCheck(msg) == SubscriptionIdCheck(msg.subscriptionId)

UpdateContextSubscriptionRequestCheck(msg) ==
  FirstError(<<
    Predetected(msg), DurationCheck(msg.duration), RestrictionCheck(msg), SubscriptionIdCheck(msg.subscriptionId),
    NotifyConditionVectorCheck(msg.notifyConditions), ThrottlingCheck(msg.throttling)>>)

RegisterContextRequestCheck(ci, msg) ==
  FirstError(<<
    Predetected(msg), Refuse(msg.contextRegistrations = <<>>, "Empty Context Registration List"),
    ContextRegistrationVectorCheck(ci, "RegisterContext", msg.contextRegistrations),
    DurationCheck(msg.duration), RegistrationIdCheck(msg.registrationId)>>)

\* A discovery without entities finds nothing: the reason is empty, its code is 404.
DiscoverContextAvailabilityRequestCheck(msg) ==
  FirstError(<<
    Predetected(msg), Refuse(msg.entities = <<>>, ""), EntityIdVectorCheck("DiscoverContextAvailability", msg.entities),
    AttributeListCheck(msg.attributes), RestrictionCheck(msg)>>)

NotifyContextAvailabilityRequestCheck(ci, msg) ==
  FirstError(<<
    Predetected(msg), SubscriptionIdCheck(msg.subscriptionId),
    ContextRegistrationResponseVectorCheck(ci, "QueryContext", msg.contextRegistrationResponses)>>)

SubscribeContextAvailabilityRequestCheck(msg) ==
  FirstError(<<
    Predetected(msg), EntityIdVectorCheck("SubscribeContextAvailability", msg.entities), AttributeListCheck(msg.attributes),
    ReferenceCheck("SubscribeContextAvailability", msg.reference), DurationCheck(msg.duration), RestrictionCheck(msg)>>)

UnsubscribeContextAvailabilityRequestCheck(msg) == FirstError(<<Predetected(msg), SubscriptionIdCheck(msg.subscriptionId)>>)

\* The number of restrictions is passed as 0: the restriction is not checked.
UpdateContextAvailabilitySubscriptionRequestCheck(msg) ==
  FirstError(<<
    Predetected(msg), EntityIdVectorCheck("UpdateContextAvailabilitySubscription", msg.entities),
    AttributeListCheck(msg.attributes), DurationCheck(msg.duration), SubscriptionIdCheck(msg.subscriptionId)>>)

\* The entity is not checked: it may come from the URL.
AppendContextElementRequestCheck(ci, msg) ==
  FirstError(<<Predetected(msg), ContextAttributeVectorCheck(ci, msg.attributes), MetadataVectorCheck(ci, msg.metadatas)>>)

UpdateContextElementRequestCheck(ci, msg) == FirstError(<<Predetected(msg), ContextAttributeVectorCheck(ci, msg.attributes)>>)

UpdateContextAttributeRequestCheck(ci, msg) == FirstError(<<Predetected(msg), MetadataVectorCheck(ci, msg.metadatas)>>)

RegisterProviderRequestCheck(ci, msg) ==
  FirstError(<<
    Predetected(msg), MetadataVectorCheck(ci, msg.metadatas), DurationCheck(msg.duration),
    ProvidingApplicationCheck(msg.providingApplication), RegistrationIdCheck(msg.registrationId)>>)

=============================================================================
