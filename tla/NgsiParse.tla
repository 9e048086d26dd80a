------------------------------ MODULE NgsiParse ------------------------------
(***************************************************************************)
(* How the broker reads an NGSIv1 message (lib/jsonParse): the tree of the *)
(* JSON text is walked node by node, and what is done with a node is found *)
(* in the parse vector of the message, by the path of the node.  A path is *)
(* the sequence of the names that lead to the node, an element of an array *)
(* being named after the array.                                            *)
(*                                                                         *)
(* An entry of a parse vector pushes an empty part on a vector of the      *)
(* message, stores a value in the last part pushed, or does nothing.  Its  *)
(* spine is the sequence of the vectors that lead to the part it is about. *)
(***************************************************************************)
EXTENDS NgsiCheck, TLC

(***************************************************************************)
(* The entries of a parse vector                                           *)
(***************************************************************************)
Entry(op, spine, field, part) == [op |-> op, spine |-> spine, field |-> field, part |-> part, accepts |-> "any", store |-> TRUE, flag |-> FALSE]

Null == Entry("null", <<>>, "", "")
Push(spine, field, part) == Entry("push", spine, field, part)
Set(spine, field) == Entry("set", spine, field, "")
Add(spine, field) == Entry("add", spine, field, "")          \* to a vector of strings
Value(spine) == Entry("value", spine, "value", "")           \* the value of an attribute
Special(op) == Entry(op, <<>>, "", "")

\* What becomes of a value that is not accepted: it is left out, errorString is set, or both.  A treat function also
\* returns the error, but nobody looks at what it returns.
OrDrop(entry, accepts) == [entry EXCEPT !.accepts = accepts, !.store = FALSE]
OrFlag(entry, accepts) == [entry EXCEPT !.accepts = accepts, !.flag = TRUE]
OrFlagAndDrop(entry, accepts) == [entry EXCEPT !.accepts = accepts, !.store = FALSE, !.flag = TRUE]

Accepted(accepts, value) ==
  CASE accepts = "any" -> TRUE
    [] accepts = "boolean" -> isBoolean(value)
    [] accepts = "false" -> isFalse(value)
    [] accepts = "nonEmpty" -> value # ""

\* The empty parts
FreshPart(part) ==
  CASE part = "entity" -> [id |-> "", type |-> "", isPattern |-> "false"]
    [] part = "notifiedEntity" -> [id |-> "", type |-> "", isPattern |-> ""]
    [] part = "metadata" -> [name |-> "", type |-> "", valueType |-> "string", value |-> ""]
    [] part = "vertex" -> [latitude |-> "", longitude |-> ""]
    [] part = "notifyCondition" -> [type |-> "", condValues |-> <<>>, restriction |-> ""]
    [] part = "attribute" -> [name |-> "", type |-> "", valueType |-> "none", value |-> "", compound |-> <<>>, metadatas |-> <<>>]
    [] part = "registrationAttribute" -> [name |-> "", type |-> "", isDomain |-> "", metadatas |-> <<>>]
    [] part = "scope" -> [type |-> "", value |-> "", areaType |-> "", latitude |-> "", longitude |-> "", radius |-> "",
                          circleInverted |-> "", polygonInverted |-> "", georel |-> "", vertices |-> <<>>]
    [] part = "contextElement" -> [id |-> "", type |-> "", isPattern |-> "false", attributeDomainName |-> "",
                                   attributes |-> <<>>, metadatas |-> <<>>]
    [] part = "contextResponse" -> [id |-> "", type |-> "", isPattern |-> "", attributeDomainName |-> "", attributes |-> <<>>,
                                    metadatas |-> <<>>, code |-> SccNone, reasonPhrase |-> "", details |-> ""]
    [] part = "registration" -> [entities |-> <<>>, attributes |-> <<>>, metadatas |-> <<>>, providingApplication |-> "",
                                 code |-> SccNone, reasonPhrase |-> "", details |-> ""]

\* The entries below a path
Under(prefix, entries) == [path \in {prefix \o <<name>> : name \in DOMAIN entries} |-> entries[path[Len(path)]]]
At(path, entry) == path :> entry

EntityEntries(prefix, spine, isPattern) == Under(prefix, "id" :> Set(spine, "id") @@ "type" :> Set(spine, "type") @@ "isPattern" :> isPattern)

EntitiesEntries(prefix, spine, part, isPattern) ==
  At(prefix \o <<"entities">>, Null) @@ At(prefix \o <<"entities", "entity">>, Push(spine, "entities", part))
  @@ EntityEntries(prefix \o <<"entities", "entity">>, Append(spine, "entities"), isPattern)

\* vector and element are "metadatas" and "metadata" but for the domain metadata of an update
MetadataEntries(prefix, vector, element, spine) ==
  At(prefix \o <<vector>>, Null) @@ At(prefix \o <<vector, element>>, Push(spine, "metadatas", "metadata"))
  @@ Under(prefix \o <<vector, element>>,
           [field \in {"name", "type", "value"} |-> Set(Append(spine, "metadatas"), field)])

\* Mutant: the value of an attribute is looked for where older versions of the API had it.
AttributeEntriesContextValue(prefix, spine) ==
  LET path == prefix \o <<"attributes", "attribute">>
      in == Append(spine, "attributes")
  IN  At(prefix \o <<"attributes">>, Null) @@ At(path, Push(spine, "attributes", "attribute"))
      @@ Under(path, "name" :> Set(in, "name") @@ "type" :> Set(in, "type") @@ "contextValue" :> Value(in))
      @@ MetadataEntries(path, "metadatas", "metadata", in)

AttributeEntries(prefix, spine) ==
  LET path == prefix \o <<"attributes", "attribute">>
      in == Append(spine, "attributes")
  IN  At(prefix \o <<"attributes">>, Null) @@ At(path, Push(spine, "attributes", "attribute"))
      @@ Under(path, "name" :> Set(in, "name") @@ "type" :> Set(in, "type") @@ "value" :> Value(in))
      @@ MetadataEntries(path, "metadatas", "metadata", in)

AttributeListEntries(entry) == At(<<"attributes">>, Null) @@ At(<<"attributes", "attribute">>, entry)

StatusEntries(prefix, spine) ==
  At(prefix, Null) @@ Under(prefix, "code" :> Entry("code", spine, "code", "") @@ "reasonPhrase" :> Set(spine, "reasonPhrase")
                                    @@ "details" :> Set(spine, "details"))

ScopePath == <<"restriction", "scopes", "scope">>
ScopeEntries(expression, value) ==
  At(<<"restriction">>, Special("restriction")) @@ At(<<"restriction", "attributeExpression">>, expression)
  @@ At(<<"restriction", "scopes">>, Null) @@ At(ScopePath, Push(<<>>, "scopes", "scope"))
  @@ Under(ScopePath, "type" :> Set(<<"scopes">>, "type") @@ "value" :> value)

AreaEntries ==
  LET in == ScopePath \o <<"value">>
      vertex == in \o <<"polygon", "vertices", "vertice">>
      Sc(field) == Set(<<"scopes">>, field)
  IN  Under(in, "circle" :> Special("circle") @@ "polygon" :> Special("polygon"))
      @@ Under(in \o <<"circle">>, "centerLatitude" :> Sc("latitude") @@ "centerLongitude" :> Sc("longitude") @@ "radius" :> Sc("radius")
                                   @@ "inverted" :> OrFlag(Sc("circleInverted"), "boolean"))
      @@ Under(in \o <<"polygon">>, "vertices" :> Null @@ "inverted" :> OrFlag(Sc("polygonInverted"), "boolean"))
      @@ At(vertex, Push(<<"scopes">>, "vertices", "vertex"))
      @@ Under(vertex, [field \in {"latitude", "longitude"} |-> Set(<<"scopes", "vertices">>, field)])

GeometryEntries ==
  LET in == ScopePath \o <<"value">>
  IN  Under(in, "geometry" :> Special("geometry") @@ "georel" :> Special("georel") @@ "coords" :> Null)
      @@ At(in \o <<"georel", "geore">>, Special("georelValue")) @@ At(in \o <<"coords", "coord">>, Special("coord"))
      @@ At(in \o <<"coords", "coord", "coor">>, Special("coordValue"))

NotifyConditionEntries ==
  LET in == <<"notifyConditions", "notifyCondition">>
  IN  At(<<"notifyConditions">>, Null) @@ At(in, Push(<<>>, "notifyConditions", "notifyCondition"))
      @@ Under(in, "type" :> Set(<<"notifyConditions">>, "type") @@ "restriction" :> Set(<<"notifyConditions">>, "restriction")
                   @@ "condValues" :> Null)
      @@ At(in \o <<"condValues", "condValue">>, Add(<<"notifyConditions">>, "condValues"))

Fields(names) == [path \in {<<name>> : name \in names} |-> Set(<<>>, path[1])]

(***************************************************************************)
(* The parse vectors                                                       *)
(***************************************************************************)
jsonUpcrParseVector ==
  LET ce == <<"contextElements", "contextElement">>
      in == <<"contextElements">>
  IN  At(<<"contextElements">>, Null) @@ At(ce, Push(<<>>, "contextElements", "contextElement"))
      @@ EntityEntries(ce, in, Set(in, "isPattern")) @@ At(ce \o <<"attributeDomainName">>, Set(in, "attributeDomainName"))
      @@ AttributeEntries(ce, in) @@ MetadataEntries(ce, "domainMetadatas", "domainMetadata", in) @@ Fields({"updateAction"})

ContextResponsesEntries ==
  LET cer == <<"contextResponses", "contextResponse">>
      ce == Append(cer, "contextElement")
      in == <<"contextResponses">>
  IN  At(<<"contextResponses">>, Null) @@ At(cer, Push(<<>>, "contextResponses", "contextResponse")) @@ At(ce, Null)
      @@ EntityEntries(ce, in, Set(in, "isPattern")) @@ At(ce \o <<"attributeDomainName">>, Set(in, "attributeDomainName"))
      @@ AttributeEntries(ce, in) @@ MetadataEntries(ce, "metadatas", "metadata", in)
      @@ StatusEntries(cer \o <<"statusCode">>, in)

jsonUpcrsParseVector == ContextResponsesEntries @@ StatusEntries(<<"errorCode">>, <<>>)
jsonQcrsParseVector == ContextResponsesEntries @@ StatusEntries(<<"errorCode">>, <<>>)
jsonNcrParseVector == ContextResponsesEntries @@ Fields({"subscriptionId", "originator"})

AcerAttributes == AttributeEntries(<<>>, <<>>) @@ Fields({"attributeDomainName"})
jsonAcerParseVector ==
  AcerAttributes @@ MetadataEntries(<<>>, "metadatas", "metadata", <<>>)
  @@ EntityEntries(<<>>, <<>>, OrDrop(Set(<<>>, "isPattern"), "boolean"))

jsonUcerParseVector == AttributeEntries(<<>>, <<>>) @@ Fields({"attributeDomainName"})
jsonUpcarParseVector == MetadataEntries(<<>>, "metadatas", "metadata", <<>>) @@ Fields({"type"}) @@ At(<<"value">>, Value(<<>>))
jsonRprParseVector == MetadataEntries(<<>>, "metadatas", "metadata", <<>>) @@ Fields({"duration", "providingApplication", "registrationId"})

\* What is below a registration.  in is the vector of the registrations.
RegistrationAttributeEntries(path, in, isDomain) ==
  LET attr == path \o <<"attributes", "attribute">>
      inAttr == in \o <<"attributes">>
  IN  At(path \o <<"attributes">>, Null) @@ At(attr, Push(in, "attributes", "registrationAttribute"))
      @@ Under(attr, "name" :> Set(inAttr, "name") @@ "type" :> Set(inAttr, "type") @@ "isDomain" :> isDomain)
      @@ MetadataEntries(attr, "metadatas", "metadata", inAttr)

RegistrationEntries(path, in) ==
  MetadataEntries(path, "metadatas", "metadata", in) @@ At(path \o <<"providingApplication">>, Set(in, "providingApplication"))

RcrFields == Fields({"duration", "registrationId"})

\* A registration that asks for isPattern is not refused: the flag is left as it was.
jsonRcrParseVector ==
  LET path == <<"contextRegistrations", "contextRegistration">>
      in == <<"contextRegistrations">>
  IN  At(<<"contextRegistrations">>, Null) @@ At(path, Push(<<>>, "contextRegistrations", "registration"))
      @@ EntitiesEntries(path, in, "entity", OrDrop(Set(in \o <<"entities">>, "isPattern"), "false"))
      @@ RegistrationAttributeEntries(path, in, OrDrop(Set(in \o <<"attributes">>, "isDomain"), "boolean"))
      @@ RegistrationEntries(path, in) @@ RcrFields

NcarRegistrations ==
  LET crr == <<"contextRegistrationResponses", "contextRegistrationResponse">>
      in == <<"contextRegistrationResponses">>
      path == Append(crr, "contextRegistration")
  IN  At(<<"contextRegistrationResponses">>, Null) @@ At(crr, Push(<<>>, "contextRegistrationResponses", "registration")) @@ At(path, Null)
      @@ EntitiesEntries(path, in, "notifiedEntity", Set(in \o <<"entities">>, "isPattern"))
      @@ RegistrationAttributeEntries(path, in, Set(in \o <<"attributes">>, "isDomain")) @@ RegistrationEntries(path, in)

jsonNcarParseVector == NcarRegistrations @@ Fields({"subscriptionId"})

\* Each file has treat functions of its own for the entities, the attributes and the restriction.  They differ in what
\* becomes of a flag that is neither true nor false, of an empty attribute or expression, and of the value of a scope.
QcrEntities ==
  EntitiesEntries(<<>>, <<>>, "entity", Set(<<"entities">>, "isPattern")) @@ AttributeListEntries(OrFlag(Add(<<>>, "attributes"), "nonEmpty"))
QcrScopes == ScopeEntries(OrFlag(Set(<<>>, "attributeExpression"), "nonEmpty"), Special("scopeValueV2"))
jsonQcrParseVector == QcrEntities @@ QcrScopes @@ AreaEntries @@ GeometryEntries

ScrEntities ==
  EntitiesEntries(<<>>, <<>>, "entity", Set(<<"entities">>, "isPattern")) @@ AttributeListEntries(Add(<<>>, "attributes"))
ScrFields == Fields({"reference", "duration", "throttling"})
ScrScopes == ScopeEntries(Set(<<>>, "attributeExpression"), Special("scopeValue"))
ScrAreas == AreaEntries
jsonScrParseVector == ScrEntities @@ ScrFields @@ ScrScopes @@ ScrAreas @@ NotifyConditionEntries

UcsrFields == Fields({"subscriptionId", "duration", "throttling"})
UcsrScopes == ScopeEntries(Set(<<>>, "attributeExpression"), Special("scopeValue"))
UcsrAreas == AreaEntries
jsonUcsrParseVector == UcsrFields @@ UcsrScopes @@ UcsrAreas @@ NotifyConditionEntries

jsonDcarParseVector ==
  EntitiesEntries(<<>>, <<>>, "entity", Set(<<"entities">>, "isPattern")) @@ AttributeListEntries(Add(<<>>, "attributes"))
  @@ ScopeEntries(Set(<<>>, "attributeExpression"), Set(<<"scopes">>, "value"))

ScarEntities ==
  EntitiesEntries(<<>>, <<>>, "entity", OrDrop(Set(<<"entities">>, "isPattern"), "boolean")) @@ AttributeListEntries(Add(<<>>, "attributes"))
jsonScarParseVector ==
  ScarEntities @@ ScopeEntries(Set(<<>>, "attributeExpression"), Set(<<"scopes">>, "value")) @@ Fields({"reference", "duration"})

UcasEntities ==
  EntitiesEntries(<<>>, <<>>, "entity", OrFlagAndDrop(Set(<<"entities">>, "isPattern"), "boolean"))
  @@ AttributeListEntries(Add(<<>>, "attributes"))
jsonUcasParseVector ==
  UcasEntities @@ ScopeEntries(Set(<<>>, "attributeExpression"), Set(<<"scopes">>, "value")) @@ Fields({"subscriptionId", "duration"})

jsonUncrParseVector == Fields({"subscriptionId"})
jsonUcarParseVector == Fields({"subscriptionId"})

(***************************************************************************)
(* What init() leaves of the messages                                      *)
(***************************************************************************)
NoRestriction == [attributeExpression |-> "", scopes |-> <<>>, restrictions |-> 0, coords |-> 0, pointNo |-> 0, errorString |-> ""]
NoEntities == [entities |-> <<>>, attributes |-> <<>>]
NoResponses == [contextResponses |-> <<>>, errorString |-> ""]
NoConditions == [notifyConditions |-> <<>>, duration |-> "", throttling |-> ""]
NoSubscriptionId == [subscriptionId |-> "", errorString |-> ""]

jsonUpcrInit == [contextElements |-> <<>>, updateAction |-> "", errorString |-> ""]
jsonUpcrsInit == NoResponses @@ StatusFill(SccOk, "")    \* updateForward() sets the error code that it is about to read
jsonQcrInit == NoRestriction @@ NoEntities
jsonQcrsInit == NoResponses @@ NoStatus
jsonNcrInit == NoResponses @@ [subscriptionId |-> "", originator |-> ""]
jsonScrInit == NoRestriction @@ NoEntities @@ NoConditions @@ [reference |-> ""]
jsonUcsrInit == NoRestriction @@ NoConditions @@ NoSubscriptionId
jsonUncrInit == NoSubscriptionId
jsonUcarInit == NoSubscriptionId
jsonAcerInit == [id |-> "", type |-> "", isPattern |-> "", attributeDomainName |-> "", attributes |-> <<>>, metadatas |-> <<>>, errorString |-> ""]
jsonUcerInit == [attributeDomainName |-> "", attributes |-> <<>>, errorString |-> ""]
jsonUpcarInit == [type |-> "", valueType |-> "none", value |-> "", compound |-> <<>>, metadatas |-> <<>>, errorString |-> ""]
jsonRcrInit == [contextRegistrations |-> <<>>, duration |-> "", registrationId |-> "", errorString |-> ""]
jsonRprInit == [metadatas |-> <<>>, duration |-> "", providingApplication |-> "", registrationId |-> "", errorString |-> ""]
jsonDcarInit == NoRestriction @@ NoEntities
jsonScarInit == NoRestriction @@ NoEntities @@ [reference |-> "", duration |-> ""]
jsonUcasInit == NoRestriction @@ NoEntities @@ NoSubscriptionId @@ [duration |-> ""]
jsonNcarInit == NoSubscriptionId @@ [contextRegistrationResponses |-> <<>>]

\* The table of the requests: the methods that a payload is known with, its parse vector, the empty message.  The lines of
\* the requests that have the same payload are one here.
jsonRequest ==
  LET Line(methods, vector, init) == [methods |-> methods, parseVector |-> vector, init |-> init]
  IN  "UpdateContext" :> Line({"POST"}, jsonUpcrParseVector, jsonUpcrInit)
      @@ "RtUpdateContextResponse" :> Line({"POST"}, jsonUpcrsParseVector, jsonUpcrsInit)
      @@ "QueryContext" :> Line({"POST"}, jsonQcrParseVector, jsonQcrInit)
      @@ "RtQueryContextResponse" :> Line({"POST"}, jsonQcrsParseVector, jsonQcrsInit)
      @@ "NotifyContext" :> Line({"POST"}, jsonNcrParseVector, jsonNcrInit)
      @@ "SubscribeContext" :> Line({"POST"}, jsonScrParseVector, jsonScrInit)
      @@ "UpdateContextSubscription" :> Line({"POST", "PUT"}, jsonUcsrParseVector, jsonUcsrInit)
      @@ "UnsubscribeContext" :> Line({"POST"}, jsonUncrParseVector, jsonUncrInit)
      @@ "AppendContextElement" :> Line({"POST"}, jsonAcerParseVector, jsonAcerInit)
      @@ "UpdateContextElement" :> Line({"PUT"}, jsonUcerParseVector, jsonUcerInit)
      @@ "UpdateContextAttribute" :> Line({"POST", "PUT"}, jsonUpcarParseVector, jsonUpcarInit)
      @@ "RegisterContext" :> Line({"POST"}, jsonRcrParseVector, jsonRcrInit)
      @@ "RegisterProvider" :> Line({"POST"}, jsonRprParseVector, jsonRprInit)
      @@ "DiscoverContextAvailability" :> Line({"POST"}, jsonDcarParseVector, jsonDcarInit)
      @@ "SubscribeContextAvailability" :> Line({"POST"}, jsonScarParseVector, jsonScarInit)
      @@ "UpdateContextAvailabilitySubscription" :> Line({"POST", "PUT"}, jsonUcasParseVector, jsonUcasInit)
      @@ "UnsubscribeContextAvailability" :> Line({"POST"}, jsonUcarParseVector, jsonUcarInit)
      @@ "NotifyContextAvailability" :> Line({"POST"}, jsonNcarParseVector, jsonNcarInit)

jsonRequestGet(request, method) == method \in jsonRequest[request].methods

(***************************************************************************)
(* What the entries do to the message                                      *)
(***************************************************************************)
\* The last part of the last part of ... of the vectors of the spine, and the message with another one there
RECURSIVE LastPart(_, _)
LastPart(part, spine) == IF spine = <<>> THEN part ELSE LastPart(part[Head(spine)][Len(part[Head(spine)])], Tail(spine))

RECURSIVE WithLastPart(_, _, _)
WithLastPart(part, spine, new) ==
  IF spine = <<>> THEN new
  ELSE [part EXCEPT ![Head(spine)][Len(part[Head(spine)])] = WithLastPart(part[Head(spine)][Len(part[Head(spine)])], Tail(spine), new)]

Store(msg, spine, field, value) == WithLastPart(msg, spine, [LastPart(msg, spine) EXCEPT ![field] = value])
AddTo(msg, spine, field, value) == WithLastPart(msg, spine, [LastPart(msg, spine) EXCEPT ![field] = Append(@, value)])

StatusCodes == {SccOk, SccBadRequest, SccContextElementNotFound, SccReceiverInternalError}

\* atoi()
codeValue(value) == IF value \in StatusCodes THEN value ELSE SccNone

areaTypeSet(value) == IF value \in {"line", "polygon", "circle", "point", "box"} THEN value ELSE ""

\* The value of a scope is looked at before the members of it.  What it becomes depends on the type of the scope, which
\* is known only if it came first.
scopeValue(scope, value, v2) ==
  CASE scope.type \in FIWARE_LOCATION -> [scope EXCEPT !.value = "FIWARE::Location"]
    [] v2 /\ scope.type = FIWARE_LOCATION_V2 -> [scope EXCEPT !.value = FIWARE_LOCATION_V2]
    [] OTHER -> [scope EXCEPT !.value = value]

\* A coordinate of the point that coord() has begun; the corners of a box are not kept here.
coordValue(msg, scope, value) ==
  LET Vertex == CASE msg.coords = 0 -> [scope EXCEPT !.vertices = Append(@, [latitude |-> value, longitude |-> "0"])]
                  [] msg.coords = 1 -> [scope EXCEPT !.vertices[Len(scope.vertices)].longitude = value]
      Point == CASE msg.coords = 0 -> [scope EXCEPT !.latitude = value]
                 [] msg.coords = 1 -> [scope EXCEPT !.longitude = value]
      tooMany == msg.coords > 1 \/ (scope.areaType = "box" /\ msg.pointNo > 2)
  IN  IF value \in Malformed \/ scope.areaType \in {"", "circle"} \/ tooMany THEN msg
      ELSE [msg EXCEPT !.coords = @ + 1,
                       !.scopes[Len(msg.scopes)] = CASE scope.areaType \in {"line", "polygon"} -> Vertex
                                                     [] scope.areaType = "point" -> Point
                                                     [] OTHER -> scope]

\* The members of the value of a scope that are not stored as they are.  Those of a geometry are for NGSIv2 scopes only.
ScopeMember(msg, op, value) ==
  LET scope == msg.scopes[Len(msg.scopes)]
      With(new) == [msg EXCEPT !.scopes[Len(msg.scopes)] = new]
  IN  CASE op \in {"scopeValue", "scopeValueV2"} -> With(scopeValue(scope, value, op = "scopeValueV2"))
        [] op \in {"circle", "polygon"} -> With([scope EXCEPT !.areaType = op])
        [] scope.type # FIWARE_LOCATION_V2 -> msg
        [] op = "geometry" -> [With([scope EXCEPT !.areaType = areaTypeSet(value)]) EXCEPT !.coords = 0, !.pointNo = 0]
        [] op = "georel" -> [msg EXCEPT !.coords = 0, !.pointNo = 0]
        [] op = "georelValue" -> IF value \in {"maxDistance", "minDistance"} THEN msg ELSE With([scope EXCEPT !.georel = value])
        [] op = "coord" -> [msg EXCEPT !.coords = 0, !.pointNo = @ + 1]
        [] op = "coordValue" -> coordValue(msg, scope, value)

\* Mutant: a value is kept only for an attribute that has its name.
StoredByName(msg, entry, value) ==
  CASE entry.op = "null" -> msg
    [] entry.op = "push" -> AddTo(msg, entry.spine, entry.field, FreshPart(entry.part))
    [] entry.op = "set" -> Store(msg, entry.spine, entry.field, value)
    [] entry.op = "add" -> AddTo(msg, entry.spine, entry.field, value)
    [] entry.op = "code" -> Store(msg, entry.spine, "code", codeValue(value))
    [] entry.op = "value" -> IF entry.spine # <<>> /\ LastPart(msg, entry.spine).name = "" THEN msg
                             ELSE Store(Store(msg, entry.spine, "value", value), entry.spine, "valueType", "string")
    [] entry.op = "restriction" -> [msg EXCEPT !.restrictions = @ + 1]
    [] OTHER -> ScopeMember(msg, entry.op, value)

Stored(msg, entry, value) ==
  CASE entry.op = "null" -> msg
    [] entry.op = "push" -> AddTo(msg, entry.spine, entry.field, FreshPart(entry.part))
    [] entry.op = "set" -> Store(msg, entry.spine, entry.field, value)
    [] entry.op = "add" -> AddTo(msg, entry.spine, entry.field, value)
    [] entry.op = "code" -> Store(msg, entry.spine, "code", codeValue(value))
    [] entry.op = "value" -> Store(Store(msg, entry.spine, "value", value), entry.spine, "valueType", "string")
    [] entry.op = "restriction" -> [msg EXCEPT !.restrictions = @ + 1]
    [] OTHER -> ScopeMember(msg, entry.op, value)

\* A treat function
TreatFunction(msg, entry, value) ==
  LET accepted == Accepted(entry.accepts, value)
      flagged == IF entry.flag /\ ~accepted THEN [msg EXCEPT !.errorString = "invalid value"] ELSE msg
  IN  IF accepted \/ entry.store THEN Stored(flagged, entry, value) ELSE flagged

(***************************************************************************)
(* Compound values                                                         *)
(***************************************************************************)
CompoundNode(name, type, s, kids) == [name |-> name, type |-> type, s |-> s, kids |-> kids]

\* The children of a node one after another, in container.  ok is false once a string with a name is not allowed; it is
\* left out.  An element of an array makes a vector of its container, unless it is the empty string.
RECURSIVE eatCompound(_, _)
eatCompound(eaten, kids) ==
  IF kids = <<>> THEN eaten
  ELSE LET v == Head(kids)
           inner(type) == eatCompound([container |-> CompoundNode(IF v.name = "" THEN "item" ELSE v.name, type, "", <<>>),
                                       ok |-> eaten.ok], v.kids)
           string(name) == CompoundNode(name, "string", v.val, <<>>)
           Into(node, isVector) == [eaten EXCEPT !.container.kids = Append(@, node),
                                                 !.container.type = IF isVector THEN "vector" ELSE @]
           After == CASE v.name # "" /\ v.val # "" -> IF forbiddenChars(v.val) THEN [eaten EXCEPT !.ok = FALSE]
                                                      ELSE Into(string(v.name), FALSE)
                      [] v.val = "" /\ v.kids = <<>> -> Into(string(IF v.name = "" THEN "item" ELSE v.name), FALSE)
                      [] v.val = "" -> [Into(inner("object").container, v.name = "") EXCEPT !.ok = inner("object").ok]
                      [] OTHER -> Into(string("item"), TRUE)
       IN  eatCompound(After, Tail(kids))

\* The attribute that a compound value belongs to: the last one pushed (lastContextAttribute), or the message itself
\* when it is that of one attribute.
AttributeSpine(request) ==
  CASE request = "UpdateContext" -> <<"contextElements", "attributes">>
    [] request \in {"RtUpdateContextResponse", "RtQueryContextResponse", "NotifyContext"} -> <<"contextResponses", "attributes">>
    [] request = "UpdateContextAttribute" -> <<>>
    [] OTHER -> <<"attributes">>

\* payloadWord is that of the request of the client, also when it is the answer of a provider that is read: if the
\* client's is about one attribute, the compound values of the provider are stored where nobody looks.
compoundValueEnd(st, root) ==
  LET status == CompoundCheck(root)
      ci == IF status = "OK" THEN st.ci ELSE [st.ci EXCEPT !.httpStatusCode = SccBadRequest, !.answer = "compound value error"]
      kept == st.request = "UpdateContextAttribute" \/ ci.payloadWord # "updateContextAttributeRequest"
  IN  [st EXCEPT !.ci = ci, !.msg = IF kept THEN Store(@, AttributeSpine(st.request), "compound", <<root>>) ELSE @]

(***************************************************************************)
(* The walk.  st is [ci, msg, request, out]: out is "OK" or the reason, and*)
(* the first reason ends it.                                               *)
(***************************************************************************)
\* The singular that an element of an array is called by; "?" where no parse vector knows it
getArrayElementName(path) ==
  LET name == IF path = <<>> THEN "" ELSE path[Len(path)]
      singular == "attributes" :> "attribute" @@ "metadatas" :> "metadata" @@ "contextElements" :> "contextElement"
                  @@ "contextResponses" :> "contextResponse" @@ "domainMetadatas" :> "domainMetadata" @@ "entities" :> "entity"
                  @@ "contextRegistrations" :> "contextRegistration" @@ "scopes" :> "scope" @@ "vertices" :> "vertice"
                  @@ "contextRegistrationResponses" :> "contextRegistrationResponse" @@ "notifyConditions" :> "notifyCondition"
                  @@ "condValues" :> "condValue" @@ "georel" :> "geore" @@ "coords" :> "coord" @@ "coord" :> "coor"
  IN  IF name \in DOMAIN singular THEN singular[name] ELSE "?"

compoundRootV ==
  {<<"contextElements", "contextElement", "attributes", "attribute", "value">>, <<"attributes", "attribute", "value">>,
   <<"contextResponses", "contextResponse", "contextElement", "attributes", "attribute", "value">>, <<"value">>}

isScopeValue(path) == Len(path) > 2 /\ SubSeq(path, Len(path) - 2, Len(path)) = <<"scopes", "scope", "value">>

Stop(st, reason) == [st EXCEPT !.out = reason]
BadRequest(st, answer) == [st EXCEPT !.ci.httpStatusCode = SccBadRequest, !.ci.answer = answer]

\* The value is looked at before the path is, but for the value of a scope: its check() does it.
treat(st, path, value) ==
  CASE ~isScopeValue(path) /\ forbiddenChars(value) -> [treated |-> FALSE, st |-> BadRequest(st, "Illegal value for JSON field")]
    [] path \in DOMAIN jsonRequest[st.request].parseVector ->
         [treated |-> TRUE, st |-> [st EXCEPT !.msg = TreatFunction(@, jsonRequest[st.request].parseVector[path], value)]]
    [] OTHER -> [treated |-> FALSE, st |-> st]

CompoundEaten(st, eaten) ==
  compoundValueEnd(IF eaten.ok THEN st ELSE BadRequest(st, "Illegal value for JSON field"), eaten.container)

OrStatus(st) == IF st.ci.httpStatusCode # SccOk THEN Stop(st, st.ci.answer) ELSE st

UnknownField(st) == Stop(st, IF st.ci.answer = "" THEN "unknown field" ELSE st.ci.answer)

RECURSIVE ParseNodes(_, _, _)

\* A node whose path and value have been treated
TreatedNode(node, path, tr) ==
  IF path \in compoundRootV /\ node.val = "" /\ node.kids # <<>>
  THEN OrStatus(CompoundEaten(tr.st, eatCompound([container |-> CompoundNode("", "object", "", <<>>), ok |-> TRUE], node.kids)))
  ELSE IF ~tr.treated
  THEN UnknownField([tr.st EXCEPT !.ci.httpStatusCode = SccBadRequest])
  ELSE ParseNodes(tr.st, node.kids, path)

\* An object may not have a member that is called as an element of an array would be.
ParseNode(st, node, path) ==
  IF node.name # "" /\ node.name = getArrayElementName(path) THEN Stop(st, "exception")
  ELSE LET at == Append(path, IF node.name = "" THEN getArrayElementName(path) ELSE node.name)
       IN  TreatedNode(node, at, treat(st, at, node.val))

ParseNodes(st, nodes, path) ==
  IF nodes = <<>> \/ st.out # "OK" THEN st ELSE ParseNodes(ParseNode(st, Head(nodes), path), Tail(nodes), path)

jsonParse(st, text) ==
  LET tree == read_json(text)
  IN  IF ~tree.ok THEN Stop(st, "exception") ELSE ParseNodes(st, tree.kids, <<>>)

(***************************************************************************)
(* A payload                                                               *)
(***************************************************************************)
RequestCheck(ci, request, msg) ==
  CASE request = "UpdateContext" -> UpdateContextRequestCheck(ci, msg)
    [] request = "QueryContext" -> QueryContextRequestCheck(msg)
    [] request = "RtUpdateContextResponse" -> UpdateContextResponseCheck(ci, msg)
    [] request = "RtQueryContextResponse" -> QueryContextResponseCheck(ci, msg)
    [] request = "NotifyContext" -> NotifyContextRequestCheck(ci, msg)
    [] request = "SubscribeContext" -> SubscribeContextRequestCheck(msg)
    [] request = "UpdateContextSubscription" -> UpdateContextSubscriptionRequestCheck(msg)
    [] request = "UnsubscribeContext" -> UnsubscribeContextRequestCheck(msg)
    [] request = "AppendContextElement" -> AppendContextElementRequestCheck(ci, msg)
    [] request = "UpdateContextElement" -> UpdateContextElementRequestCheck(ci, msg)
    [] request = "UpdateContextAttribute" -> UpdateContextAttributeRequestCheck(ci, msg)
    [] request = "RegisterContext" -> RegisterContextRequestCheck(ci, msg)
    [] request = "RegisterProvider" -> RegisterProviderRequestCheck(ci, msg)
    [] request = "DiscoverContextAvailability" -> DiscoverContextAvailabilityRequestCheck(msg)
    [] request = "SubscribeContextAvailability" -> SubscribeContextAvailabilityRequestCheck(msg)
    [] request = "UpdateContextAvailabilitySubscription" -> UpdateContextAvailabilitySubscriptionRequestCheck(msg)
    [] request = "UnsubscribeContextAvailability" -> UnsubscribeContextAvailabilityRequestCheck(msg)
    [] request = "NotifyContextAvailability" -> NotifyContextAvailabilityRequestCheck(ci, msg)

(***************************************************************************)
(* The answer to a payload that is refused                                 *)
(***************************************************************************)
NoIds == [subscriptionId |-> Zeros, registrationId |-> Zeros, duration |-> "", throttling |-> ""]

\* The response of the request that says nothing but the status and ids
ResponseText(ci, request, ids, status) ==
  LET none == status @@ [id |-> "", contextResponses |-> <<>>, contextRegistrationResponses |-> <<>>]
  IN  CASE request = "RegisterContext" -> RegisterContextResponseRender(status @@ ids)
        [] request \in {"DiscoverContextAvailability", "RegisterProvider"} -> DiscoverContextAvailabilityResponseRender(none)
        [] request = "SubscribeContextAvailability" -> SubscribeContextAvailabilityResponseRender(status @@ ids)
        [] request = "UpdateContextAvailabilitySubscription" -> UpdateContextAvailabilitySubscriptionResponseRender(status @@ ids)
        [] request = "UnsubscribeContext" -> UnsubscribeContextResponseRender(status @@ ids)
        [] request = "UnsubscribeContextAvailability" -> UnsubscribeContextAvailabilityResponseRender(status @@ ids)
        [] request = "NotifyContext" -> NotifyContextResponseRender(status)
        [] request = "NotifyContextAvailability" -> NotifyContextAvailabilityResponseRender(status)
        [] request \in {"QueryContext", "RtQueryContextResponse"} -> QueryContextResponseRender(ci, none)
        [] request \in {"UpdateContext", "RtUpdateContextResponse"} -> UpdateContextResponseRender(ci, none)
        [] request = "SubscribeContext" -> SubscribeContextResponseRender(status @@ ids)
        [] request = "UpdateContextSubscription" -> UpdateContextSubscriptionResponseRender(status @@ ids)
        [] request = "AppendContextElement" -> AppendContextElementResponseRender(ci, "IndividualContextEntity", none)
        [] request = "UpdateContextElement" -> UpdateContextElementResponseRender(ci, "IndividualContextEntity", none)
        [] request = "UpdateContextAttribute" -> Object(StatusCodeRender("statusCode", status, FALSE))

\* check() answers with what the request says of itself; a discovery without entities is one that finds nothing.
CheckReply(st, reason) ==
  LET echoed == CASE st.request = "RegisterContext" -> {"duration", "registrationId"}
                  [] st.request \in {"UpdateContextSubscription", "UpdateContextAvailabilitySubscription",
                                     "UnsubscribeContextAvailability"} -> {"subscriptionId"}
                  [] OTHER -> {}
      code == IF st.request = "DiscoverContextAvailability" /\ reason = "" THEN SccContextElementNotFound ELSE SccBadRequest
  IN  ResponseText(st.ci, st.request, [id \in DOMAIN NoIds |-> IF id \in echoed THEN st.msg[id] ELSE NoIds[id]], StatusFill(code, reason))

\* The requests whose name is known to tagGet(): the others are answered with an OrionError.
Tagged == {"RegisterContext", "DiscoverContextAvailability", "SubscribeContextAvailability", "UpdateContextAvailabilitySubscription",
           "UnsubscribeContextAvailability", "NotifyContextAvailability", "QueryContext", "SubscribeContext",
           "UpdateContextSubscription", "UnsubscribeContext", "UpdateContext", "NotifyContext"}

\* Mutant: the connection keeps the status of the error.
ErrorReplyKeepsStatus(ci, request, tagged, details) ==
  [text |-> IF tagged THEN ResponseText(ci, request, NoIds, StatusFill(SccBadRequest, details))
            ELSE OrionErrorRender(ci, StatusFill(SccBadRequest, details)),
   ci |-> ci]

\* The status of the connection is 200 afterwards: the error is in the reply.  But the OrionError of version 2 sets it again.
restErrorReplyGet(ci, request, tagged, details) ==
  [text |-> IF tagged THEN ResponseText([ci EXCEPT !.httpStatusCode = SccOk], request, NoIds, StatusFill(SccBadRequest, details))
            ELSE OrionErrorRender(ci, StatusFill(SccBadRequest, details)),
   ci |-> [ci EXCEPT !.httpStatusCode = IF ~tagged /\ ci.apiVersion = "v2" THEN SccBadRequest ELSE SccOk]]

Refused(st, tagged, reason) ==
  LET reply == restErrorReplyGet(st.ci, st.request, tagged, reason)
  IN  [res |-> reason, msg |-> st.msg, ci |-> reply.ci, reply |-> reply.text]

\* The keyword of a notification of availability is not what tagGet() knows it by.
Parsed(st) ==
  CASE st.out = "exception" -> Refused(st, st.request \in Tagged \ {"NotifyContextAvailability"}, "JSON Parse Error")
    [] st.out \notin {"OK", "exception"} -> Refused(st, st.request \in Tagged, st.out)
    [] OTHER -> LET res == RequestCheck(st.ci, st.request, st.msg)
                IN  [res |-> res, msg |-> st.msg, ci |-> st.ci, reply |-> IF res = "OK" THEN <<>> ELSE CheckReply(st, res)]

\* res is "OK", or the reason why the payload is refused with reply
jsonTreat(text, ci, request) ==
  LET st == [ci |-> ci, msg |-> jsonRequest[request].init, request |-> request, out |-> "OK"]
  IN  CASE text = <<>> -> [res |-> "OK", msg |-> st.msg, ci |-> ci, reply |-> <<>>]
        [] text # <<>> /\ ~jsonRequestGet(request, ci.method) -> Refused(st, FALSE, "no request treating object found")
        [] OTHER -> Parsed(jsonParse(st, text))

=============================================================================
