----------------------------- MODULE NgsiRender -----------------------------
(***************************************************************************)
(* What the broker writes: the render() methods of the NGSIv1 messages     *)
(* (lib/ngsi, lib/ngsi9, lib/ngsi10, lib/convenience, lib/orionTypes) that *)
(* are called outside the tests.  Each returns a text of module Json.      *)
(*                                                                         *)
(* A message is a record of what its class holds:                          *)
(*   entity      [id, type, isPattern]                                     *)
(*   metadata    [name, type, valueType, value]                            *)
(*   attribute   [name, type, valueType, value, compound, metadatas]       *)
(*   element     an entity with attributeDomainName, attributes, metadatas *)
(*   status      [code, reasonPhrase, details]                             *)
(* A value keeps its valueType ("string", "number", "bool" or "none") and  *)
(* the text of its value; that of a number has all the digits of the       *)
(* double.  A compound value is <<>> (compoundValueP is NULL) or <<root>>, *)
(* a node being [name, type, s, kids].                                     *)
(*                                                                         *)
(* ci is what the methods read of ConnectionInfo: apiVersion and the URI   *)
(* parameters attributeFormat and collapse.                                *)
(***************************************************************************)
EXTENDS Json

CONSTANTS
  Malformed,      \* the strings that are no duration, no URL, no identifier of 24 hexadecimal digits and no coordinate
  SixDigits,      \* the numbers that six significant digits do not tell, with what an ostringstream makes of them
  isodate2str     \* what isodate2str() makes of the numbers of seconds, each written in decimals

Zeros == "000000000000000000000000"
DATE_TYPE == "DateTime"

SccNone == "0"
SccOk == "200"
SccBadRequest == "400"
SccContextElementNotFound == "404"
SccReceiverInternalError == "500"

StatusCode(code, reasonPhrase, details) == [code |-> code, reasonPhrase |-> reasonPhrase, details |-> details]

httpStatusCodeString(code) ==
  CASE code = SccOk -> "OK"
    [] code = SccBadRequest -> "Bad Request"
    [] code = SccContextElementNotFound -> "No context element found"
    [] code = SccReceiverInternalError -> "Internal Server Error"
    [] OTHER -> "Undefined"

StatusFill(code, details) == StatusCode(code, httpStatusCodeString(code), details)
NoStatus == StatusCode(SccNone, "", "")

(***************************************************************************)
(* Compound values                                                         *)
(***************************************************************************)
toString(number) == IF number \in DOMAIN SixDigits THEN SixDigits[number] ELSE number

\* A number, a boolean or null
LiteralOf(node) == CASE node.type = "number" -> toString(node.s) [] node.type = "none" -> "null" [] OTHER -> node.s

\* The root of the tree is its own container: it writes its children only, since its owner has
\* written the key and the bracket.  A child of a vector has no key.
RECURSIVE CompoundRender(_, _, _)
CompoundRender(node, inVector, comma) ==
  LET Kids == RenderAll(LAMBDA kid, notLast : CompoundRender(kid, node.type = "vector", notLast), node.kids, 1)
  IN  CASE node.type = "string" -> valueTag1(node.name, node.s, comma, inVector, FALSE)
        [] node.type \in {"number", "bool", "none"} -> valueTag1(node.name, LiteralOf(node), comma, inVector, TRUE)
        [] OTHER -> startTag2(node.name, node.type = "vector", ~inVector) \o Kids \o endTag(comma, node.type = "vector")

\* As above, but JSON_STR() does not escape
RECURSIVE CompoundToJson(_, _, _)
CompoundToJson(node, inVector, comma) ==
  LET Kids == RenderAll(LAMBDA kid, notLast : CompoundToJson(kid, node.type = "vector", notLast), node.kids, 1)
      key == IF inVector THEN <<>> ELSE JSON_PROP(node.name)
  IN  CASE node.type = "string" -> key \o JSON_STR(node.s) \o Comma(comma)
        [] node.type \in {"number", "bool", "none"} -> key \o Scalar(LiteralOf(node), TRUE) \o Comma(comma)
        [] OTHER -> key \o startTag2("", node.type = "vector", FALSE) \o Kids \o endTag(comma, node.type = "vector")

\* CompoundValueNode::render() of the root
RootRender(ci, root) ==
  RenderAll(LAMBDA kid, notLast :
              IF ci.apiVersion = "v2" THEN CompoundToJson(kid, root.type = "vector", notLast)
                                      ELSE CompoundRender(kid, root.type = "vector", notLast),
            root.kids, 1)

(***************************************************************************)
(* The parts of the messages                                               *)
(***************************************************************************)
\* htmlEscape() is the only escape here.
EntityIdRender(entity, comma, isInVector) ==
  (IF isInVector THEN startTag1("", FALSE) ELSE <<>>)
  \o JSON_VALUE("type", escaped(entity.type)) \o Comma(TRUE) \o JSON_VALUE("isPattern", escaped(entity.isPattern)) \o Comma(TRUE)
  \o JSON_VALUE("id", escaped(entity.id))
  \o (IF isInVector THEN endTag(FALSE, FALSE) ELSE <<>>) \o Comma(comma)

\* A vector without elements is not rendered, and neither is its comma.
VectorRender(key, render(_, _), vec, comma) ==
  IF vec = <<>> THEN <<>> ELSE startTag2(key, TRUE, TRUE) \o RenderAll(render, vec, 1) \o endTag(comma, TRUE)

\* An optional string: nothing when it is empty
StringRender(key, s, comma) == IF s = "" THEN <<>> ELSE Tag(key, s, comma)
AttributeDomainNameRender(s, comma) == StringRender("attributeDomainName", s, comma)
AttributeExpressionRender(s, comma) == StringRender("attributeExpression", s, comma)
OriginatorRender(s, comma) == StringRender("originator", s, comma)
ProvidingApplicationRender(s, comma) == StringRender("providingApplication", s, comma)
ThrottlingRender(s, comma) == StringRender("throttling", s, comma)
UpdateActionTypeRender(s, comma) == StringRender("updateAction", s, comma)

EntityIdVectorRender(vec, comma) == VectorRender("entities", LAMBDA e, c : EntityIdRender(e, c, TRUE), vec, comma)

AttributeListRender(vec, comma) ==
  VectorRender("attributes", LAMBDA name, c : valueTag1("attribute", name, c, TRUE, FALSE), vec, comma)

\* The string of the value, whatever its type is: that of a number or of a boolean is empty.
MetadataRender(md, comma) ==
  startTag1("", FALSE) \o Tag("name", md.name, TRUE) \o Tag("type", md.type, TRUE)
  \o Tag("value", IF md.valueType = "string" THEN md.value ELSE "", FALSE) \o endTag(comma, FALSE)

MetadataVectorRender(vec, comma) == VectorRender("metadatas", MetadataRender, vec, comma)

\* The object of a status, and the status under its key
StatusCodeBody(status) ==
  LET shown == IF status.code # SccNone THEN status
               ELSE StatusFill(SccReceiverInternalError, "ZERO code set to 500")
  IN  startTag1("", FALSE) \o Tag("code", shown.code, TRUE)
      \o Tag("reasonPhrase", shown.reasonPhrase, shown.details # "")
      \o StringRender("details", shown.details, FALSE) \o endTag(FALSE, FALSE)

StatusCodeRender(keyName, status, comma) == Key(keyName) \o StatusCodeBody(status) \o Comma(comma)

\* What is between the quotes, or without quotes: valueType and type decide.
Quoted(attr) == attr.valueType = "string" \/ (attr.valueType = "number" /\ attr.type = DATE_TYPE)
EffectiveValue(attr) ==
  CASE attr.valueType = "number" -> IF attr.type = DATE_TYPE THEN isodate2str[attr.value] ELSE toString(attr.value)
    [] attr.valueType = "none" -> "null"
    [] OTHER -> attr.value

CompoundValue(ci, attr, comma) ==
  LET isCompoundVector == attr.compound[1].type = "vector"
  IN  startTag2("value", isCompoundVector, TRUE) \o RootRender(ci, attr.compound[1]) \o endTag(comma, isCompoundVector)

\* The answer to an update has no values: the string of the value is empty, the quotes are kept or left out as for
\* the value itself.
AttributeRender(ci, request, attr, comma) ==
  startTag1("", FALSE) \o Tag("name", attr.name, TRUE) \o Tag("type", attr.type, TRUE)
  \o (IF attr.compound = <<>>
      THEN valueTag2("value", IF request = "RtUpdateContextResponse" THEN "" ELSE EffectiveValue(attr),
                     attr.metadatas # <<>>, ~Quoted(attr))
      ELSE CompoundValue(ci, attr, attr.metadatas # <<>>))
  \o MetadataVectorRender(attr.metadatas, FALSE) \o endTag(comma, FALSE)

renderAsJsonObject(ci, request, attr, comma) ==
  startTag2(attr.name, FALSE, TRUE) \o Tag("type", attr.type, TRUE)
  \o (IF attr.compound = <<>>
      THEN valueTag1("value", IF request = "RtUpdateContextResponse" THEN "" ELSE EffectiveValue(attr),
                     attr.metadatas # <<>>, FALSE, ~Quoted(attr))
      ELSE CompoundValue(ci, attr, attr.metadatas # <<>>))
  \o MetadataVectorRender(attr.metadatas, FALSE) \o endTag(comma, FALSE)

renderAsNameString(attr, comma) == JSON_STR(attr.name) \o Comma(comma)

\* Attributes whose name has been seen are removed; the one that takes the place of a removed one is not looked at.
RECURSIVE WithoutCopies(_, _, _)
WithoutCopies(vec, ix, added) ==
  IF ix > Len(vec) THEN vec
  ELSE IF vec[ix].name \notin added THEN WithoutCopies(vec, ix + 1, added \cup {vec[ix].name})
  ELSE WithoutCopies(SubSeq(vec, 1, ix - 1) \o SubSeq(vec, ix + 1, Len(vec)), ix + 1, added)

ContextAttributeVectorRender(ci, request, vec, comma, attrsAsName) ==
  LET kept == WithoutCopies(vec, 1, {})
  IN  CASE vec = <<>> -> <<>>
        [] ci.attributeFormat = "object" /\ ~attrsAsName ->
             startTag2("attributes", FALSE, TRUE)
             \o RenderAll(LAMBDA a, c : renderAsJsonObject(ci, request, a, c), kept, 1) \o endTag(comma, FALSE)
        [] attrsAsName ->
             VectorRender("attributes", renderAsNameString, IF ci.attributeFormat = "object" THEN kept ELSE vec, comma)
        [] OTHER ->
             VectorRender("attributes", LAMBDA a, c : AttributeRender(ci, request, a, c), vec, comma)

\* Mutant: the attributes always put their comma.
ContextElementCommas(ci, request, ce, comma) ==
  startTag2("contextElement", FALSE, request # "UpdateContext")
  \o EntityIdRender(ce, ce.attributeDomainName # "" \/ ce.attributes # <<>> \/ ce.metadatas # <<>>, FALSE)
  \o AttributeDomainNameRender(ce.attributeDomainName, ce.attributes # <<>> \/ ce.metadatas # <<>>)
  \o ContextAttributeVectorRender(ci, request, ce.attributes, TRUE, FALSE)
  \o MetadataVectorRender(ce.metadatas, FALSE) \o endTag(comma, FALSE)

\* The element of an update request is not named, that of every other message is.
ContextElementRender(ci, request, ce, comma) ==
  startTag2("contextElement", FALSE, request # "UpdateContext")
  \o EntityIdRender(ce, ce.attributeDomainName # "" \/ ce.attributes # <<>> \/ ce.metadatas # <<>>, FALSE)
  \o AttributeDomainNameRender(ce.attributeDomainName, ce.attributes # <<>> \/ ce.metadatas # <<>>)
  \o ContextAttributeVectorRender(ci, request, ce.attributes, ce.metadatas # <<>>, FALSE)
  \o MetadataVectorRender(ce.metadatas, FALSE) \o endTag(comma, FALSE)

ContextElementVectorRender(ci, request, vec, comma) ==
  VectorRender("contextElements", LAMBDA ce, c : ContextElementRender(ci, request, ce, c), vec, comma)

\* A response is an element with a status.
ContextElementResponseRender(ci, request, cer, comma) ==
  startTag1("", FALSE) \o ContextElementRender(ci, request, cer, TRUE)
  \o StatusCodeRender("statusCode", cer, FALSE) \o endTag(comma, FALSE)

ContextElementResponseVectorRender(ci, request, vec, comma) ==
  VectorRender("contextResponses", LAMBDA r, c : ContextElementResponseRender(ci, request, r, c), vec, comma)

ContextRegistrationAttributeRender(attr, comma) ==
  startTag1("", FALSE) \o Tag("name", attr.name, TRUE) \o Tag("type", attr.type, TRUE)
  \o Tag("isDomain", attr.isDomain, attr.metadatas # <<>>) \o MetadataVectorRender(attr.metadatas, FALSE) \o endTag(comma, FALSE)

ContextRegistrationAttributeVectorRender(vec, comma) == VectorRender("attributes", ContextRegistrationAttributeRender, vec, comma)

\* Every part but the last puts its comma: providingApplication is never empty in a registration that was accepted.
ContextRegistrationRender(reg, comma) ==
  startTag1("contextRegistration", TRUE) \o EntityIdVectorRender(reg.entities, TRUE)
  \o ContextRegistrationAttributeVectorRender(reg.attributes, TRUE)
  \o MetadataVectorRender(reg.metadatas, TRUE)
  \o ProvidingApplicationRender(reg.providingApplication, FALSE) \o endTag(comma, FALSE)

\* reg.code etc. is the errorCode of the response
ContextRegistrationResponseRender(reg, comma) ==
  startTag1("", FALSE) \o ContextRegistrationRender(reg, reg.code # SccNone)
  \o (IF reg.code = SccNone THEN <<>> ELSE StatusCodeRender("errorCode", reg, FALSE)) \o endTag(comma, FALSE)

ContextRegistrationResponseVectorRender(vec, comma) ==
  VectorRender("contextRegistrationResponses", ContextRegistrationResponseRender, vec, comma)

\* The messages where the identifier is mandatory show zeros when there is none.
SubscriptionIdRender(id, comma) == Tag("subscriptionId", IF id = "" THEN Zeros ELSE id, comma)
RegistrationIdRender(id, comma) == Tag("registrationId", IF id = "" THEN Zeros ELSE id, comma)

ScopeRender(scope, comma) ==
  startTag1("", FALSE) \o Tag("type", scope.type, TRUE) \o Tag("value", scope.value, FALSE) \o endTag(comma, FALSE)

ScopeVectorRender(vec, comma) == VectorRender("scope", ScopeRender, vec, comma)

\* restrictions counts how often the restriction was given
RestrictionRender(msg) ==
  IF msg.restrictions = 0 THEN <<>>
  ELSE startTag1("restriction", TRUE)
       \o AttributeExpressionRender(msg.attributeExpression, msg.scopes # <<>>)
       \o ScopeVectorRender(msg.scopes, FALSE) \o endTag(FALSE, FALSE)

\* Duration::set() has parsed the string: one that is no duration is not rendered.
DurationRender(duration, comma) == IF duration \in Malformed THEN <<>> ELSE StringRender("duration", duration, comma)

SubscribeResponseRender(msg) ==
  startTag1("subscribeResponse", TRUE)
  \o SubscriptionIdRender(msg.subscriptionId, msg.duration # "" \/ msg.throttling # "")
  \o DurationRender(msg.duration, msg.throttling # "") \o ThrottlingRender(msg.throttling, FALSE)
  \o endTag(FALSE, FALSE)

SubscribeErrorRender(request, msg) ==
  startTag1("subscribeError", TRUE)
  \o (IF request = "UpdateContextSubscription" \/ msg.subscriptionId \notin {"", Zeros}
      THEN SubscriptionIdRender(msg.subscriptionId, TRUE) ELSE <<>>)
  \o StatusCodeRender("errorCode", msg, FALSE) \o endTag(FALSE, FALSE)

(***************************************************************************)
(* The messages                                                            *)
(***************************************************************************)
Object(text) == startTag1("", FALSE) \o text \o endTag(FALSE, FALSE)

UpdateContextRequestRender(ci, msg) ==
  Object(ContextElementVectorRender(ci, "UpdateContext", msg.contextElements, TRUE)
         \o UpdateActionTypeRender(msg.updateAction, FALSE))

QueryContextRequestRender(msg) ==
  Object(EntityIdVectorRender(msg.entities, msg.attributes # <<>> \/ msg.restrictions # 0)
         \o AttributeListRender(msg.attributes, msg.restrictions # 0)
         \o RestrictionRender(msg))

NotifyContextRequestRender(ci, msg) ==
  Object(SubscriptionIdRender(msg.subscriptionId, TRUE)
         \o OriginatorRender(msg.originator, msg.contextResponses # <<>>)
         \o ContextElementResponseVectorRender(ci, "NotifyContext", msg.contextResponses, FALSE))

NotifyContextAvailabilityRequestRender(msg) ==
  Object(SubscriptionIdRender(msg.subscriptionId, TRUE)
         \o ContextRegistrationResponseVectorRender(msg.contextRegistrationResponses, FALSE))

UpdateContextResponseRender(ci, msg) ==
  Object(IF msg.code \notin {SccNone, SccOk} THEN StatusCodeRender("errorCode", msg, FALSE)
         ELSE IF msg.contextResponses = <<>>
         THEN StatusCodeRender("errorCode", StatusFill(SccContextElementNotFound, msg.details), FALSE)
         ELSE ContextElementResponseVectorRender(ci, "RtUpdateContextResponse", msg.contextResponses, FALSE))

\* An error code of 200 or none at all is rendered when there is nothing else or when it has details; StatusCode::render()
\* turns a missing code into 500, unless this method has made it 200.
QueryContextResponseRender(ci, msg) ==
  LET errorCodeRendered == msg.code \notin {SccNone, SccOk} \/ msg.contextResponses = <<>> \/ msg.details # ""
      errorCode == IF msg.code = SccNone /\ msg.contextResponses # <<>> THEN [msg EXCEPT !.code = SccOk] ELSE msg
  IN  Object(ContextElementResponseVectorRender(ci, "QueryContext", msg.contextResponses, errorCodeRendered)
             \o (IF errorCodeRendered THEN StatusCodeRender("errorCode", errorCode, FALSE) ELSE <<>>))

SubscribeContextResponseRender(msg) ==
  Object(IF msg.code = SccNone THEN SubscribeResponseRender(msg) ELSE SubscribeErrorRender("SubscribeContext", msg))

UpdateContextSubscriptionResponseRender(msg) ==
  Object(IF msg.code = SccNone THEN SubscribeResponseRender(msg) ELSE SubscribeErrorRender("UpdateContextSubscription", msg))

UnsubscribeContextResponseRender(msg) ==
  Object(SubscriptionIdRender(msg.subscriptionId, TRUE) \o StatusCodeRender("statusCode", msg, FALSE))

UnsubscribeContextAvailabilityResponseRender(msg) ==
  Object(SubscriptionIdRender(msg.subscriptionId, TRUE) \o StatusCodeRender("statusCode", msg, FALSE))

NotifyContextResponseRender(msg) == Object(StatusCodeRender("responseCode", msg, FALSE))
NotifyContextAvailabilityResponseRender(msg) == Object(StatusCodeRender("responseCode", msg, FALSE))

RegisterContextResponseRender(msg) ==
  LET errorCodeRendered == msg.code \notin {SccNone, SccOk}
  IN  Object(DurationRender(msg.duration, TRUE)
             \o RegistrationIdRender(msg.registrationId, errorCodeRendered)
             \o (IF errorCodeRendered THEN StatusCodeRender("errorCode", msg, FALSE) ELSE <<>>))

\* Nothing found and no error: an internal error is reported.
DiscoverContextAvailabilityResponseRender(msg) ==
  LET errorCode == IF msg.code = SccNone /\ msg.contextRegistrationResponses = <<>>
                   THEN StatusFill(SccReceiverInternalError, "Both the error-code structure and the response vector were empty")
                   ELSE msg
  IN  Object(ContextRegistrationResponseVectorRender(msg.contextRegistrationResponses, msg.code # SccNone)
             \o (IF errorCode.code # SccNone THEN StatusCodeRender("errorCode", errorCode, FALSE) ELSE <<>>))

SubscribeContextAvailabilityResponseRender(msg) ==
  Object(SubscriptionIdRender(msg.subscriptionId, msg.duration # "" \/ msg.code # SccNone)
         \o DurationRender(msg.duration, msg.code # SccNone)
         \o (IF msg.code = SccNone THEN <<>> ELSE StatusCodeRender("errorCode", msg, FALSE)))

UpdateContextAvailabilitySubscriptionResponseRender(msg) ==
  Object(SubscriptionIdRender(msg.subscriptionId, msg.duration # "" \/ msg.code # SccNone)
         \o DurationRender(msg.duration, msg.code # SccNone)
         \o (IF msg.code = SccNone THEN <<>> ELSE StatusCodeRender("errorCode", msg, FALSE)))

(***************************************************************************)
(* The answers of the convenience operations                               *)
(***************************************************************************)
ContextAttributeResponseRender(ci, request, car) ==
  Object(ContextAttributeVectorRender(ci, request, car.attributes, TRUE, FALSE) \o StatusCodeRender("statusCode", car, FALSE))

\* No comma is put between the elements.
ContextAttributeResponseVectorRender(ci, request, vec) ==
  VectorRender("contextResponses", LAMBDA car, c : ContextAttributeResponseRender(ci, request, car), vec, FALSE)

\* The comma after the entity counts on the vector: fill() leaves it empty only with an error code.
AppendContextElementResponseRender(ci, request, msg) ==
  Object(IF msg.code \notin {SccNone, SccOk} THEN StatusCodeRender("errorCode", msg, FALSE)
         ELSE (IF msg.id = "" THEN <<>> ELSE EntityIdRender(msg, TRUE, FALSE))
              \o ContextAttributeResponseVectorRender(ci, request, msg.contextResponses))

UpdateContextElementResponseRender(ci, request, msg) ==
  Object(IF msg.code \notin {SccNone, SccOk} THEN StatusCodeRender("errorCode", msg, FALSE)
         ELSE ContextAttributeResponseVectorRender(ci, request, msg.contextResponses))

\* The attributes of a type are rendered as names.
EntityTypeRender(ci, type, comma) ==
  LET noAttributes == ci.collapse = "true" \/ type.attributes = <<>>
  IN  startTag1("", FALSE) \o Tag("name", type.name, ~noAttributes)
      \o (IF noAttributes THEN <<>> ELSE ContextAttributeVectorRender(ci, "EntityTypes", type.attributes, FALSE, TRUE))
      \o endTag(comma, FALSE)

EntityTypeVectorRender(ci, vec, comma) == VectorRender("types", LAMBDA t, c : EntityTypeRender(ci, t, c), vec, comma)

EntityTypeVectorResponseRender(ci, msg) ==
  Object(EntityTypeVectorRender(ci, msg.types, TRUE) \o StatusCodeRender("statusCode", msg, FALSE))

EntityTypeResponseRender(ci, msg) ==
  Object(Tag("name", msg.name, TRUE) \o ContextAttributeVectorRender(ci, "EntityTypes", msg.attributes, TRUE, TRUE)
         \o StatusCodeRender("statusCode", msg, FALSE))

OrionErrorRender(ci, status) ==
  IF ci.apiVersion = "v2"
  THEN Object(Key("error") \o Scalar(status.reasonPhrase, FALSE) \o Comma(TRUE) \o Key("description") \o Scalar(status.details, FALSE))
  ELSE Object(StatusCodeRender("orionError", status, FALSE))

=============================================================================
