------------------------------- MODULE NgsiV2 -------------------------------
(***************************************************************************)
(* NGSIv2 payloads: what the broker reads (lib/jsonParseV2) and what it    *)
(* writes (the toJson() methods of lib/ngsi, and lib/apiTypesV2).          *)
(*                                                                         *)
(* A payload is what rapidjson made of it: [ok, tree], a node of the tree  *)
(* being [name, type, s, kids] with the type names of                      *)
(* jsonParseTypeNames.cpp; an element of an array has no name, and s is    *)
(* the text of a scalar, that of a number as it was sent.  A parse returns *)
(* a record with the field res, "OK" or the reason why the payload is      *)
(* refused, and what it has read.                                          *)
(*                                                                         *)
(* The entities, attributes, metadata and compound values are the records  *)
(* of NgsiRender: they are the same classes.  typeGiven is not kept, since *)
(* a type that is not given becomes DEFAULT_TYPE in every parse.           *)
(*                                                                         *)
(* ci is what the code reads of ConnectionInfo: apiVersion and the option  *)
(* keyValues.                                                              *)
(***************************************************************************)
EXTENDS NgsiCheck, StringFilter

CONSTANTS
  DateOf,         \* the strings that parse8601Time() understands, with their numbers of seconds
  DoubleOf,       \* the texts of numbers that are not those that NgsiRender has for them, with those
  Statements      \* the filters (strings q) of the payloads, with the items of each

DEFAULT_TYPE == "none"
V2 == [apiVersion |-> "v2"]

parse8601Time(s) == IF s \in DOMAIN DateOf THEN DateOf[s] ELSE -1
FilterIsValid(q) == parse(Statements[q]).ok

(***************************************************************************)
(* rapidjson                                                               *)
(***************************************************************************)
JsonNode(name, type, s, kids) == [name |-> name, type |-> type, s |-> s, kids |-> kids]

\* The type of a node that the automaton of module Json has read
RECURSIVE JsonTyped(_)
JsonTyped(node) ==
  JsonNode(node.name,
           CASE node.kind = "str" -> "String"
             [] node.kind = "{" -> "Object"
             [] node.kind = "[" -> "Array"
             [] node.val = "true" -> "True"
             [] node.val = "false" -> "False"
             [] node.val = "null" -> "Null"
             [] OTHER -> "Number",
           IF node.val = "null" THEN "" ELSE node.val,
           [ix \in DOMAIN node.kids |-> JsonTyped(node.kids[ix])])

Parse(text) ==
  LET st == ReadFrom(ReadStart, text, 1)
  IN  [ok |-> st.expect = "end", tree |-> JsonTyped(st.tree)]

HasMember(node, name) == \E ix \in DOMAIN node.kids : node.kids[ix].name = name
IsScalar(node) == node.type \notin {"Array", "Object"}

\* The members (or elements) one after another, up to the first that is refused
ForEach(member(_, _), start, node) ==
  FoldLeft(LAMBDA st, kid : IF st.res = "OK" THEN member(st, kid) ELSE st, start, node.kids)

Fails(st, reason) == [st EXCEPT !.res = reason]

\* A member that has to be a string: what it sets, or the reason
StringMember(st, kid, reason, then(_, _)) == IF kid.type # "String" THEN Fails(st, reason) ELSE then(st, kid.s)

(***************************************************************************)
(* Values and metadata                                                     *)
(***************************************************************************)
stringToCompoundType(type) ==
  CASE type = "String" -> "string"
    [] type = "Number" -> "number"
    [] type \in {"True", "False"} -> "bool"
    [] type = "Null" -> "none"
    [] type = "Object" -> "object"
    [] type = "Array" -> "vector"

GetDouble(s) == IF s \in DOMAIN DoubleOf THEN DoubleOf[s] ELSE s
ScalarOf(node) == IF node.type = "Number" THEN GetDouble(node.s) ELSE node.s

\* The nodes below the root of a compound value
RECURSIVE CompoundChild(_)
CompoundChild(node) ==
  [name |-> node.name, type |-> stringToCompoundType(node.type), s |-> ScalarOf(node),
   kids |-> [ix \in DOMAIN node.kids |-> CompoundChild(node.kids[ix])]]

\* The whole value
parseContextAttributeCompoundValue(node) == [CompoundChild(node) EXCEPT !.name = "TOP"]

\* A value of its own: the document is an object or an array.
parseContextAttributeCompoundValueStandAlone(tree) == [CompoundChild(tree) EXCEPT !.name = "TOP"]

SetScalar(x, node) == [x EXCEPT !.valueType = stringToCompoundType(node.type), !.value = ScalarOf(node)]

Metadata(name, type, valueType, value) == [name |-> name, type |-> type, valueType |-> valueType, value |-> value]

parseMetadataObject(md, node) ==
  LET Member(st, kid) ==
        CASE kid.name = "type" ->
               StringMember(st, kid, "invalid JSON type for attribute metadata type",
                            LAMBDA acc, s : [acc EXCEPT !.md.type = s])
          [] kid.name = "value" ->
               IF IsScalar(kid) THEN [st EXCEPT !.md = SetScalar(@, kid)]
                                ELSE Fails(st, "invalid JSON type for attribute metadata value")
          [] OTHER -> Fails(st, "invalid JSON field for attribute metadata")
  IN  ForEach(Member, [res |-> "OK", md |-> md], node)

\* A metadata is an object, or the bare value of one
parseMetadata(node) ==
  LET md == Metadata(node.name, DEFAULT_TYPE, "string", "")
  IN  CASE node.type = "Object" -> parseMetadataObject(md, node)
        [] node.type = "Array" -> [res |-> "invalid JSON type for attribute metadata value", md |-> md]
        [] OTHER -> [res |-> "OK", md |-> SetScalar(md, node)]

AddMetadata(st, parsed) == [st EXCEPT !.res = parsed.res, !.attr.metadatas = Append(@, parsed.md)]

parseMetadataVector(st, node) ==
  LET Member(acc, kid) == AddMetadata(acc, parseMetadata(kid))
  IN  IF node.type # "Object" THEN Fails(st, "metadata not a JSON object") ELSE ForEach(Member, st, node)

(***************************************************************************)
(* Attributes                                                              *)
(***************************************************************************)
NewAttribute(name) ==
  [name |-> name, type |-> DEFAULT_TYPE, valueType |-> "string", value |-> "", compound |-> <<>>, metadatas |-> <<>>]

\* Only the first compound value of an attribute makes a root.
SetValue(attr, node) ==
  IF IsScalar(node) THEN SetScalar(attr, node)
  ELSE [attr EXCEPT !.valueType = stringToCompoundType(node.type),
                    !.compound = IF @ = <<>> THEN <<parseContextAttributeCompoundValue(node)>> ELSE @]

\* The string of an attribute of type DateTime becomes a number.  A value that is no string has an empty one.
WithDate(st) ==
  IF st.res # "OK" \/ st.attr.type # DATE_TYPE THEN st
  ELSE IF st.attr.valueType # "string" \/ parse8601Time(st.attr.value) = -1 THEN Fails(st, "date has invalid format")
  ELSE [st EXCEPT !.attr.value = ToString(parse8601Time(@)), !.attr.valueType = "number"]

parseContextAttributeObject(attr, node) ==
  LET Member(st, kid) ==
        CASE kid.name = "type" ->
               StringMember(st, kid, "invalid JSON type for attribute type",
                            LAMBDA acc, s : [acc EXCEPT !.attr.type = s])
          [] kid.name = "value" -> [st EXCEPT !.attr = SetValue(@, kid)]
          [] kid.name = "metadata" -> parseMetadataVector(st, kid)
          [] OTHER -> Fails(st, "unrecognized property for context attribute")
  IN  WithDate(ForEach(Member, [res |-> "OK", attr |-> [attr EXCEPT !.valueType = "none"]], node))

WithName(parsed, name) == IF parsed.res = "OK" /\ name = "" THEN Fails(parsed, "no 'name' for ContextAttribute") ELSE parsed

\* A member of an entity.  With the option keyValues, an array is said to be an object, which nobody reads.
parseContextAttribute(ci, node) ==
  LET attr == NewAttribute(node.name)
  IN  WithName(CASE ci.keyValues ->
                      [res |-> "OK", attr |-> [SetValue(attr, node) EXCEPT !.valueType = IF @ = "vector" THEN "object" ELSE @]]
                 [] ~ci.keyValues /\ node.type # "Object" -> [res |-> "attribute must be a JSON object", attr |-> attr]
                 [] OTHER -> parseContextAttributeObject(attr, node),
               node.name)

\* A payload that has to be an object
Unreadable(doc) ==
  FirstError(<<Refuse(~doc.ok, "ParseError"), Refuse(doc.tree.type # "Object", "not a JSON object")>>)

\* A payload of its own, the name being in the URL
parseContextAttributeDocument(name, doc) ==
  IF Unreadable(doc) # "OK" THEN [res |-> Unreadable(doc), attr |-> NewAttribute(name)]
  ELSE parseContextAttributeObject(NewAttribute(name), doc.tree)

\* The value of an attribute as a payload of its own.  The attribute has no name.
parseAttributeValue(doc) ==
  LET attr == NewAttribute("")
  IN  CASE ~doc.ok -> [res |-> "ParseError", attr |-> attr]
        [] doc.ok /\ IsScalar(doc.tree) -> [res |-> "Neither JSON Object nor JSON Array for attribute::value", attr |-> attr]
        [] OTHER -> [res |-> "OK",
                     attr |-> [attr EXCEPT !.valueType = stringToCompoundType(doc.tree.type),
                                           !.compound = <<parseContextAttributeCompoundValueStandAlone(doc.tree)>>]]

(***************************************************************************)
(* Entities                                                                *)
(***************************************************************************)
NewEntity(type) == [id |-> "", type |-> type, isPattern |-> "", attributes |-> <<>>]

AddAttribute(st, parsed) == [st EXCEPT !.res = parsed.res, !.entity.attributes = Append(@, parsed.attr)]
AttributeMember(ci, st, kid) == AddAttribute(st, parseContextAttribute(ci, kid))

TypeMember(st, kid) ==
  StringMember(st, kid, "invalid JSON type for entity type", LAMBDA acc, s : [acc EXCEPT !.entity.type = s])

WithId(parsed, eidInURL) == IF parsed.res = "OK" /\ ~eidInURL /\ parsed.entity.id = "" THEN Fails(parsed, "empty entity id") ELSE parsed

\* The payload of POST /v2/entities, and (eidInURL) of the requests on one entity
parseEntity(ci, doc, eidInURL) ==
  LET early == FirstError(<<
        Unreadable(doc),
        Refuse(~eidInURL /\ ~HasMember(doc.tree, "id"), "no entity id specified"),
        Refuse(eidInURL /\ HasMember(doc.tree, "id"), "entity id specified in payload"),
        Refuse(eidInURL /\ HasMember(doc.tree, "type"), "entity type specified in payload"),
        Refuse(doc.tree.kids = <<>>, "empty payload")>>)
      Member(st, kid) ==
        CASE kid.name = "id" ->
               StringMember(st, kid, "invalid JSON type for entity id", LAMBDA acc, s : [acc EXCEPT !.entity.id = s])
          [] kid.name = "type" -> TypeMember(st, kid)
          [] OTHER -> AttributeMember(ci, st, kid)
  IN  WithId(ForEach(Member, [res |-> early, entity |-> NewEntity(DEFAULT_TYPE)], doc.tree), eidInURL)

\* An entity of a batch.  A type that is not given stays empty.
parseEntityObject(ci, node, attrsAllowed) ==
  LET early == FirstError(<<
        Refuse(node.type # "Object", "entity is not a JSON object"),
        Refuse(HasMember(node, "id") /\ HasMember(node, "idPattern"), "both /id/ and /idPattern/ present"),
        Refuse(~HasMember(node, "id") /\ ~HasMember(node, "idPattern"), "nor /id/ nor /idPattern/ present")>>)
      Member(st, kid) ==
        CASE kid.name = "id" ->
               StringMember(st, kid, "invalid JSON type for entity id", LAMBDA acc, s : [acc EXCEPT !.entity.id = s])
          [] kid.name = "idPattern" ->
               StringMember(st, kid, "invalid JSON type for entity idPattern",
                            LAMBDA acc, s : [acc EXCEPT !.entity.id = s, !.entity.isPattern = "true"])
          [] kid.name = "type" -> TypeMember(st, kid)
          [] OTHER -> IF attrsAllowed THEN AttributeMember(ci, st, kid)
                                      ELSE Fails(st, "no attributes allowed in Entity in this payload")
  IN  ForEach(Member, [res |-> early, entity |-> NewEntity("")], node)

AddEntity(st, parsed) == [st EXCEPT !.res = parsed.res, !.entities = Append(@, parsed.entity)]

parseEntityVector(ci, st, node, attrsAllowed) ==
  LET Element(acc, kid) == AddEntity(acc, parseEntityObject(ci, kid, attrsAllowed))
  IN  IF node.type # "Array" THEN Fails(st, "not a JSON array") ELSE ForEach(Element, st, node)

parseAttributeList(st, node) ==
  LET Element(acc, kid) ==
        StringMember(acc, kid, "only JSON Strings allowed in attribute list",
                     LAMBDA acc2, s : [acc2 EXCEPT !.attributes = Append(@, s)])
  IN  IF node.type # "Array" THEN Fails(st, "the field /attributes/ must be a JSON array") ELSE ForEach(Element, st, node)

WithFilter(parsed) ==
  IF parsed.res = "OK" /\ parsed.scope.type = SCOPE_TYPE_SIMPLE_QUERY /\ ~FilterIsValid(parsed.scope.value)
  THEN Fails(parsed, "invalid filter") ELSE parsed

parseScope(node) ==
  LET early == FirstError(<<
        Refuse(node.type # "Object", "scope is not a JSON object"),
        Refuse(~HasMember(node, "type"), "scope without a type"),
        Refuse(~HasMember(node, "value"), "scope without a value")>>)
      Member(st, kid) ==
        CASE kid.name = "type" ->
               StringMember(st, kid, "invalid JSON type for scope type", LAMBDA acc, s : [acc EXCEPT !.scope.type = s])
          [] kid.name = "value" ->
               StringMember(st, kid, "invalid JSON type for scope value", LAMBDA acc, s : [acc EXCEPT !.scope.value = s])
          [] OTHER -> Fails(st, "unrecognized item in scope object")
  IN  WithFilter(ForEach(Member, [res |-> early, scope |-> [type |-> "", value |-> ""]], node))

AddScope(st, parsed) == [st EXCEPT !.res = parsed.res, !.scopes = Append(@, parsed.scope)]

parseScopeVector(st, node) ==
  LET Element(acc, kid) == AddScope(acc, parseScope(kid))
  IN  IF node.type # "Array" THEN Fails(st, "the field /scopes/ must be a JSON array") ELSE ForEach(Element, st, node)

parseBatchQuery(ci, doc) ==
  LET early == FirstError(<<
        Unreadable(doc),
        Refuse(doc.tree.kids = <<>>, "empty payload"),
        Refuse(\A name \in {"entities", "attributes", "scopes"} : ~HasMember(doc.tree, name), "no relevant fields found")>>)
      Member(st, kid) ==
        CASE kid.name = "entities" -> parseEntityVector(ci, st, kid, FALSE)
          [] kid.name = "attributes" -> parseAttributeList(st, kid)
          [] kid.name = "scopes" -> parseScopeVector(st, kid)
          [] OTHER -> Fails(st, "Unrecognized field in JSON payload")
  IN  ForEach(Member, [res |-> early, entities |-> <<>>, attributes |-> <<>>, scopes |-> <<>>], doc.tree)

parseBatchUpdate(ci, doc) ==
  LET early == FirstError(<<
        Unreadable(doc),
        Refuse(doc.tree.kids = <<>>, "empty payload"),
        Refuse(~HasMember(doc.tree, "entities"), "mandatory field /entities/ not found"),
        Refuse(~HasMember(doc.tree, "actionType"), "mandatory field /actionType/ not found")>>)
      Member(st, kid) ==
        CASE kid.name = "entities" -> parseEntityVector(ci, st, kid, TRUE)
          [] kid.name = "actionType" -> [st EXCEPT !.updateActionType = kid.s]
          [] OTHER -> Fails(st, "Unrecognized field in JSON payload")
  IN  ForEach(Member, [res |-> early, entities |-> <<>>, updateActionType |-> ""], doc.tree)

EntityCheck(ci, request, entity) ==
  FirstError(<<
    Refuse(request = "EntitiesRequest" /\ entity.id = "", "No Entity ID"),
    Refuse(entity.id \in TooLong, "entity id length"),
    Refuse(forbiddenIdChars(ci.apiVersion, entity.id), "Invalid characters in entity id"),
    Refuse(entity.type \in TooLong, "entity type length"),
    Refuse(ci.apiVersion = "v2" /\ entity.type = "", "entity type length"),
    Refuse(forbiddenIdChars(ci.apiVersion, entity.type), "Invalid characters in entity type"),
    Refuse(forbiddenChars(entity.isPattern), "Invalid characters in entity isPattern"),
    ContextAttributeVectorCheck(ci, entity.attributes)>>)

(***************************************************************************)
(* What is written.  A format is one of "normalized", "keyValues",         *)
(* "values" and "unique".                                                  *)
(***************************************************************************)
ErrorCodeToJson(error, description) ==
  Object(JSON_VALUE("error", error)
         \o (IF description = "" THEN <<>> ELSE Comma(TRUE) \o JSON_VALUE("description", description)))

\* Several parts, with a comma between each and the next
RECURSIVE Separated(_)
Separated(parts) ==
  IF Len(parts) < 2 THEN IF parts = <<>> THEN <<>> ELSE parts[1]
  ELSE parts[1] \o Comma(TRUE) \o Separated(Tail(parts))

TypeToJson(type) == JSON_VALUE("type", IF type = "" THEN DEFAULT_TYPE ELSE type)

ScalarToJson(x) ==
  CASE x.valueType = "string" -> JSON_STR(x.value)
    [] x.valueType = "number" -> Scalar(toString(x.value), TRUE)
    [] x.valueType = "bool" -> Scalar(x.value, TRUE)
    [] OTHER -> Scalar("null", TRUE)

MetadataToJson(md) ==
  JSON_PROP(md.name) \o Object(TypeToJson(md.type) \o Comma(TRUE) \o Key("value") \o ScalarToJson(md))

MetadataVectorToJson(vec) ==
  LET shown == SelectSeq(vec, LAMBDA md : md.name \notin {"value", "type"})
  IN  Separated([ix \in DOMAIN shown |-> MetadataToJson(shown[ix])])

ValueToJson(attr) ==
  CASE attr.compound # <<>> ->
         startTag2("", attr.compound[1].type = "vector", FALSE) \o RootRender(V2, attr.compound[1])
         \o endTag(FALSE, attr.compound[1].type = "vector")
    [] attr.compound = <<>> /\ attr.valueType = "number" /\ attr.type = DATE_TYPE -> JSON_STR(isodate2str[attr.value])
    [] OTHER -> ScalarToJson(attr)

\* An attribute that is answered on its own is not preceded by its name.
ContextAttributeToJson(attr, isLastElement, format, request) ==
  (CASE format = "keyValues" -> JSON_PROP(attr.name) \o ValueToJson(attr)
     [] format \in {"values", "unique"} -> ValueToJson(attr)
     [] OTHER ->
          LET members == TypeToJson(attr.type) \o Comma(TRUE) \o Key("value") \o ValueToJson(attr) \o Comma(TRUE)
                         \o Key("metadata") \o Object(MetadataVectorToJson(attr.metadatas))
          IN  IF request = "EntityAttributeResponse" THEN members ELSE JSON_PROP(attr.name) \o Object(members))
  \o Comma(~isLastElement)

lookup(vec, name) == SelectSeq(vec, LAMBDA attr : attr.name = name)

\* The attributes to write.  Without a filter those named id and type are left out.  With one they come in the order of
\* the filter, the first of each name.
Shown(vec, attrsFilter) ==
  IF attrsFilter = <<>> THEN SelectSeq(vec, LAMBDA attr : attr.name \notin {"id", "type"})
  ELSE LET found == SelectSeq(attrsFilter, LAMBDA name : lookup(vec, name) # <<>>)
       IN  [ix \in DOMAIN found |-> lookup(vec, found[ix])[1]]

\* In the format unique, a string that was written already is left out.  The filter of attributes takes precedence.
IsRepeated(shown, format, attrsFilter, ix) ==
  /\ format = "unique" /\ attrsFilter = <<>> /\ shown[ix].valueType = "string"
  /\ \E jx \in 1..(ix - 1) : shown[jx].valueType = "string" /\ shown[jx].value = shown[ix].value

\* Mutant: the attributes left out are counted when the comma is decided
AllCountForCommas(vec, format, attrsFilter) ==
  LET shown == Shown(vec, attrsFilter)
      written == {ix \in DOMAIN shown : ~IsRepeated(shown, format, attrsFilter, ix)}
      Text[ix \in 0..Len(shown)] ==
        IF ix = 0 THEN <<>>
        ELSE Text[ix - 1] \o IF ix \in written THEN ContextAttributeToJson(shown[ix], ix = Len(vec), format, "") ELSE <<>>
  IN  Text[Len(shown)]

\* The comma is left out after the attribute whose number, repeated ones included, is the number of those written.
ContextAttributeVectorToJson(vec, format, attrsFilter) ==
  LET shown == Shown(vec, attrsFilter)
      written == {ix \in DOMAIN shown : ~IsRepeated(shown, format, attrsFilter, ix)}
      validAttributes == Cardinality(written)
      Text[ix \in 0..Len(shown)] ==
        IF ix = 0 THEN <<>>
        ELSE Text[ix - 1]
             \o IF ix \in written THEN ContextAttributeToJson(shown[ix], ix = validAttributes, format, "") ELSE <<>>
  IN  Text[Len(shown)]

EntityIdToJson(entity) == JSON_VALUE("id", escaped(entity.id)) \o Comma(TRUE) \o JSON_VALUE("type", escaped(entity.type))

\* The comma after the entity does not look whether there are attributes.
ContextElementToJson(ce, format, attrsFilter) ==
  (IF format = "values" THEN <<>> ELSE EntityIdToJson(ce) \o Comma(TRUE))
  \o ContextAttributeVectorToJson(ce.attributes, format, attrsFilter)

ContextElementResponseVectorToJson(vec, format, attrsFilter) ==
  Separated([ix \in DOMAIN vec |->
               startTag2("", format = "values", FALSE) \o ContextElementToJson(vec[ix], format, attrsFilter)
               \o endTag(FALSE, format = "values")])

\* A notification in one of the formats of NGSIv2
NotifyContextRequestToJson(subscriptionId, vec, format, attrsFilter) ==
  IF format \notin {"normalized", "keyValues", "values"}
  THEN OrionErrorRender(V2, StatusFill(SccBadRequest, "Invalid notification format"))
  ELSE Object(JSON_VALUE("subscriptionId", subscriptionId) \o Comma(TRUE)
              \o startTag2("data", TRUE, TRUE) \o ContextElementResponseVectorToJson(vec, format, attrsFilter) \o endTag(FALSE, TRUE))

EntityRender(entity, format, attrsFilter) ==
  LET attributes == ContextAttributeVectorToJson(entity.attributes, format, attrsFilter)
  IN  IF format \in {"values", "unique"}
      THEN startTag2("", TRUE, FALSE) \o attributes \o endTag(FALSE, TRUE)
      ELSE Object(JSON_VALUE("id", entity.id) \o Comma(TRUE) \o TypeToJson(entity.type)
                  \o Comma(entity.attributes # <<>>) \o attributes)

EntityVectorRender(vec, format, attrsFilter) ==
  startTag2("", TRUE, FALSE) \o Separated([ix \in DOMAIN vec |-> EntityRender(vec[ix], format, attrsFilter)]) \o endTag(FALSE, TRUE)

\* The value of an attribute on its own, the client accepting JSON: only a compound value will do.
toJsonAsValue(attr) ==
  IF attr.compound = <<>> THEN OrionErrorRender(V2, StatusFill("406", "attribute value not JSON")) ELSE ValueToJson(attr)

\* An attribute on its own: GET /v2/entities/<id>/attrs/<name>, and its value
AttributeV2Render(attr, format, request) ==
  IF request = "EntityAttributeValueRequest" THEN toJsonAsValue(attr)
  ELSE Object(ContextAttributeToJson(attr, TRUE, format, request))
=============================================================================
