----------------------------- MODULE V2Entities -----------------------------
(***************************************************************************)
(* An entity on its way through an NGSIv2 broker: the payload that creates *)
(* it, the document of the database, and the texts in which the broker     *)
(* gives it back: to GET requests and batch queries, and in the            *)
(* notification that a new subscription sends.                             *)
(*                                                                         *)
(* In the document, the name of an attribute loses its dots, and takes the *)
(* value of the metadata ID behind "__".  A key of the document is         *)
(* therefore a pair [base, id].  A compound value keeps its shape, and the *)
(* names of its members lose their dots too.                               *)
(*                                                                         *)
(* The instance writes the attributes of an entity in the order of their   *)
(* names, in which std::set gives them back.  How location attributes are  *)
(* stored is in module Entities.                                           *)
(***************************************************************************)
EXTENDS NgsiV2

CONSTANTS
  Creations,      \* [ci, request, doc]: the payloads of POST /v2/entities, and of POST /v2/op/update with one entity
  Queries,        \* the payloads of POST /v2/op/query
  AttrsFilters,   \* the values of the URI parameter attrs
  DotEncoded,     \* the names with a '.', with an '=' in its place
  NameParts       \* the names with "__", each with what is before and what is behind

VARIABLES
  phase,    \* "empty", "refused", "stored" or "answered"
  entity,   \* the entity that the payload stands for
  doc,      \* its document
  asked,    \* the request that has been answered: [op, format, attrs, name]
  text      \* the answer, or the notification

entityVars == <<phase, entity, doc, asked, text>>

(***************************************************************************)
(* The document                                                            *)
(***************************************************************************)
dbDotEncode(s) == IF s \in DOMAIN DotEncoded THEN DotEncoded[s] ELSE s

dbDotDecode(s) ==
  LET decoded == {d \in DOMAIN DotEncoded : DotEncoded[d] = s}
  IN  IF decoded = {} THEN s ELSE CHOOSE d \in decoded : TRUE

basePart(name) == IF name \in DOMAIN NameParts THEN NameParts[name][1] ELSE name
idPart(name) == IF name \in DOMAIN NameParts THEN NameParts[name][2] ELSE ""

\* The value of the metadata ID, "" when there is none or when it is not a string
getId(attr) ==
  LET ids == SelectSeq(attr.metadatas, LAMBDA md : md.name = "ID")
  IN  IF ids = <<>> \/ ids[1].valueType # "string" THEN "" ELSE ids[1].value

\* The names that isNotCustomMetadata() knows are not stored with the others.
isNotCustomMetadata(name) == name \in {"ID", "location", "creDate", "modDate"}
contextAttributeCustomMetadataToBson(attr) == SelectSeq(attr.metadatas, LAMBDA md : ~isNotCustomMetadata(md.name))

RECURSIVE compoundValueBson(_, _)
compoundValueBson(kids, inVector) ==
  [ix \in DOMAIN kids |->
     [name |-> IF inVector THEN "" ELSE dbDotEncode(kids[ix].name), type |-> kids[ix].type, s |-> kids[ix].s,
      kids |-> compoundValueBson(kids[ix].kids, kids[ix].type = "vector")]]

valueBson(attr) ==
  IF attr.compound = <<>> THEN [type |-> attr.valueType, s |-> attr.value, kids |-> <<>>]
  ELSE [type |-> attr.compound[1].type, s |-> "",
        kids |-> compoundValueBson(attr.compound[1].kids, attr.compound[1].type = "vector")]

effectiveKey(attr) ==
  LET name == dbDotEncode(attr.name)
      id == getId(attr)
  IN  [base |-> basePart(name),
       id |-> IF idPart(name) = "" THEN id ELSE IF id = "" THEN idPart(name) ELSE idPart(name) \o "__" \o id]

AttributeBson(attr) ==
  [key |-> effectiveKey(attr), type |-> attr.type, value |-> valueBson(attr), md |-> contextAttributeCustomMetadataToBson(attr)]

\* The same attribute twice, or a pattern in the place of an id
contextElementPreconditionsCheck(e) ==
  FirstError(<<
    Refuse(\E ix, jx \in DOMAIN e.attributes : /\ ix < jx /\ e.attributes[ix].name = e.attributes[jx].name
                                               /\ getId(e.attributes[ix]) = getId(e.attributes[jx]), "InvalidModification"),
    Refuse(e.isPattern = "true", "NotImplemented")>>)

\* Attributes of one name, some with an ID and some without, are not stored.
legalIdUsage(vec) ==
  ~\E ix, jx \in DOMAIN vec : /\ vec[ix].name = vec[jx].name /\ vec[ix].type = vec[jx].type
                              /\ getId(vec[ix]) = "" /\ getId(vec[jx]) # ""

createEntity(e) ==
  [id |-> e.id, type |-> IF e.type = "" THEN DEFAULT_TYPE ELSE e.type,
   attrNames |-> {e.attributes[ix].name : ix \in DOMAIN e.attributes},
   attrs |-> [ix \in DOMAIN e.attributes |-> AttributeBson(e.attributes[ix])]]

(***************************************************************************)
(* The document read again                                                 *)
(***************************************************************************)
RECURSIVE addCompoundNode(_)
addCompoundNode(node) ==
  [name |-> dbDotDecode(node.name), type |-> node.type, s |-> node.s,
   kids |-> [ix \in DOMAIN node.kids |-> addCompoundNode(node.kids[ix])]]

\* An attribute with a compound value says that its value is the empty string.
AttributeFromBson(a) ==
  [name |-> dbDotDecode(a.key.base), type |-> a.type,
   valueType |-> IF a.value.type \in {"object", "vector"} THEN "string" ELSE a.value.type,
   value |-> a.value.s,
   compound |-> IF a.value.type \notin {"object", "vector"} THEN <<>>
                ELSE <<[name |-> "", type |-> a.value.type, s |-> "",
                        kids |-> [ix \in DOMAIN a.value.kids |-> addCompoundNode(a.value.kids[ix])]]>>,
   metadatas |-> (IF a.key.id = "" THEN <<>> ELSE <<Metadata("ID", "string", "string", a.key.id)>>) \o a.md]

includedAttribute(a, attrL) == attrL = <<>> \/ \E ix \in DOMAIN attrL : attrL[ix] = dbDotDecode(a.key.base)

\* Of several attributes of one key the first one is found.
ContextElementResponse(d, attrL) ==
  LET First(ix) == \A jx \in 1..(ix - 1) : d.attrs[jx].key # d.attrs[ix].key
      read == SelectSeq([ix \in DOMAIN d.attrs |-> [a |-> d.attrs[ix], first |-> First(ix)]],
                        LAMBDA x : x.first /\ includedAttribute(x.a, attrL))
  IN  [id |-> d.id, type |-> d.type, isPattern |-> "false",
       attributes |-> [ix \in DOMAIN read |-> AttributeFromBson(read[ix].a)]]

\* A query with attributes finds the entities whose attrNames have one of them.
Found(d, attrL) == attrL = <<>> \/ \E ix \in DOMAIN attrL : attrL[ix] \in d.attrNames

(***************************************************************************)
(* Requests                                                                *)
(***************************************************************************)
PlainV2 == [apiVersion |-> "v2", keyValues |-> FALSE]
NoEntity == NewEntity("")
NoDoc == createEntity(NoEntity)
NoRequest == [op |-> "none", format |-> "", attrs |-> <<>>, name |-> ""]

CheckedEntity(ci, request, parsed) ==
  IF parsed.res # "OK" THEN parsed ELSE [parsed EXCEPT !.res = EntityCheck(ci, request, parsed.entity)]

FirstEntity(parsed) == [res |-> parsed.res, entity |-> IF parsed.entities = <<>> THEN NoEntity ELSE parsed.entities[1]]

\* jsonRequestTreat() of the two requests that create entities: the payload of a batch is not checked.
EntityOfPayload(ci, request, payload) ==
  IF request = "EntitiesRequest" THEN CheckedEntity(ci, request, parseEntity(ci, payload, FALSE))
                                 ELSE FirstEntity(parseBatchUpdate(ci, payload))

\* Why the entity is not created
Refusal(parsed) ==
  FirstError(<<
    Refuse(parsed.res # "OK", "BadRequest"),
    contextElementPreconditionsCheck(parsed.entity),
    Refuse(~legalIdUsage(parsed.entity.attributes), "InvalidParameter")>>)

EntityInit ==
  /\ phase = "empty" /\ entity = NoEntity /\ doc = NoDoc
  /\ asked = NoRequest /\ text = <<>>

\* POST /v2/entities, or POST /v2/op/update with the action append and one entity
Create ==
  /\ phase = "empty"
  /\ \E c \in Creations : \E parsed \in {EntityOfPayload(c.ci, c.request, c.doc)} :
       /\ entity' = parsed.entity
       /\ \E error \in {Refusal(parsed)} :
            \/ error = "OK" /\ phase' = "stored" /\ doc' = createEntity(parsed.entity) /\ text' = <<>>
            \/ error # "OK" /\ phase' = "refused" /\ text' = ErrorCodeToJson(error, parsed.res) /\ UNCHANGED doc
  /\ UNCHANGED asked

Answer(request, answer) ==
  /\ phase' = "answered" /\ asked' = request /\ text' = answer
  /\ UNCHANGED <<entity, doc>>

NotFound == ErrorCodeToJson("NotFound", "The requested entity has not been found")

\* GET /v2/entities/<id>
GetEntity ==
  /\ phase = "stored"
  /\ \E format \in {"normalized", "keyValues", "values", "unique"}, attrs \in AttrsFilters :
       Answer([NoRequest EXCEPT !.op = "entity", !.format = format, !.attrs = attrs],
              IF Found(doc, attrs) THEN EntityRender(ContextElementResponse(doc, attrs), format, attrs) ELSE NotFound)

\* GET /v2/entities
GetEntities ==
  /\ phase = "stored"
  /\ \E format \in {"normalized", "keyValues", "values", "unique"}, attrs \in AttrsFilters :
       Answer([NoRequest EXCEPT !.op = "entities", !.format = format, !.attrs = attrs],
              EntityVectorRender(IF Found(doc, attrs) THEN <<ContextElementResponse(doc, attrs)>> ELSE <<>>, format, attrs))

\* POST /v2/op/query.  What matches is what the entities of the payload name, or everything.
Matching(d, entities) ==
  \/ entities = <<>>
  \/ \E ix \in DOMAIN entities : /\ entities[ix].isPattern = "true" \/ entities[ix].id = d.id
                                 /\ entities[ix].type \in {"", d.type}

QueryAnswer(parsed) ==
  CASE parsed.res # "OK" -> ErrorCodeToJson("BadRequest", parsed.res)
    [] parsed.res = "OK" /\ Matching(doc, parsed.entities) /\ Found(doc, parsed.attributes) ->
         EntityVectorRender(<<ContextElementResponse(doc, parsed.attributes)>>, "normalized", <<>>)
    [] OTHER -> EntityVectorRender(<<>>, "normalized", <<>>)

Query ==
  /\ phase = "stored"
  /\ \E payload \in Queries : \E parsed \in {parseBatchQuery(PlainV2, payload)} :
       Answer([NoRequest EXCEPT !.op = IF parsed.res = "OK" THEN "query" ELSE "error", !.format = "normalized", !.attrs = parsed.attributes],
              QueryAnswer(parsed))

\* GET /v2/entities/<id>/attrs/<name> and .../value: the first attribute of the name
GetAttribute ==
  /\ phase = "stored"
  /\ \E op \in {"attribute", "value"}, name \in doc.attrNames, format \in {"normalized", "keyValues"} :
       \E cer \in {ContextElementResponse(doc, <<name>>)} :
         Answer([NoRequest EXCEPT !.op = op, !.format = format, !.name = name],
                IF cer.attributes = <<>> THEN NotFound
                ELSE AttributeV2Render(cer.attributes[1], format,
                                       IF op = "value" THEN "EntityAttributeValueRequest" ELSE "EntityAttributeResponse"))

\* The notification of a new subscription
Notify ==
  /\ phase = "stored"
  /\ \E format \in {"normalized", "keyValues", "values", "unique"}, attrs \in AttrsFilters :
       /\ Found(doc, attrs)
       /\ Answer([NoRequest EXCEPT !.op = "notification", !.format = format, !.attrs = attrs],
                 NotifyContextRequestToJson("S", <<ContextElementResponse(doc, attrs)>>, format, attrs))

-----------------------------------------------------------------------------
(* What a client reads in the answers                                      *)

RECURSIVE StringsOf(_)
StringsOf(node) == {node.name, node.s} \cup UNION {StringsOf(node.kids[ix]) : ix \in DOMAIN node.kids}

\* The strings that the answers show of the entity
Strings ==
  {entity.id, entity.type}
  \cup UNION {LET attr == entity.attributes[ix]
              IN  {attr.name, attr.type, attr.value}
                  \cup UNION {StringsOf(attr.compound[jx]) : jx \in DOMAIN attr.compound}
                  \cup UNION {{attr.metadatas[jx].name, attr.metadatas[jx].type, attr.metadatas[jx].value} :
                                jx \in DOMAIN attr.metadatas} : ix \in DOMAIN entity.attributes}

\* The attributes that were asked for: all of them, or those of the filter in its order
Wanted ==
  IF asked.attrs = <<>> THEN entity.attributes
  ELSE FlattenSeq([ix \in DOMAIN asked.attrs |-> SelectSeq(entity.attributes, LAMBDA attr : attr.name = asked.attrs[ix])])

Same(attr1, attr2) ==
  LET StringOf(attr) == IF attr.compound # <<>> THEN "" ELSE attr.value
      IsString(attr) == attr.compound # <<>> \/ attr.valueType = "string"
  IN  IsString(attr1) /\ IsString(attr2) /\ StringOf(attr1) = StringOf(attr2)

\* The answers that are not JSON: a string that JSON wants escaped, in the format unique a repeated string before another
\* value, and a notification without attributes.
NotJson ==
  \/ Strings \cap DOMAIN Unescaped # {}
  \/ /\ asked.format = "unique" /\ asked.op # "notification" /\ asked.attrs = <<>>
     /\ \E ix, jx \in DOMAIN entity.attributes :
          /\ ix < jx
          /\ \E kx \in 1..(ix - 1) : Same(entity.attributes[kx], entity.attributes[ix])
          /\ \A kx \in 1..(jx - 1) : ~Same(entity.attributes[kx], entity.attributes[jx])
  \/ asked.op = "notification" /\ asked.format # "unique" /\ asked.format # "values" /\ Wanted = <<>>

\* Whether the document can hold the entity: the names of its attributes have no "__", no metadata has one of the names
\* that the broker uses itself, no type is given as the empty string, no name has an '=', and the id is legal.
Storable ==
  /\ \A ix \in DOMAIN entity.attributes :
       LET attr == entity.attributes[ix]
       IN  /\ attr.name \notin DOMAIN NameParts /\ attr.type # ""
           /\ \A jx \in DOMAIN attr.metadatas :
                /\ attr.metadatas[jx].name \notin {"ID", "location", "creDate", "modDate", "value", "type"}
                /\ attr.metadatas[jx].type # ""
  /\ \A s \in Strings : \A d \in DOMAIN DotEncoded : s # DotEncoded[d]
  /\ {entity.id, entity.type} \cap Illegal = {} /\ entity.id # ""

\* A value as JSON has it: a date is a string.
ValueOf(attr) ==
  CASE attr.compound # <<>> -> [type |-> attr.compound[1].type, s |-> "", kids |-> attr.compound[1].kids]
    [] attr.compound = <<>> /\ attr.type = DATE_TYPE -> [type |-> "string", s |-> isodate2str[attr.value], kids |-> <<>>]
    [] OTHER -> [type |-> attr.valueType, s |-> attr.value, kids |-> <<>>]

NodeValue(node) == LET read == CompoundChild(node) IN [type |-> read.type, s |-> read.s, kids |-> read.kids]

\* What an attribute says: the value does not depend on what valueType says of a compound value.
Content(attr) == [name |-> attr.name, type |-> attr.type, value |-> ValueOf(attr), metadatas |-> attr.metadatas]
Contents(attrs) == {Content(attrs[ix]) : ix \in DOMAIN attrs}
TypeShown == IF entity.type = "" THEN DEFAULT_TYPE ELSE entity.type

\* What is given back of a number: a number of six significant digits
Rounded(number) == GetDouble(toString(number))

RECURSIVE RoundedValue(_)
RoundedValue(value) ==
  [value EXCEPT !.s = IF value.type = "number" THEN Rounded(@) ELSE @,
                !.kids = [ix \in DOMAIN value.kids |-> RoundedValue(value.kids[ix])]]

\* What is given back of the value and of the content of an attribute
ValueGiven(attr) == RoundedValue(ValueOf(attr))
ContentGiven(attr) ==
  LET RoundedMetadata(md) == [md EXCEPT !.value = IF md.valueType = "number" THEN Rounded(@) ELSE @]
  IN  [Content(attr) EXCEPT !.value = ValueGiven(attr),
                            !.metadatas = [ix \in DOMAIN attr.metadatas |-> RoundedMetadata(attr.metadatas[ix])]]

\* keyValues tells names and values only.
AsAsked(content) == IF asked.format = "keyValues" THEN <<content.name, content.value>> ELSE content

IsEntity(read) ==
  /\ read.res = "OK" /\ read.entity.id = entity.id /\ read.entity.type = TypeShown
  /\ {AsAsked(c) : c \in Contents(read.entity.attributes)} = {AsAsked(ContentGiven(Wanted[ix])) : ix \in DOMAIN Wanted}

\* The node says of the entity what was asked for
SaysEntity(node) ==
  CASE asked.format \in {"normalized", "keyValues"} ->
         IsEntity(parseEntity([PlainV2 EXCEPT !.keyValues = asked.format = "keyValues"], [ok |-> TRUE, tree |-> node], FALSE))
    [] asked.format = "values" ->
         [ix \in DOMAIN node.kids |-> NodeValue(node.kids[ix])] = [ix \in DOMAIN Wanted |-> ValueGiven(Wanted[ix])]
    [] asked.format = "unique" ->
         {NodeValue(node.kids[ix]) : ix \in DOMAIN node.kids} = {ValueGiven(Wanted[ix]) : ix \in DOMAIN Wanted}

Named == SelectSeq(entity.attributes, LAMBDA attr : attr.name = asked.name)[1]

\* What the answer says
Says(tree) ==
  CASE asked.op = "entity" -> SaysEntity(tree)
    [] asked.op \in {"entities", "query"} -> \A ix \in DOMAIN tree.kids : SaysEntity(tree.kids[ix])
    [] asked.op = "notification" -> asked.format = "unique" \/ SaysEntity(tree.kids[2].kids[1])
    [] asked.op = "attribute" /\ asked.format = "normalized" ->
         Content(parseContextAttributeDocument(asked.name, [ok |-> TRUE, tree |-> tree]).attr) = ContentGiven(Named)
    [] asked.op = "attribute" /\ asked.format = "keyValues" ->
         tree.kids[1].name = asked.name /\ NodeValue(tree.kids[1]) = ValueGiven(Named)
    [] asked.op = "value" ->
         Named.compound = <<>> \/ ValueOf(parseAttributeValue([ok |-> TRUE, tree |-> tree]).attr) = ValueGiven(Named)
    [] asked.op = "error" -> TRUE

\* An entity that POST /v2/entities or POST /v2/op/update accepted is given back as it was sent, but for its numbers:
\* the answers and the notification (toJson() and render()) are JSON, and the broker's own parser reads in them the id,
\* the type, and of the attributes that were asked for the names, types, values and metadata.  Every number, those inside
\* compound values and metadata too, is given back rounded to six significant digits, as toString() writes a double.
\* The answers that NotJson lists need not be JSON, and what the document cannot hold (Storable) need not come back:
\* among others a name with an '=', which dbDotDecode() turns into a '.'.
EntitiesReadBack ==
  phase = "answered" /\ ~NotJson =>
    /\ WellFormed(text)
    /\ Storable /\ (Wanted = <<>> => asked.attrs = <<>>) => Says(Parse(text).tree)
=============================================================================
