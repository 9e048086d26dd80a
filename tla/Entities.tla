------------------------------ MODULE Entities ------------------------------
(***************************************************************************)
(* The entity documents of the "entities" collection and what one update   *)
(* request does to one of them: lib/mongoBackend/MongoCommonUpdate.cpp and *)
(* lib/mongoBackend/location.cpp.                                          *)
(*                                                                         *)
(* A stored attribute is keyed by its effective name, <<name, ID>> ("A" or *)
(* "A__ID" in the document).  An entity document is a record               *)
(*   [attrs, attrNames, loc, creDate, modDate].                            *)
(* The code first works on a copy of the document read from the database   *)
(* and accumulates what the update has to set, unset, push and pull; here  *)
(* that is the record w ("work").  The write is applied to the document    *)
(* that is in the database when the write happens (operator Written).      *)
(*                                                                         *)
(* A request attribute is a record [name, id, value, type, location, md]:  *)
(* location is the value of the "location" metadata ("" when absent) and   *)
(* md the custom metadata, a function from names to values.                *)
(***************************************************************************)
EXTENDS Geo, SequencesExt, TLC

CONSTANTS
  Coords,      \* the points of the attribute values that string2coords() can parse, and of the vectors of such values
  Compounds,   \* the attribute values that are vectors or objects
  Longer       \* <<a, b>> when the attribute name b is longer than a and begins with a

NoValue == "NoValue"          \* ValueTypeNone: absent in NGSIv1, null in NGSIv2
NoLocation == [name |-> "", geo |-> NoGeo]
DEFAULT_TYPE == "none"
NoFunction == [k \in {} |-> 0]

effectiveName(ca) == <<ca.name, ca.id>>
attributeValueAbsent(ca, api) == ca.value = NoValue /\ api = "v1"
attributeTypeAbsent(ca) == ca.type = ""

(***************************************************************************)
(* Locations.  The result of the three functions is [ok, name, geo]: name  *)
(* is the attribute that holds the location afterwards ("" for none), geo  *)
(* the coordinates that have to be written (NoGeo: keep the stored ones).  *)
(***************************************************************************)
getLocation(ca, api) ==
  CASE api = "v1" /\ ca.location # "" -> ca.location
    [] ca.type = GEO_POINT -> "WGS84"
    [] api = "v2" /\ ca.type \in {GEO_LINE, GEO_BOX, GEO_POLYGON} -> "WGS84"
    [] OTHER -> ""

\* A vector of strings, all of them coordinates
stringArray2coords(ca) == ca.value \in DOMAIN Coords \cap Compounds

\* NoGeo is an empty geoJson builder.  NGSIv1 has points only.
getGeoJson(ca, api) ==
  CASE ca.value \notin DOMAIN Coords -> NoGeo
    [] ca.value \in DOMAIN Coords \ Compounds /\ (api = "v1" \/ ca.type = GEO_POINT) -> GeoJson("Point", Coords[ca.value])
    [] stringArray2coords(ca) /\ api = "v2" -> ShapeOf(ca.type, Coords[ca.value])
    [] OTHER -> NoGeo

NotSupported(ca, api) == getLocation(ca, api) \notin {"", "WGS84"}

LocationError == [ok |-> FALSE, name |-> "", geo |-> NoGeo]
LocationKept(name) == [ok |-> TRUE, name |-> name, geo |-> NoGeo]
LocationAt(ca, api) ==
  IF getGeoJson(ca, api) = NoGeo
  THEN LocationError
  ELSE [ok |-> TRUE, name |-> ca.name, geo |-> getGeoJson(ca, api)]

processLocationAtEntityCreation(caV, api) ==
  LET step(acc, ca) ==
        CASE ~acc.ok \/ getLocation(ca, api) = "" -> acc
          [] acc.name # "" \/ NotSupported(ca, api) -> LocationError
          [] OTHER -> LocationAt(ca, api)
  IN  FoldLeft(step, LocationKept(""), caV)

processLocationAtUpdateAttribute(current, ca, api) ==
  LET isLocation == getLocation(ca, api) # ""
  IN  CASE NotSupported(ca, api) -> LocationError
        [] isLocation /\ current \notin {"", ca.name} -> LocationError
        [] isLocation -> LocationAt(ca, api)
        [] ~isLocation /\ current = ca.name ->
             IF api = "v1" THEN LocationAt(ca, api) ELSE LocationKept("")
        [] OTHER -> LocationKept(current)

\* When an existing location attribute is appended again the coordinates are
\* not computed anew: the stored ones are kept.
processLocationAtAppendAttribute(current, ca, actualAppend, api) ==
  LET isLocation == getLocation(ca, api) # ""
  IN  CASE NotSupported(ca, api) -> LocationError
        [] isLocation /\ actualAppend ->
             IF current # "" THEN LocationError ELSE LocationAt(ca, api)
        [] isLocation /\ ~actualAppend ->
             IF current # ca.name THEN LocationError ELSE LocationKept(current)
        [] ~isLocation /\ ~actualAppend /\ current = ca.name -> LocationKept("")
        [] OTHER -> LocationKept(current)

(***************************************************************************)
(* Merging a request attribute into a stored one.                          *)
(***************************************************************************)
attrValueChanges(attr, ca, api) ==
  /\ ca.value # NoValue \/ api = "v2"
  /\ ca.value # attr.value

\* A metadata value stands for the value along with its type.
equalMetadataValues(md1, md2) == md1 = md2

\* Only what both vectors have is compared.
equalMetadataVectors(mdV1, mdV2) == \A name \in DOMAIN mdV1 \cap DOMAIN mdV2 : equalMetadataValues(mdV1[name], mdV2[name])

mergeAttrInfo(attr, ca, now, api) ==
  LET md == ca.md @@ attr.md
      actualUpdate ==
        \/ ca.value \in Compounds
        \/ attrValueChanges(attr, ca, api)
        \/ ca.type \notin {"", attr.type}
        \/ Cardinality(DOMAIN md) # Cardinality(DOMAIN attr.md)
        \/ ~equalMetadataVectors(attr.md, md)
  IN  [actualUpdate |-> actualUpdate,
       attr |-> [value   |-> IF attributeValueAbsent(ca, api) THEN attr.value ELSE ca.value,
                 type    |-> IF ca.type = "" THEN attr.type ELSE ca.type,
                 md      |-> md,
                 creDate |-> attr.creDate,
                 modDate |-> IF actualUpdate THEN now ELSE attr.modDate]]

\* A new attribute, as appendAttribute(), createEntity() and a REPLACE build it.
NewAttribute(ca, now, api) ==
  [value   |-> ca.value,
   type    |-> IF ca.type = "" /\ api = "v2" THEN DEFAULT_TYPE ELSE ca.type,
   md      |-> ca.md,
   creDate |-> now,
   modDate |-> now]

(***************************************************************************)
(* The uses of the ID metadata.                                            *)
(***************************************************************************)
howManyAttrs(attrs, name) == Cardinality({k \in DOMAIN attrs : k[1] = name})

\* Against the stored attributes: the code compares prefixes of the names.
legalIdUsage(attrs, ca) ==
  IF ca.id = ""
  THEN \A k \in DOMAIN attrs : ~(k[1] = ca.name /\ k[2] # "")
  ELSE \A k \in DOMAIN attrs :
         ~(\/ k[1] = ca.name /\ k[2] = ""
           \/ <<ca.name, k[1]>> \in Longer)

\* Within one request, only asked when the entity is created.
legalIdUsageInRequest(caV) ==
  \A i, j \in DOMAIN caV :
    caV[i].name = caV[j].name /\ caV[i].type = caV[j].type /\ caV[i].id = ""
      => caV[j].id = ""

(***************************************************************************)
(* The notification that the update would cause: the attributes of the     *)
(* document read, changed along with the update.  An attribute is looked   *)
(* up by its name only; a deleted one is flagged "skip".                   *)
(***************************************************************************)
NotifyCer(attrs) ==
  [k \in DOMAIN attrs |-> [value |-> attrs[k].value, skip |-> FALSE]]

\* Mutant: a value that changes is not put into the notification.
NotifyCerStale(cer, ca) ==
  cer @@ (effectiveName(ca) :> [value |-> ca.value, skip |-> FALSE])

updateAttrInNotifyCer(cer, ca) ==
  LET same == {k \in DOMAIN cer : k[1] = ca.name}
  IN  CASE same = {} -> cer @@ (effectiveName(ca) :> [value |-> ca.value, skip |-> FALSE])
        [] ca.value = NoValue -> cer
        [] OTHER -> [cer EXCEPT ![CHOOSE k \in same : TRUE].value = ca.value]

deleteAttrInNotifyCer(cer, ca) ==
  [k \in DOMAIN cer |->
     IF k[1] = ca.name THEN [cer[k] EXCEPT !.skip = TRUE] ELSE cer[k]]

\* The attributes a subscription with attribute list attrL is sent.
NotifiedAttributes(cer, attrL) ==
  IF attrL = {}
  THEN DOMAIN cer
  ELSE {k \in DOMAIN cer : k[1] \in attrL /\ ~cer[k].skip}
(***************************************************************************)
(* One attribute of the request.  failed: the rest of the attributes is    *)
(* not processed and nothing is written.                                   *)
(***************************************************************************)
Work(doc) ==
  [attrs         |-> doc.attrs,
   toSet         |-> NoFunction,
   toUnset       |-> {},
   toPush        |-> {},
   deleted       |-> <<>>,
   loc           |-> doc.loc.name,
   geo           |-> NoGeo,
   notify        |-> NotifyCer(doc.attrs),
   status        |-> "None",
   failed        |-> FALSE,
   modified      |-> FALSE,
   modifiedAttrs |-> {},
   answered      |-> <<>>]

\* The attribute being processed goes to the response as not found.
NotFound(w) == [w EXCEPT !.answered[Len(w.answered)].found = FALSE]
Failed(w) == [w EXCEPT !.failed = TRUE, !.status = "InvalidParameter"]

\* What an attribute adds to the update: [done, actualUpdate, toSet, toPush]
updateAttribute(w, ca, isReplace, now, api) ==
  LET k == effectiveName(ca)
      merged == mergeAttrInfo(w.attrs[k], ca, now, api)
  IN  CASE isReplace ->
             [done |-> TRUE, actualUpdate |-> TRUE,
              toSet |-> (k :> NewAttribute(ca, now, api)) @@ w.toSet, toPush |-> w.toPush \cup {ca.name}]
        [] ~isReplace /\ k \notin DOMAIN w.attrs ->
             [done |-> FALSE, actualUpdate |-> FALSE, toSet |-> w.toSet, toPush |-> w.toPush]
        [] OTHER ->
             [done |-> TRUE, actualUpdate |-> merged.actualUpdate,
              toSet |-> IF merged.actualUpdate THEN (k :> merged.attr) @@ w.toSet ELSE w.toSet, toPush |-> w.toPush]

\* done: it was an actual append
appendAttribute(w, ca, now, api) ==
  IF effectiveName(ca) \in DOMAIN w.attrs
  THEN [updateAttribute(w, ca, FALSE, now, api) EXCEPT !.done = FALSE]
  ELSE [done |-> TRUE, actualUpdate |-> TRUE,
        toSet |-> (effectiveName(ca) :> NewAttribute(ca, now, api)) @@ w.toSet, toPush |-> w.toPush \cup {ca.name}]

\* What the attribute has changed, its location and the notification
WithAttribute(w, ca, change, loc) ==
  [w EXCEPT
     !.toSet = change.toSet,
     !.toPush = change.toPush,
     !.modified = @ \/ change.actualUpdate,
     !.modifiedAttrs = IF change.actualUpdate THEN @ \cup {ca.name} ELSE @,
     !.loc = loc.name,
     !.geo = IF loc.geo = NoGeo THEN @ ELSE loc.geo,
     !.notify = updateAttrInNotifyCer(@, ca)]

updateContextAttributeItem(w, ca, isReplace, now, api) ==
  LET change == updateAttribute(w, ca, isReplace, now, api)
      loc == processLocationAtUpdateAttribute(w.loc, ca, api)
      u == IF change.done THEN w ELSE [NotFound(w) EXCEPT !.status = "InvalidParameter"]
  IN  IF ~loc.ok THEN Failed(u) ELSE WithAttribute(u, ca, change, loc)

\* Mutant: the name of an appended attribute is not added to attrNames.
AppendForgetsName(w, ca, now, api) ==
  [w EXCEPT !.toSet = (effectiveName(ca) :> NewAttribute(ca, now, api)) @@ @, !.modified = TRUE]

appendContextAttributeItem(w, ca, now, api) ==
  LET change == appendAttribute(w, ca, now, api)
      loc == processLocationAtAppendAttribute(w.loc, ca, change.done, api)
  IN  IF ~legalIdUsage(w.attrs, ca) \/ ~loc.ok THEN Failed(w) ELSE WithAttribute(w, ca, change, loc)

\* deleted counts the attributes of each name.
deleteAttribute(w, ca) == [w EXCEPT !.toUnset = @ \cup {effectiveName(ca)}, !.deleted = Append(@, ca.name)]

deleteContextAttributeItem(w, ca, api) ==
  CASE effectiveName(ca) \notin DOMAIN w.attrs -> Failed(NotFound(w))
    [] effectiveName(ca) \in DOMAIN w.attrs /\ getLocation(ca, api) # "" -> Failed(w)
    [] OTHER ->
         [deleteAttribute(w, ca) EXCEPT !.modified = TRUE,
                                        !.modifiedAttrs = @ \cup {ca.name},
                                        !.loc = IF @ = ca.name THEN "" ELSE @,
                                        !.notify = deleteAttrInNotifyCer(@, ca)]

(***************************************************************************)
(* All the attributes of the request: caV without the ones flagged "skip". *)
(* triggersOk is the outcome of addTriggeredSubscriptions().               *)
(***************************************************************************)
processContextAttributeVector(doc, action, caV, now, api, triggersOk) ==
  LET item(w, ca) ==
        LET a == [w EXCEPT !.answered = Append(@, [name |-> ca.name, found |-> TRUE, app |-> ""])]
        IN  CASE w.failed -> w
              [] action \in {"UPDATE", "REPLACE"} ->
                   updateContextAttributeItem(a, ca, action = "REPLACE", now, api)
              [] action \in {"APPEND", "APPEND_STRICT"} ->
                   appendContextAttributeItem(a, ca, now, api)
              [] action = "DELETE" -> deleteContextAttributeItem(a, ca, api)
      w == FoldLeft(item, Work(doc), caV)
  IN  CASE w.failed -> w
        [] ~triggersOk -> [w EXCEPT !.failed = TRUE, !.status = "ReceiverInternalError"]
        [] w.status = "None" -> [w EXCEPT !.status = "Ok"]
        [] OTHER -> w

\* The names a DELETE takes out of attrNames: no stored attribute of that
\* name is left, as far as the document read tells.
toPull(w) ==
  {n \in {w.deleted[i] : i \in DOMAIN w.deleted} :
     howManyAttrs(w.attrs, n) <= Len(SelectSeq(w.deleted, LAMBDA d : d = n))}

(***************************************************************************)
(* The update of the document: current is what is stored when the write    *)
(* happens, read the copy on which w was computed.  A REPLACE puts the     *)
(* location among the attributes and leaves the location field as it is.   *)
(***************************************************************************)
LocationWritten(read, w) ==
  IF w.loc = ""
  THEN NoLocation
  ELSE [name |-> w.loc, geo |-> IF w.geo = NoGeo THEN read.loc.geo ELSE w.geo]

\* What the readers of the collection make of the location object in attrs.
NestedLocation == [value |-> "", type |-> "", md |-> NoFunction, creDate |-> 0, modDate |-> 0]

Replaced(current, w, now) ==
  LET nested == IF w.loc = "" THEN NoFunction ELSE <<"location", "">> :> NestedLocation
  IN  [current EXCEPT !.attrs = w.toSet @@ nested, !.attrNames = w.toPush, !.modDate = now]

\* Mutant: the update writes back the document it read.
WrittenFromRead(current, read, w, action, now) ==
  [read EXCEPT !.attrs = w.toSet @@ [k \in DOMAIN @ \ w.toUnset |-> @[k]],
               !.attrNames = (@ \cup w.toPush) \ toPull(w)]

Written(current, read, w, action, now) ==
  IF action = "REPLACE"
  THEN Replaced(current, w, now)
  ELSE [current EXCEPT
          !.attrs = w.toSet @@ [k \in DOMAIN @ \ w.toUnset |-> @[k]],
          !.attrNames = (@ \cup w.toPush) \ toPull(w),
          !.loc = LocationWritten(read, w),
          !.modDate = now]

(***************************************************************************)
(* The document of a new entity, or the reason why it is not created.      *)
(***************************************************************************)
CreationRefused(caV, api) ==
  \/ ~legalIdUsageInRequest(caV)
  \/ ~processLocationAtEntityCreation(caV, api).ok

NewEntity(caV, now, api) ==
  LET loc == processLocationAtEntityCreation(caV, api)
      keys == {effectiveName(caV[i]) : i \in DOMAIN caV}
      of(k) == CHOOSE i \in DOMAIN caV : effectiveName(caV[i]) = k
  IN  [attrs     |-> [k \in keys |-> NewAttribute(caV[of(k)], now, api)],
       attrNames |-> {k[1] : k \in keys},
       loc       |-> [name |-> loc.name, geo |-> loc.geo],
       creDate   |-> now,
       modDate   |-> now]

\* The type of a new entity: NGSIv2 has a default one.
NewEntityType(type, api) == IF type = "" /\ api = "v2" THEN DEFAULT_TYPE ELSE type
=============================================================================
