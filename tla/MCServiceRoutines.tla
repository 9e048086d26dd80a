-------------------------- MODULE MCServiceRoutines --------------------------
(***************************************************************************)
(* Instances of ServiceRoutines for TLC: the entities that are stored when *)
(* the requests begin, and the requests.                                   *)
(***************************************************************************)
EXTENDS ServiceRoutines, MCContextOperations

MCAnchored == <<"E">> :> "^E$"

PointAt(name, value) == Typed(name, GEO_POINT, value)
Entity(id, type, isPattern) == [id |-> id, type |-> type, isPattern |-> isPattern]

R(ver, route) ==
  [api |-> ver, route |-> route, id |-> "E", type |-> "", ptype |-> "", info |-> "", attr |-> "",
   metaID |-> "", entity |-> Entity("", "", FALSE), caV |-> <<>>, elements |-> <<>>, action |-> "",
   attrL |-> {}, append |-> FALSE, ids |-> <<>>, idPattern |-> "", types |-> <<>>,
   geometry |-> <<>>, coords |-> <<>>, georel |-> <<>>, q |-> FALSE,
   offset |-> 0, limit |-> 20, values |-> FALSE, broken |-> FALSE]

\* /v1/contextEntities/{id}; a type or its absence among the URI parameters.
WithParams(S) ==
  S \cup {[r EXCEPT !.ptype = "T"] : r \in S} \cup {[r EXCEPT !.info = "notExist"] : r \in S}
Of(route, attr, metaID, caV) ==
  [R("v1", route) EXCEPT !.attr = attr, !.metaID = metaID, !.caV = caV]

V1Reads == WithParams(
  {Of("getIndividualContextEntity", "", "", <<>>), Of("getIndividualContextEntityAttribute", "A", "", <<>>),
   Of("getIndividualContextEntityAttribute", "B", "", <<>>),
   Of("getAttributeValueInstance", "A", "1", <<>>),
   [R("v1", "getAllContextEntities") EXCEPT !.id = ""],
   [R("v1", "getNgsi10ContextEntityTypes") EXCEPT !.id = "", !.type = "T"],
   [R("v1", "getNgsi10ContextEntityTypesAttribute") EXCEPT !.id = "", !.type = "U", !.attr = "B"]})
V1Writes == WithParams(
  {Of("putIndividualContextEntity", "", "", <<Attr("A", "2"), Attr("B", "2")>>),
   Of("putIndividualContextEntity", "", "", <<Attr("B", "2"), Located("A", "x")>>),
   Of("postIndividualContextEntity", "", "", <<Attr("B", "1")>>),
   Of("deleteIndividualContextEntity", "", "", <<>>),
   Of("postIndividualContextEntityAttribute", "B", "", <<Attr("", "1")>>),
   Of("putIndividualContextEntityAttribute", "A", "", <<Attr("", "3")>>),
   Of("deleteIndividualContextEntityAttribute", "A", "", <<>>),
   Of("putAttributeValueInstance", "A", "1", <<WithId("", "1", "4")>>),
   Of("deleteAttributeValueInstance", "A", "1", <<>>)})
V1Odd ==
  {Of("putAttributeValueInstance", "A", "1", <<WithId("", "2", "4")>>),
   [R("v1", "postIndividualContextEntity") EXCEPT !.entity.id = "F"],
   [R("v1", "postIndividualContextEntity") EXCEPT !.entity.isPattern = TRUE],
   [R("v1", "postIndividualContextEntity") EXCEPT !.entity.type = "U", !.ptype = "T"],
   [R("v1", "postIndividualContextEntity") EXCEPT !.id = ""],
   [R("v1", "postIndividualContextEntity") EXCEPT !.id = "", !.entity = Entity("E", "U", FALSE),
                                                  !.caV = <<Attr("A", "5")>>]}

\* /v1/contextEntities/type/{type}/id/{id}
OfType(route, attr, metaID, caV) == [Of(route, attr, metaID, caV) EXCEPT !.type = "T"]
TypedRequests ==
  LET S == {OfType("getAllEntitiesWithTypeAndId", "", "", <<>>),
            OfType("getIndividualContextEntityAttributeWithTypeAndId", "A", "", <<>>),
            OfType("getAttributeValueInstanceWithTypeAndId", "A", "1", <<>>),
            OfType("putAllEntitiesWithTypeAndId", "", "", <<Attr("A", "2")>>),
            OfType("postAllEntitiesWithTypeAndId", "", "", <<Attr("B", "1")>>),
            OfType("deleteAllEntitiesWithTypeAndId", "", "", <<>>),
            OfType("postIndividualContextEntityAttributeWithTypeAndId", "B", "", <<Attr("", "1")>>),
            OfType("putIndividualContextEntityAttributeWithTypeAndId", "A", "", <<Attr("", "3")>>),
            OfType("deleteIndividualContextEntityAttributeWithTypeAndId", "A", "", <<>>),
            OfType("postAttributeValueInstanceWithTypeAndId", "A", "1", <<Attr("", "4")>>),
            OfType("putAttributeValueInstanceWithTypeAndId", "A", "1", <<WithId("", "1", "5")>>),
            OfType("deleteAttributeValueInstanceWithTypeAndId", "A", "1", <<>>)}
  IN  S \cup {[r EXCEPT !.ptype = "U"] : r \in S} \cup {[r EXCEPT !.info = "notExist"] : r \in S}
        \cup {[OfType("postAllEntitiesWithTypeAndId", "", "", <<>>) EXCEPT !.entity.id = "E"]}

\* /v2/entities and /v2/op
Op2(route, attr, caV) == [R("v2", route) EXCEPT !.attr = attr, !.caV = caV]
V2Reads ==
  LET S == {Op2("getEntity", "", <<>>), [Op2("getEntity", "", <<>>) EXCEPT !.attrL = {"B"}],
            Op2("getEntityAttribute", "A", <<>>), Op2("getEntityAttributeValue", "B", <<>>)}
      all == [Op2("getEntities", "", <<>>) EXCEPT !.id = ""]
  IN  S \cup {[r EXCEPT !.ptype = "T"] : r \in S} \cup {[r EXCEPT !.broken = TRUE] : r \in S}
        \cup {all, [all EXCEPT !.ids = <<"E">>], [all EXCEPT !.idPattern = "E"],
              [all EXCEPT !.types = <<"T">>], [all EXCEPT !.types = <<"T", "U">>],
              [all EXCEPT !.ids = <<"E">>, !.idPattern = "E"],
              [all EXCEPT !.q = TRUE, !.broken = TRUE],
              [R("v2", "postBatchQuery") EXCEPT !.id = ""],
              [R("v2", "postBatchQuery") EXCEPT !.id = "", !.attrL = {"A"},
                                                !.elements = <<Entity("E", "T", FALSE)>>]}
V2Writes ==
  LET S == {Op2("postEntity", "", <<Attr("A", "2"), Attr("B", "1")>>),
            Op2("postEntity", "", <<PointAt("L", "c1"), PointAt("M", "c1")>>),
            [Op2("postEntity", "", <<Attr("A", "2"), Attr("B", "1")>>) EXCEPT !.append = TRUE],
            [Op2("postEntity", "", <<PointAt("L", "x")>>) EXCEPT !.append = TRUE],
            Op2("patchEntity", "", <<Attr("A", "3"), Attr("B", "3")>>),
            Op2("patchEntity", "", <<Attr("B", "3"), PointAt("A", "x")>>),
            Op2("putEntity", "", <<Attr("B", "4")>>),
            Op2("deleteEntity", "", <<>>), Op2("deleteEntity", "B", <<>>),
            Op2("putEntityAttribute", "A", <<Attr("", "5")>>),
            Op2("putEntityAttributeValue", "B", <<Attr("", NoValue)>>)}
      create(type, caV) == [Op2("postEntities", "", caV) EXCEPT !.id = "", !.entity = Entity("E", type, FALSE)]
      batch(act, elements) ==
        [R("v2", "postBatchUpdate") EXCEPT !.id = "", !.action = act, !.elements = elements]
      of(type, caV) == [id |-> "E", type |-> type, isPattern |-> FALSE, attrs |-> caV]
  IN  S \cup {[r EXCEPT !.ptype = "T"] : r \in S} \cup {[r EXCEPT !.broken = TRUE] : r \in S}
        \cup {create("", <<Attr("A", "1")>>), create("T", <<Attr("A", "1"), Attr("B", "1")>>),
              create("T", <<PointAt("L", "x")>>), create("T", <<Attr("A", "1"), WithId("A", "1", "1")>>),
              [create("T", <<>>) EXCEPT !.broken = TRUE],
              batch("APPEND", <<of("T", <<Attr("A", "6")>>), of("U", <<Attr("A", "6")>>)>>),
              batch("UPDATE", <<of("", <<Attr("A", "7")>>)>>), batch("UPDATE", <<of("T", <<Attr("B", "7"), PointAt("A", "x")>>)>>),
              batch("DELETE", <<of("T", <<>>)>>)}

\* /v1/contextTypes and /v2/types, whole and in pages of one
OfTypes(ver, route, type) == [R(ver, route) EXCEPT !.id = "", !.type = type]
TypesReads ==
  LET S == {OfTypes("v1", "getEntityTypes", ""), OfTypes("v1", "getAttributesForEntityType", "T"),
            OfTypes("v2", "getEntityAllTypes", ""), [OfTypes("v2", "getEntityAllTypes", "") EXCEPT !.values = TRUE],
            OfTypes("v2", "getEntityType", "T"), OfTypes("v2", "getEntityType", "U")}
  IN  S \cup {[r EXCEPT !.limit = 1, !.offset = 1] : r \in S}

\* GET /v2/entities?geometry=...&coords=...&georel=..., good and bad ones, and what moves an entity
Area(geometry, coords, georel) ==
  [Op2("getEntities", "", <<>>) EXCEPT !.id = "", !.geometry = geometry, !.coords = coords, !.georel = georel]
Box(i) == IF i = 1 THEN <<<<2, 3>>, <<0, 1>>>> ELSE <<<<0, 3>>, <<2, 1>>>>
Polygon == <<<<0, 0>>, <<0, 3>>, <<2, 3>>, <<2, 0>>, <<0, 0>>>>
Near(least, most) ==
  <<Word("near")>> \o (IF least < 0 THEN <<>> ELSE <<Number("minDistance", least)>>)
                   \o (IF most < 0 THEN <<>> ELSE <<Number("maxDistance", most)>>)
GeoReads ==
  {Area(<<Word("point")>>, <<<<1, 2>>>>, Near(least, most)) : least \in {-1, 1}, most \in {-1, 1, 2}}
    \cup {Area(<<Word("point")>>, <<<<1, 2>>>>, <<Word(rel)>>) : rel \in {"equals", "disjoint", "intersects", "coveredBy", "near"}}
    \cup {Area(<<Word("box")>>, Box(i), <<Word(rel)>>) : i \in 1..2, rel \in {"equals", "disjoint", "intersects", "coveredBy"}}
    \cup {Area(<<Word("polygon")>>, Polygon, <<Word(rel)>>) : rel \in {"equals", "coveredBy", "within"}}
    \cup {Area(<<Word("line")>>, MCCoords["line"], <<Word(rel)>>) : rel \in {"equals", "intersects", "near"}}
    \cup {Area(<<Word("box")>>, coords, <<Word("disjoint")>>) : coords \in {<<<<1, 2>>>>, <<<<1, 2>>, <<1, 3>>>>, <<<<1, NotANumber>>, <<2, 3>>>>}}
    \cup {Area(<<Word("box")>>, <<>>, <<>>), Area(<<>>, Box(1), <<>>), Area(<<>>, <<>>, <<Word("equals")>>),
          Area(<<Word("box")>>, Box(1), <<>>), Area(<<Word("circle"), Number("radius", 1)>>, <<<<1, 2>>>>, <<Word("equals")>>)}
GeoWrites ==
  {[Op2(route, "", <<Typed("L", type, value)>>) EXCEPT !.id = "G"] :
     route \in {"patchEntity", "postEntity"}, type \in {GEO_POINT, GEO_BOX, "Text"}, value \in {"c2", "box"}}

MCSorted == <<"", "A", "AB", "B", "C", "L", "M", "T", "U", "none">>

MCRests ==
  [none |-> {},
   all |-> V1Reads \cup V1Writes \cup V1Odd \cup TypedRequests \cup V2Reads \cup V2Writes \cup TypesReads,
   geo |-> GeoReads \cup GeoWrites,
   types |-> TypesReads \cup V2Writes,
   writes |-> V1Writes \cup V2Writes]

RestBase == [Base EXCEPT !.rests = "all", !.maxRequests = 2]

RestInstances ==
  {RestBase,
   [RestBase EXCEPT !.db = Doc("E", "T", <<Attr("A", "1")>>)],
   [RestBase EXCEPT !.db = Doc("E", "", <<WithId("A", "1", "1"), WithId("A", "2", "1")>>)],
   [RestBase EXCEPT !.db = Doc("E", "T", <<Attr("A", "1")>>) @@ Doc("E", "U", <<Attr("B", "1")>>)],
   [RestBase EXCEPT !.db = Doc("E", "T", <<Attr("A", "1")>>), !.dbFails = TRUE, !.maxRequests = 1],
   [RestBase EXCEPT !.db = Doc("E", "T", <<Attr("A", "1")>>), !.maxRequests = 1,
                !.regs = <<[entities |-> {[id |-> "E", type |-> "T"]}, attrs |-> {"B"}, app |-> "p1"]>>,
                !.rests = "writes"],
   [RestBase EXCEPT !.db = Doc("E", "T", <<Attr("A", "1"), Attr("B", "1")>>) @@ Doc("E", "", <<Attr("A", "1")>>)
                             @@ Doc("F", "T", <<Typed("A", "Text", "1")>>),
                !.policy = "none", !.rests = "types"],
   [RestBase EXCEPT !.db = Shapes, !.rests = "geo"]}

MCInstances == OperationInstances \cup RestInstances

MCThreadSymmetry == Permutations(Threads)
=============================================================================
