------------------------- MODULE MCContextOperations -------------------------
(***************************************************************************)
(* Instances of ContextOperations for TLC: one record per configuration,   *)
(* each with the requests clients may send in it.  Every request is one    *)
(* that the parsers of the broker accept.                                  *)
(***************************************************************************)
EXTENDS ContextOperations

MCCoords == "c1" :> <<<<1, 2>>>> @@ "c2" :> <<<<3, 0>>>> @@ "line" :> <<<<1, 2>>, <<1, 4>>>>
            @@ "box" :> <<<<2, 3>>, <<0, 2>>>> @@ "polygon" :> <<<<0, 0>>, <<0, 3>>, <<2, 3>>, <<2, 0>>, <<0, 0>>>>
MCCompounds == {"vector", "line", "box", "polygon"}
\* Patterns that all engines read alike, and one that regcomp() reads as a literal.
MCRegexps ==
  {<<engine, ".*", id>> : engine \in {"pcre", "js", "posix"}, id \in {"E", "EE", "F", "G", "H"}}
  \cup UNION {{<<engine, "E", "E">>, <<engine, "E", "EE">>, <<engine, "^E$", "E">>} : engine \in {"pcre", "js", "posix"}}
  \cup {<<engine, "E|F", id>> : engine \in {"pcre", "js"}, id \in {"E", "EE", "F"}}
MCLonger == {<<"A", "AB">>}

\* Attributes of requests.
Attr(name, value) ==
  [name |-> name, id |-> "", value |-> value, type |-> "", location |-> "", md |-> NoFunction]
WithId(name, id, value) == [Attr(name, value) EXCEPT !.id = id]
Typed(name, type, value) == [Attr(name, value) EXCEPT !.type = type]
Located(name, value) == [Attr(name, value) EXCEPT !.location = "WGS84"]
WithMd(name, value, md) == [Attr(name, value) EXCEPT !.md = "m" :> md]

Element(id, type, attrs) == [id |-> id, type |-> type, isPattern |-> FALSE, attrs |-> attrs]
Update(ver, act, flavour, elements) ==
  [kind |-> "update", api |-> ver, action |-> act, flavour |-> flavour, elements |-> elements,
   typeInfo |-> "any"]
V1(act, id, type, attrs) == Update("v1", act, "NONE", <<Element(id, type, attrs)>>)
V2(act, flavour, id, type, attrs) == Update("v2", act, flavour, <<Element(id, type, attrs)>>)
Query(entities, attrL, limit) ==
  [kind |-> "query", entities |-> entities, attrL |-> attrL, limit |-> limit, typeInfo |-> "any", scopes |-> <<>>]
En(id, type) == [id |-> id, type |-> type, isPattern |-> FALSE]
AnyOf(type) == [id |-> ".*", type |-> type, isPattern |-> TRUE]

Key(id, type) == [id |-> id, type |-> type]
Empty == [k \in {} |-> 0]
Doc(id, type, attrs) == Key(id, type) :> NewEntity(attrs, 0, "v1")

Base == [policy |-> "all", dbFails |-> FALSE, attrL |-> {}, regs |-> <<>>, db |-> Empty,
         updates |-> {}, queries |-> {}, rests |-> "none", maxRequests |-> 4]

\* Attributes with and without IDs; names of which one begins with another.
Ids ==
  [Base EXCEPT
     !.updates =
       {V1("APPEND", "E", "T", <<Attr("A", "1")>>),
        V1("APPEND", "E", "T", <<WithId("A", "1", "1"), WithId("A", "2", "1")>>),
        V1("APPEND", "E", "T", <<Attr("A", "1"), WithId("A", "1", "2")>>),
        V1("APPEND", "E", "T", <<Attr("AB", "1"), Attr("B", "1")>>),
        V1("UPDATE", "E", "T", <<WithId("A", "1", "2")>>),
        V1("UPDATE", "E", "T", <<Attr("A", "2"), Attr("B", "2")>>),
        V1("APPEND_STRICT", "E", "T", <<Attr("A", "3"), Attr("B", "3")>>),
        V1("DELETE", "E", "T", <<WithId("A", "1", NoValue)>>),
        V1("DELETE", "E", "T", <<WithId("A", "1", NoValue), WithId("A", "2", NoValue)>>),
        V1("DELETE", "E", "T", <<Attr("A", NoValue)>>),
        V1("DELETE", "E", "T", <<>>)}]

\* The location of an entity, in both versions of the interface.
Places ==
  [Base EXCEPT
     !.updates =
       {V1("APPEND", "E", "T", <<Located("L", "c1"), Attr("A", "1")>>),
        V1("APPEND", "E", "T", <<Located("M", "c2")>>),
        V1("APPEND", "E", "T", <<Attr("M", "c1")>>),
        V1("UPDATE", "E", "T", <<Located("M", "c1")>>),
        V1("UPDATE", "E", "T", <<Attr("L", "c2")>>),
        V1("UPDATE", "E", "T", <<Attr("L", "x"), Attr("A", "2")>>),
        V1("UPDATE", "E", "T", <<Attr("A", "2"), Located("M", "c2")>>),
        V1("DELETE", "E", "T", <<Attr("L", NoValue)>>),
        V1("DELETE", "E", "T", <<Located("M", NoValue)>>),
        V1("DELETE", "E", "T", <<Attr("A", NoValue), Attr("M", NoValue)>>),
        V2("UPDATE", "NONE", "E", "T", <<Typed("L", GEO_POINT, "c2")>>),
        V2("UPDATE", "NONE", "E", "T", <<Typed("L", "Text", "c1")>>),
        V2("UPDATE", "NONE", "E", "T", <<Attr("A", "3"), Typed("M", GEO_POINT, "c1")>>)}]

\* NGSIv2: creation, append to an existing entity, replacement, null values.
Flavours ==
  [Base EXCEPT
     !.updates =
       {V2("APPEND_STRICT", "ONCREATE", "E", "T", <<Attr("A", "1"), Typed("B", "Text", "1")>>),
        V2("APPEND_STRICT", "ONCREATE", "E", "", <<Attr("A", "1")>>),
        V2("APPEND", "ONAPPENDORUPDATE", "E", "T", <<Attr("A", "2"), Attr("C", "vector")>>),
        V2("APPEND", "ONAPPENDORUPDATE", "E", "", <<Attr("A", NoValue)>>),
        V2("APPEND_STRICT", "ONAPPENDORUPDATE", "E", "", <<Attr("A", "3"), Attr("C", "3")>>),
        V2("UPDATE", "NONE", "E", "", <<WithMd("A", "1", "x"), Attr("B", "vector")>>),
        V2("REPLACE", "NONE", "E", "T", <<Attr("B", "2")>>),
        V2("DELETE", "NONE", "E", "", <<>>),
        V2("DELETE", "NONE", "E", "T", <<Attr("A", NoValue)>>)}]

\* NGSIv1 requests without a type, on several entities at once.
Several ==
  [Base EXCEPT
     !.db = Doc("E", "T", <<Attr("A", "1")>>) @@ Doc("E", "U", <<Attr("B", "1")>>),
     !.attrL = {"A"},
     !.updates =
       {Update("v1", "APPEND", "NONE", <<Element("E", "", <<Attr("A", "2"), Attr("B", "2")>>),
                                         Element("F", "", <<Attr("A", "1")>>)>>),
        Update("v1", "UPDATE", "NONE", <<Element("F", "", <<Attr("A", "2")>>),
                                         Element("E", "", <<Attr("A", "2"), Attr("B", "1")>>)>>),
        Update("v1", "APPEND_STRICT", "NONE", <<Element("E", "", <<Attr("C", "1")>>),
                                                Element("E", "", <<Attr("A", "3")>>)>>),
        Update("v1", "DELETE", "NONE", <<Element("E", "", <<>>),
                                         Element("F", "", <<Attr("A", NoValue)>>)>>),
        Update("v1", "UPDATE", "NONE", <<Element("E", "T", <<Attr("A", "1"), Attr("A", "2")>>),
                                         [Element("E", "T", <<>>) EXCEPT !.isPattern = TRUE],
                                         Element("E", "T", <<Attr("A", NoValue)>>)>>)}]

\* The database may fail at every operation.
Failing ==
  [Base EXCEPT
     !.dbFails = TRUE,
     !.db = Doc("E", "T", <<Attr("A", "1")>>) @@ Doc("E", "U", <<Attr("A", "1")>>),
     !.updates =
       {V1("APPEND", "E", "", <<Attr("A", "2"), Located("L", "c1")>>),
        V1("DELETE", "E", "", <<>>),
        V2("UPDATE", "NONE", "E", "T", <<Attr("A", "3")>>),
        V2("APPEND_STRICT", "ONCREATE", "F", "T", <<Attr("A", "1")>>)},
     !.queries = {Query(<<AnyOf("")>>, {"A"}, 20)}]

\* Without the request semaphore.
Unlocked ==
  [Base EXCEPT
     !.policy = "none",
     !.db = Doc("E", "T", <<Attr("A", "1"), Attr("B", "1")>>),
     !.updates =
       {V1("UPDATE", "E", "T", <<Attr("A", "2")>>),
        V1("APPEND", "E", "T", <<Attr("B", "2"), Attr("C", "2")>>),
        V1("DELETE", "E", "T", <<Attr("B", NoValue)>>),
        V1("DELETE", "E", "T", <<>>),
        V2("APPEND_STRICT", "ONCREATE", "E", "T", <<Attr("A", "3")>>)},
     !.queries = {Query(<<En("E", "T")>>, {"B", "C"}, 20)}]

\* Positions of every shape, in no particular order of the corners; queries about areas, in NGSIv1.
Shaped(id, type, value) == Key(id, "T") :> NewEntity(<<Typed("L", type, value)>>, 0, "v2")
Shapes == Shaped("E", GEO_POINT, "c1") @@ Shaped("F", GEO_LINE, "line") @@ Shaped("G", GEO_BOX, "box")
          @@ Shaped("EE", GEO_POLYGON, "polygon") @@ Doc("H", "T", <<Attr("L", "c1")>>)

Word(word) == [word |-> word, n |-> 0]
Number(word, n) == [word |-> word, n |-> n]
Within(geometry, coords) == [Query(<<AnyOf("")>>, {}, 20) EXCEPT !.scopes = <<ScopeFill("v1", geometry, coords, <<>>)>>]
Areas ==
  [Base EXCEPT
     !.maxRequests = 2, !.db = Shapes,
     !.updates =
       {V1("UPDATE", "E", "T", <<Attr("L", "c2")>>), V1("APPEND", "H", "T", <<Located("M", "c2")>>),
        V2("UPDATE", "NONE", "G", "T", <<Typed("L", GEO_LINE, "line")>>)},
     !.queries =
       UNION {{Within(<<Number("circle", 0), Number("radius", r)>> \o o, <<<<2, 1>>>>),
               Within(<<Word("polygon")>> \o o, <<<<0, 1>>, <<0, 3>>, <<2, 3>>, <<2, 1>>>>)} :
              r \in {1, 2}, o \in {<<>>, <<Word("external")>>}}]

UpdateInstances == {Ids, Places, Flavours, Several, Failing, Unlocked, Areas}

\* Registrations of attributes, of whole entities and without types.
Reg(id, type, attrs, app) ==
  [entities |-> {[id |-> id, type |-> type]}, attrs |-> attrs, app |-> app]
Registrations == <<Reg("E", "T", {"B"}, "p1"), Reg("E", "T", {}, "p2"),
                   Reg("F", "", {"A"}, "p1"), Reg("F", "T", {"A", "B"}, "p3")>>

Providers ==
  [Base EXCEPT
     !.maxRequests = 2,
     !.policy = "write",
     !.regs = Registrations,
     !.db = Doc("E", "T", <<Attr("A", "1")>>) @@ Doc("G", "T", <<Attr("A", "1")>>),
     !.updates =
       {V1("UPDATE", "E", "T", <<Attr("A", "2"), Attr("B", "2"), Attr("C", "2")>>),
        V1("UPDATE", "G", "T", <<Attr("A", "2"), Attr("B", "2")>>),
        V1("APPEND", "F", "T", <<Attr("B", "1")>>),
        Update("v1", "UPDATE", "NONE",
               <<Element("F", "T", <<Attr("A", "2"), Attr("B", "3")>>),
                 Element("G", "T", <<Attr("B", "4"), Attr("A", "4")>>),
                 Element("E", "T", <<Attr("B", "5"), Attr("A", "5")>>)>>),
        V1("DELETE", "E", "T", <<Attr("A", NoValue)>>)},
     !.queries =
       {Query(<<En("E", "T")>>, {}, 20), Query(<<En("E", "T"), En("F", "T")>>, {"A", "B"}, 20),
        Query(<<En("F", "")>>, {"A"}, 20), Query(<<AnyOf("T")>>, {"B"}, 1),
        Query(<<AnyOf("")>>, {}, 20), Query(<<En("G", "T")>>, {"A"}, 20)}]

OperationInstances == UpdateInstances \cup {Providers, [Providers EXCEPT !.policy = "none"]}
=============================================================================
