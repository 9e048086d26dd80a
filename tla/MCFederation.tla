---- MODULE MCFederation ----
(***************************************************************************)
(* The requests of a few clients, each with its optional members present   *)
(* and absent, to a broker that knows three providers and asks two.        *)
(***************************************************************************)
EXTENDS Federation

MCIllegal == {"<b>", "&lt;b&gt;", "E<", "E&lt;"}
MCEscape == [s \in MCIllegal |-> IF s \in {"E<", "E&lt;"} THEN "E&lt;" ELSE "&lt;b&gt;"]

\* A backslash before a 'q' is no JSON, before a 't' it is a tab, and before "u003c" it is a '<'.
MCUnescaped == "E\\q" :> "" @@ "E\\t" :> "E\t" @@ "E\t" :> "" @@ "E\\u003c" :> "E<"
Backslashed == {"E\\q", "E\\t", "E\\u003c"}

MCSixDigits == "1234567.8" :> "1.23457e+06"
MCIsodate2str == "7" :> "2017-01-01"

(* Trees *)
Str(s) == [kind |-> "str", s |-> s]
Obj(members) == [kind |-> "obj", members |-> members]
Arr(elems) == [kind |-> "arr", elems |-> elems]
Member(name, tree) == [name |-> name, tree |-> tree]
Field(name, s) == Member(name, Str(s))

\* The objects with one choice of members from each set
RECURSIVE Selections(_)
Selections(sets) == IF sets = <<>> THEN {<<>>} ELSE {first \o rest : first \in Head(sets), rest \in Selections(Tail(sets))}
Objects(sets) == {Obj(members) : members \in Selections(sets)}
Given(member) == {<<member>>}
Maybe(member) == {<<>>, <<member>>}
OneOf(name, trees) == {<<Member(name, tree)>> : tree \in trees}

(* Parts *)
Metadatas == {Arr(<<Obj(<<Field("name", "m"), Field("type", "t"), Field("value", "1")>>)>>),
              Arr(<<Obj(<<Field("value", "1"), Field("name", "m")>>), Obj(<<Field("name", "n"), Field("value", "2")>>)>>)}
BadMetadatas == {Arr(<<Obj(<<Field("name", "m"), Field("value", "")>>)>>), Arr(<<Obj(<<Field("value", "1")>>)>>), Arr(<<Obj(<<Field("name", "m"), Field("unit", "1")>>)>>)}
Compounds == {Obj(<<Field("x", "1"), Member("y", Arr(<<Str("1"), Str("2")>>))>>), Arr(<<Str("1"), Obj(<<Field("x", "")>>)>>), Arr(<<Arr(<<Str("1")>>)>>)}
BadCompounds == {Obj(<<Field("x", "1"), Field("x", "2")>>), Obj(<<Field("x", "<b>")>>), Arr(<<Str("<b>")>>)}

AttributeA ==
  Objects(<<Given(Field("name", "A")), Maybe(Field("type", "T")), {<<>>} \cup OneOf("value", {Str("v"), Str("")} \cup Compounds), {<<>>} \cup OneOf("metadatas", Metadatas)>>)
BadAttributes ==
  Objects(<<Given(Field("name", "A")), OneOf("value", {Str("<b>")} \cup BadCompounds)>>)
  \cup Objects(<<Given(Field("name", "A")), OneOf("value", {Str("v")} \cup Compounds), OneOf("metadatas", BadMetadatas)>>)
  \cup {Obj(<<Field("value", "v")>>), Obj(<<Field("name", "A"), Field("attribute", "v")>>)}
AttributeB == {Obj(<<Field("name", "B")>>), Obj(<<Field("name", "B"), Field("type", "T"), Field("value", "w")>>)}
Plain(name) == Obj(<<Field("name", name), Field("type", "T"), Field("value", "v")>>)

Entity == {Obj(<<Field("id", "E")>>), Obj(<<Field("type", "T"), Field("isPattern", "false"), Field("id", "E")>>)}
BadEntity == {Obj(<<Field("type", "T")>>), Obj(<<Field("id", "E"), Field("isPattern", "maybe")>>)}
Pattern == Obj(<<Field("id", "E"), Field("isPattern", "true")>>)

(* Clients *)
Ci(apiVersion, attributeFormat, method, payloadWord) ==
  [apiVersion |-> apiVersion, attributeFormat |-> attributeFormat, collapse |-> "", httpStatusCode |-> SccOk, answer |-> "",
   method |-> method, payloadWord |-> payloadWord]
Url == [id |-> "E", type |-> "T", attributeName |-> "A"]
Client(origin, request, theCi, tree, msg) == [origin |-> origin, request |-> request, url |-> Url, ci |-> theCi, tree |-> tree, msg |-> msg]
NoTree == Str("")

V1(request, method, trees) == {Client("v1", request, Ci("v1", "", method, ""), tree, NoMessage) : tree \in trees}

Element(attributes) == Obj(<<Field("id", "E"), Field("type", "T"), Member("attributes", attributes)>>)
UpdateOf(element, action) == Obj(<<Member("contextElements", Arr(<<element>>)), Field("updateAction", action)>>)

UpdateTrees ==
  {UpdateOf(Element(Arr(<<a>>)), "UPDATE") : a \in AttributeA \cup BadAttributes}
  \cup {UpdateOf(Element(Arr(<<Plain("A"), b>>)), "UPDATE") : b \in AttributeB}
  \cup {UpdateOf(Element(Arr(<<Plain("A"), Plain("B"), Plain("C")>>)), "update")}
  \cup {UpdateOf(Obj(<<Member("attributes", Arr(<<Plain("A")>>))>> \o e.members), action) : e \in Entity \cup BadEntity, action \in {"APPEND", "grow"}}
  \cup {UpdateOf(Obj(<<Field("id", "E"), Member("attributes", Arr(<<Plain("A")>>)), Member("domainMetadatas", Arr(<<Obj(<<Field("name", "m"), Field("value", "1")>>)>>)), Field("attributeDomainName", "D")>>), "UPDATE")}
  \cup {Obj(<<Field("updateAction", "UPDATE")>>), Arr(<<>>)}
  \cup {UpdateOf(Obj(<<Field("id", id), Field("type", type), Member("attributes", Arr(<<Plain("A")>>))>>), "UPDATE") :
          id \in Backslashed \cup {"E"}, type \in {"T", "E\\q"}}
  \cup {UpdateOf(Element(Arr(<<Obj(<<Field("name", "A"), Member("value", Obj(<<Field(name, "1")>>))>>)>>)), "UPDATE") : name \in Backslashed}

ElementTrees == Objects(<<{<<>>, <<Member("attributes", Arr(<<Plain("A"), Plain("B")>>))>>, <<Member("attributes", Arr(<<Obj(<<>>)>>))>>}, Maybe(Field("attributeDomainName", "D"))>>)
AppendTrees ==
  Objects(<<{<<>>, <<Field("id", "E")>>, <<Field("id", "F")>>}, {<<>>, <<Field("type", "U")>>}, {<<>>, <<Field("isPattern", "true")>>, <<Field("isPattern", "x")>>},
            Maybe(Member("attributes", Arr(<<Plain("A")>>))), {<<>>} \cup OneOf("metadatas", Metadatas)>>)
AttributeTrees == Objects(<<Maybe(Field("type", "T")), {<<>>} \cup OneOf("value", {Str("v")} \cup Compounds \cup BadCompounds), {<<>>} \cup OneOf("metadatas", Metadatas \cup BadMetadatas)>>)

Entities(e) == Given(Member("entities", Arr(<<e>>)))
Attributes == {<<>>, <<Member("attributes", Arr(<<Str("A")>>))>>, <<Member("attributes", Arr(<<Str("A"), Str("")>>))>>}

Restriction(scopes) == <<Member("restriction", Obj(<<Member("scopes", Arr(scopes))>>))>>
Scope(type, value) == Obj(<<Field("type", type), Member("value", value)>>)
Vertex(latitude, longitude) == Obj(<<Field("latitude", latitude), Field("longitude", longitude)>>)
Circles == {Obj(ms) : ms \in Selections(<<Maybe(Field("centerLatitude", "1")), Given(Field("centerLongitude", "2")), {<<Field("radius", r)>> : r \in {"0", "3"}},
                                       {<<>>} \cup {<<Field("inverted", i)>> : i \in {"true", "perhaps"}}>>)}
Polygons == {Obj(<<Member("vertices", Arr(vs))>>) :
               vs \in {<<Vertex("1", "1"), Vertex("2", "2")>>, <<Vertex("1", "1"), Vertex("2", "2"), Vertex("3", "1")>>, <<Vertex("bad", "1"), Vertex("2", "2"), Vertex("3", "")>>}}
AreaScopes == {Scope("FIWARE::Location", Obj(<<Member("circle", c)>>)) : c \in Circles} \cup {Scope("FIWARE::Location", Obj(<<Member("polygon", p)>>)) : p \in Polygons}
TextScopes == {Scope("T", Str("v")), Scope("T", Str("")), Scope("", Str("v")), Scope("T", Str("<b>")), Scope(SCOPE_TYPE_SIMPLE_QUERY, Str("<b>"))}
Points == Arr(<<Arr(<<Str("1"), Str("2")>>), Arr(<<Str("3"), Str("4")>>)>>)
GeoScopes == {Scope(FIWARE_LOCATION_V2, Obj(<<Field("geometry", g), Member("coords", Points), Member("georel", Arr(<<Str(rel)>>))>>)) :
                g \in {"point", "line", "polygon", "box"}, rel \in {"near", "coveredBy"}}
Restrictions(scopes) == {<<>>} \cup {Restriction(<<sc>>) : sc \in scopes} \cup {Restriction(<<>>)}

QueryTrees ==
  Objects(<<UNION {Entities(e) : e \in Entity \cup BadEntity \cup {Pattern}} \cup {<<>>}, Attributes>>)
  \cup Objects(<<UNION {Entities(Obj(<<Field("id", id), Field("isPattern", "false")>>)) : id \in Backslashed}>>)
  \cup Objects(<<Entities(Obj(<<Field("id", "E")>>)), Restrictions(AreaScopes \cup TextScopes \cup GeoScopes)>>)
DiscoverTrees ==
  Objects(<<UNION {Entities(Obj(<<Field("id", id)>>)) : id \in Backslashed}>>)
  \cup Objects(<<UNION {Entities(e) : e \in Entity \cup BadEntity} \cup {<<>>}, Attributes, Restrictions(TextScopes)>>)

Conditions == {<<>>} \cup {<<Member("notifyConditions", Arr(<<Obj(<<Field("type", type)>> \o values)>>))>> :
                             type \in {"ONCHANGE", "ONTIMEINTERVAL"}, values \in {<<>>, <<Member("condValues", Arr(<<Str("A")>>))>>, <<Member("condValues", Arr(<<Str("")>>))>>}}
Strings(name, strings) == {<<>>} \cup {<<Field(name, s)>> : s \in strings}
SubscribeTrees ==
  Objects(<<Entities(Obj(<<Field("id", "E")>>)), Strings("reference", {"url", "bad"}), Strings("duration", {"P1D", "bad"}), Strings("throttling", {"PT1S", "bad"}), Conditions>>)
  \cup Objects(<<Entities(Pattern), Given(Field("reference", "url")), Restrictions(AreaScopes \cup TextScopes)>>)
UpdateSubscriptionTrees ==
  Objects(<<Strings("subscriptionId", {"id", "bad"}), Strings("duration", {"P1D", "bad"}), Strings("throttling", {"PT1S"}), Restrictions({Scope("T", Str("v"))}), Conditions>>)
UnsubscribeTrees == Objects(<<Strings("subscriptionId", {"id", "bad", "<b>"})>>)

RegistrationAttribute == Objects(<<Maybe(Field("name", "A")), Maybe(Field("type", "T")), Strings("isDomain", {"false", "maybe"}), {<<>>} \cup OneOf("metadatas", Metadatas)>>)
RegisterTrees ==
  {Obj(<<Member("contextRegistrations", Arr(<<Obj(<<Member("entities", Arr(<<e>>)), Member("attributes", Arr(<<a>>))>> \o app)>>))>> \o duration) :
     e \in {Obj(<<Field("id", "E")>>), Pattern}, a \in RegistrationAttribute, app \in Strings("providingApplication", {"app"}), duration \in Strings("duration", {"P1D", "bad"})}
  \cup Objects(<<{<<>>, <<Member("contextRegistrations", Arr(<<Obj(<<Field("providingApplication", "app")>>)>>))>>}, Strings("registrationId", {"id", "bad"})>>)
ProviderTrees == Objects(<<Strings("duration", {"P1D", "bad"}), Strings("providingApplication", {"app"}), Strings("registrationId", {"id", "bad"}), {<<>>} \cup OneOf("metadatas", Metadatas \cup BadMetadatas)>>)
AvailabilityTrees ==
  Objects(<<UNION {Entities(e) : e \in Entity \cup BadEntity \cup {Pattern}} \cup {<<>>}, Attributes, Strings("duration", {"P1D", "bad"}),
            {<<Field("reference", "url")>>, <<>>}, Restrictions({Scope("T", Str(""))})>>)
UpdateAvailabilityTrees ==
  Objects(<<UNION {Entities(e) : e \in BadEntity \cup {Pattern}} \cup {<<>>}, Strings("duration", {"P1D"}), Strings("subscriptionId", {"id", "bad"}), Restrictions({Scope("T", Str(""))})>>)
NotifyTrees == {Obj(<<Field("subscriptionId", "id"), Field("originator", "o"),
                      Member("contextResponses", Arr(<<Obj(<<Member("contextElement", Element(Arr(<<a>>)))>> \o status)>>))>>) :
                  a \in AttributeB, status \in {<<>>, <<Member("statusCode", Obj(<<Field("code", "200"), Field("reasonPhrase", "OK")>>))>>, <<Member("statusCode", Obj(<<Field("code", "ok")>>))>>}}

V1Clients ==
  V1("UpdateContext", "POST", UpdateTrees)
  \cup {Client("v1", "UpdateContext", Ci("v1", "object", "POST", ""), tree, NoMessage) : tree \in {UpdateOf(Element(Arr(<<Plain("A"), Plain("A")>>)), "UPDATE"), UpdateOf(Element(Arr(<<Plain("A"), Plain("B")>>)), "APPEND"),
                                                                                                      UpdateOf(Element(Arr(<<Plain("E\\q")>>)), "APPEND")}}
  \cup V1("UpdateContextElement", "PUT", ElementTrees) \cup V1("UpdateContextElement", "DELETE", {Obj(<<>>)}) \cup V1("AppendContextElement", "POST", AppendTrees)
  \cup {Client("v1", "UpdateContextAttribute", Ci("v1", "", "PUT", "updateContextAttributeRequest"), tree, NoMessage) : tree \in AttributeTrees}
  \cup V1("QueryContext", "POST", QueryTrees) \cup V1("DiscoverContextAvailability", "POST", DiscoverTrees)
  \cup V1("SubscribeContext", "POST", SubscribeTrees) \cup V1("UpdateContextSubscription", "PUT", UpdateSubscriptionTrees)
  \cup V1("UnsubscribeContext", "POST", UnsubscribeTrees) \cup V1("UnsubscribeContextAvailability", "POST", UnsubscribeTrees)
  \cup V1("RegisterContext", "POST", RegisterTrees) \cup V1("RegisterProvider", "POST", ProviderTrees)
  \cup V1("SubscribeContextAvailability", "POST", AvailabilityTrees) \cup V1("UpdateContextAvailabilitySubscription", "PUT", UpdateAvailabilityTrees)
  \cup V1("NotifyContext", "POST", NotifyTrees)

GetClients ==
  {Client("get", request, [Ci("v1", format, "GET", "") EXCEPT !.collapse = collapse], NoTree, NoMessage) :
     request \in (QueryRequests \cup TypeRequests) \ {"QueryContext"}, format \in {"", "object"}, collapse \in {"", "true"}}

(* Messages *)
Attr(name, type, valueType, value, compound, metadatas) ==
  [name |-> name, type |-> type, valueType |-> valueType, value |-> value, compound |-> compound, metadatas |-> metadatas]
Md(type, valueType, value) == <<[name |-> "m", type |-> type, valueType |-> valueType, value |-> value]>>
AnObject == <<CompoundNode("", "object", "", <<CompoundNode("x", "number", "1234567.8", <<>>), CompoundNode("y", "none", "", <<>>)>>)>>
ObjectOf(s) == <<CompoundNode("", "object", "", <<CompoundNode("x", "string", s, <<>>)>>)>>

MCStoredAttributes ==
  {Attr("A", "T", "string", "v", <<>>, Md("t", "string", "1")), Attr("A", "", "number", "1234567.8", <<>>, <<>>), Attr("B", "T", "string", "", AnObject, Md("t", "number", "1"))}

V2Values == {<<"string", "v">>, <<"number", "1234567.8">>, <<"bool", "true">>, <<"none", "">>}
V2Metadatas == {<<>>, Md("", "string", "1"), Md("t", "number", "1")}
V2Attributes ==
  {Attr("A", type, v[1], v[2], <<>>, md) : type \in {"", "T"}, v \in V2Values, md \in V2Metadatas}
  \cup {Attr("A", DATE_TYPE, "number", "7", <<>>, md) : md \in V2Metadatas}
  \cup {Attr("A", "T", "string", "", ObjectOf(s), <<>>) : s \in Backslashed}
  \cup {Attr("A", "T", "string", "", AnObject, md) : md \in {<<>>, Md("t", "bool", "true")}}
V2Clients ==
  {Client("v2", "UpdateContext", Ci("v2", "", "PATCH", ""), NoTree,
          [contextElements |-> <<[id |-> id, type |-> "T", isPattern |-> "false", attributeDomainName |-> "", attributes |-> attributes, metadatas |-> <<>>]>>,
           updateAction |-> "UPDATE", errorString |-> ""]) :
     id \in {"E", "E\\t"},
     attributes \in {<<attr>> : attr \in V2Attributes} \cup {<<attr, [attr EXCEPT !.name = "B"]>> : attr \in {Attr("A", "T", "string", "", AnObject, <<>>)}}}
  \cup {Client("v2", "QueryContext", Ci("v2", "", "GET", ""), NoTree, QueryOf([id |-> "E", type |-> "", isPattern |-> "false"], <<>>).msg)}

Notifiers ==
  {Client("notifier", "NotifyContext", Ci("v1", "", "POST", ""), NoTree,
          [subscriptionId |-> "id", originator |-> originator, errorString |-> "",
           contextResponses |-> [n \in 1..Len(attributes) |-> Cer([id |-> id, type |-> "T", isPattern |-> "false"], attributes[n], StatusFill(SccOk, ""))]]) :
     id \in {"E"} \cup Backslashed, originator \in {"", "localhost"}, attributes \in {<<<<attr>>>> : attr \in MCStoredAttributes} \cup {<<<<>>, SetToSeq(MCStoredAttributes)>>}}
  \cup {Client("notifier", "NotifyContextAvailability", Ci("v1", "", "POST", ""), NoTree,
               [subscriptionId |-> "id", errorString |-> "",
                contextRegistrationResponses |-> <<[entities |-> entities, attributes |-> attributes, metadatas |-> md, providingApplication |-> "app"] @@ NoStatus>>]) :
          entities \in {<<[id |-> id, type |-> "T", isPattern |-> "false"]>> : id \in {"E"} \cup Backslashed} \cup {<<[id |-> "E", type |-> "", isPattern |-> "false"], [id |-> "F", type |-> "T", isPattern |-> "false"]>>},
          attributes \in {<<>>, <<[name |-> "A", type |-> "T", isDomain |-> "false", metadatas |-> Md("t", "string", "1")]>>}, md \in {<<>>, Md("", "string", "1")}}

MCClients == V1Clients \cup GetClients \cup V2Clients \cup Notifiers
====
