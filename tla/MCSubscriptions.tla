-------------------------- MODULE MCSubscriptions --------------------------
(***************************************************************************)
(* NGSIv2: entities and what is read of them, for payloads with every      *)
(* shape of attribute; a subscription, with and without the cache; the     *)
(* filters of both.  The three do not interact: a behaviour is one of      *)
(* theirs.                                                                 *)
(***************************************************************************)
EXTENDS V2Entities, Subscriptions, FilterMeaning

VARIABLE machine    \* which of the three

MCIllegal == {"<b>", "&lt;b&gt;"}
MCEscape == [s \in MCIllegal |-> "&lt;b&gt;"]
MCDateOf == [s \in {"2017-01-01"} |-> 7] @@ [s \in {"epoch"} |-> 0] @@ [s \in {"10"} |-> 10] @@ [s \in {"12"} |-> 12]
            @@ [s \in {"20"} |-> 20] @@ [s \in {"34"} |-> 34]
MCUnescaped == [s \in {"TAB"} |-> ""]
MCSixDigits == [s \in {"1234567.8", "1234570"} |-> "1.23457e+06"]
MCDoubleOf == [s \in {"1.23457e+06"} |-> "1234570"] @@ [s \in {"1.50"} |-> "1.5"]
MCIsodate2str == [s \in {"7", "10", "12", "20", "34"} |-> IF s = "7" THEN "2017-01-01" ELSE s]
MCDotEncoded == [s \in {"a.b"} |-> "a=b"]
MCNameParts == [s \in {"n__i"} |-> <<"n", "i">>]
MCStatements ==
  [s \in {""} |-> <<>>] @@ [s \in {"A>1"} |-> <<Item("A", ">", "value", <<Token("Number", 1)>>)>>]
  @@ [s \in {"B"} |-> <<Item("B", "exists", "value", <<>>)>>] @@ [s \in {"bad"} |-> <<Item("", "exists", "value", <<>>)>>]

(***************************************************************************)
(* JSON trees                                                              *)
(***************************************************************************)
JString(name, s) == JsonNode(name, "String", s, <<>>)
JNumber(name, s) == JsonNode(name, "Number", s, <<>>)
JObject(name, kids) == JsonNode(name, "Object", "", kids)
JArray(name, kids) == JsonNode(name, "Array", "", kids)
Doc(tree) == [ok |-> TRUE, tree |-> tree]
NotADoc == [ok |-> FALSE, tree |-> JObject("", <<>>)]

(***************************************************************************)
(* Attributes                                                              *)
(***************************************************************************)
PlainValues(name) == {JString(name, "x"), JString(name, ""), JNumber(name, "1.50"), JNumber(name, "1234567.8"), JsonNode(name, "True", "true", <<>>), JsonNode(name, "Null", "", <<>>)}
CompoundValues(name) ==
  {JObject(name, <<JNumber("a.b", "1234567.8"), JArray("v", <<JString("", "x"), JObject("", <<JString("k", "y")>>)>>)>>),
   JArray(name, <<JString("", "x"), JString("", "y")>>)}

WithMetadata(md) == <<JString("value", "x"), JObject("metadata", <<md>>)>>

Members ==
  {<<>>, <<JString("type", "DateTime"), JString("value", "2017-01-01")>>, <<JString("type", "DateTime"), JString("value", "x")>>, <<JString("type", "DateTime"), JNumber("value", "10")>>,
   <<JNumber("type", "1")>>, <<JString("type", "")>>, <<JString("other", "x")>>, <<JString("type", "T"), JString("metadata", "x")>>}
  \cup {<<v>> : v \in PlainValues("value") \cup CompoundValues("value") \cup {JString("value", "<b>"), JString("value", "TAB"), JObject("value", <<JString("a=b", "x")>>)}}
  \cup {WithMetadata(md) : md \in PlainValues("M") \cup {JArray("M", <<>>), JObject("M", <<JString("type", "T"), JNumber("value", "1")>>),
                                                       JObject("M", <<JString("type", "")>>), JObject("M", <<JString("other", "x")>>), JObject("M", <<JArray("value", <<>>)>>), JString("ID", "i"), JString("type", "x")}}

Seconds == {<<JString("value", "x")>>, <<JNumber("value", "2")>>}

One == {<<JObject(name, ms)>> : name \in {"a.b", "n"}, ms \in Members} \cup {<<JObject(name, ms)>> : name \in {"", "n__i", "<b>", "id?"}, ms \in Seconds}
Two == {<<JObject("a.b", ms), JObject(name, ms2)>> : name \in {"a.b", "n"}, ms \in Members, ms2 \in Seconds}
Three == {<<JObject("a.b", ms), JObject("n", ms2), JObject("o", ms3)>> : ms \in Seconds, ms2 \in Seconds, ms3 \in Seconds}
KeyValues == {<<v>> : v \in PlainValues("n") \cup CompoundValues("n")}

Ids == {<<JString("id", "E"), JString("type", "T")>>, <<JString("id", "E")>>}
BadIds == {<<>>, <<JString("id", "")>>, <<JString("id", "<b>"), JObject("n", <<>>)>>, <<JString("id", "E?")>>, <<JNumber("id", "1")>>, <<JString("id", "E"), JString("type", "")>>,
           <<JString("id", "E"), JNumber("type", "1")>>, <<JString("id", "TAB")>>, <<JString("idPattern", "E")>>}

Creation(keyValues, request, doc1) == [ci |-> [PlainV2 EXCEPT !.keyValues = keyValues], request |-> request, doc |-> doc1]
EntityPayloads ==
  {[keyValues |-> FALSE, kids |-> id \o attrs] : id \in Ids, attrs \in {<<>>} \cup One \cup Two \cup Three}
  \cup {[keyValues |-> FALSE, kids |-> id] : id \in BadIds} \cup {[keyValues |-> TRUE, kids |-> id \o attrs] : id \in Ids, attrs \in KeyValues}
BatchOf(kids) == Doc(JObject("", <<JString("actionType", "APPEND"), JArray("entities", <<JObject("", kids)>>)>>))
BadBatches == {Doc(JObject("", <<JString("actionType", "APPEND")>>)), Doc(JObject("", <<JArray("entities", <<>>)>>)),
               Doc(JObject("", <<JString("actionType", "APPEND"), JString("entities", "x")>>)),
               Doc(JObject("", <<JString("actionType", "APPEND"), JArray("entities", <<JString("", "x")>>)>>)),
               Doc(JObject("", <<JString("actionType", "APPEND"), JArray("entities", <<JObject("", <<JString("id", "E")>>)>>), JString("other", "x")>>)),
               Doc(JObject("", <<>>)), Doc(JArray("", <<>>)), NotADoc}

MCCreations ==
  {Creation(p.keyValues, "EntitiesRequest", Doc(JObject("", p.kids))) : p \in EntityPayloads}
  \cup {Creation(p.keyValues, "BatchUpdateRequest", BatchOf(p.kids)) : p \in EntityPayloads}
  \cup {Creation(FALSE, "BatchUpdateRequest", d) : d \in BadBatches}
  \cup {Creation(FALSE, "EntitiesRequest", d) : d \in {NotADoc, Doc(JArray("", <<>>))}}

MCAttrsFilters == {<<>>, <<"n">>, <<"n", "a.b">>}
MCQueries ==
  {Doc(JObject("", kids)) : kids \in
     {<<>>, <<JArray("entities", <<JObject("", <<JString("id", "E")>>)>>)>>, <<JArray("entities", <<JObject("", <<JString("idPattern", ".*"), JString("type", "U")>>)>>)>>,
      <<JArray("entities", <<JObject("", <<JString("id", "E"), JObject("n", <<>>)>>)>>)>>,
      <<JArray("attributes", <<JString("", "n")>>)>>, <<JArray("attributes", <<JNumber("", "1")>>)>>, <<JString("other", "x")>>,
      <<JArray("scopes", <<JObject("", <<JString("type", "FIWARE::StringQuery"), JString("value", "")>>)>>)>>,
      <<JArray("entities", <<JObject("", <<JString("id", "E")>>)>>), JArray("scopes", <<JString("", "x")>>)>>}}

(***************************************************************************)
(* Subscriptions                                                           *)
(***************************************************************************)
MCPathParts == [s \in {"", "/"} |-> <<>>] @@ [s \in {"/#"} |-> <<"#">>] @@ [s \in {"/a"} |-> <<"a">>] @@ [s \in {"/a/#"} |-> <<"a", "#">>]
               @@ [s \in {"/a/b"} |-> <<"a", "b">>]
\* The bar is a bar to regcomp(), and JavaScript has no classes of characters.
MCPatternMatches ==
  UNION {{<<engine, "E.*", "E">>, <<engine, ".*", "E">>, <<engine, ".*", "F">>} : engine \in {"posix", "js"}}
  \cup {<<"js", "E|F", "E">>, <<"js", "E|F", "F">>, <<"posix", "[[:alpha:]]", "E">>, <<"posix", "[[:alpha:]]", "F">>}
MCInt64Of == [s \in {"0", "1", "5"} |-> CASE s = "0" -> 0 [] s = "1" -> 1 [] s = "5" -> 5]

Names(name, names) == JArray(name, [ix \in DOMAIN names |-> JString("", names[ix])])
Typed2(idName, id, type) == JObject("", <<JString(idName, id), JString("type", type)>>)
ET == Typed2("id", "E", "T")

SubjectOf(entities, attrs, expression) ==
  JObject("subject", <<JArray("entities", entities), JObject("condition", <<Names("attrs", attrs)>> \o expression)>>)
NotificationOf(url, attrs) == JObject("notification", <<JObject("http", <<JString("url", url)>>)>> \o attrs)
ExpressionOf(kids) == <<JObject("expression", kids)>>

PlainSubject == SubjectOf(<<ET>>, <<"A">>, <<>>)
PlainNotification == NotificationOf("url", <<>>)

Subjects2 ==
  {SubjectOf(<<JObject("", <<JString("idPattern", "E.*")>>)>>, <<"A">>, <<>>),
   SubjectOf(<<Typed2("idPattern", "E.*", "T"), ET>>, <<"B">>, <<>>),
   SubjectOf(<<Typed2("idPattern", "E|F", "T")>>, <<"A">>, <<>>), SubjectOf(<<Typed2("idPattern", "[[:alpha:]]", "T")>>, <<"A">>, <<>>),
   SubjectOf(<<JObject("", <<JString("id", "E")>>)>>, <<>>, <<>>), SubjectOf(<<JObject("", <<JString("type", "T")>>)>>, <<"A">>, <<>>),
   SubjectOf(<<ET, Typed2("id", "F", "U"), ET>>, <<"A", "B">>, <<>>),
   SubjectOf(<<ET>>, <<"A">>, ExpressionOf(<<JString("q", "A>1")>>)),
   SubjectOf(<<ET>>, <<"A">>, ExpressionOf(<<JString("q", "B"), JString("geometry", "point"), JString("coords", "1,2"), JString("georel", "near")>>))}
BadSubjects ==
  {JString("subject", "x"), JObject("subject", <<>>), JObject("subject", <<JArray("entities", <<ET>>)>>), SubjectOf(<<JString("", "x")>>, <<>>, <<>>),
   SubjectOf(<<JObject("", <<>>)>>, <<>>, <<>>), SubjectOf(<<JObject("", <<JNumber("id", "1")>>)>>, <<>>, <<>>),
   SubjectOf(<<JObject("", <<JString("id", "E"), JString("idPattern", "E")>>)>>, <<>>, <<>>),
   SubjectOf(<<ET>>, <<>>, ExpressionOf(<<JString("q", "bad")>>)), SubjectOf(<<ET>>, <<>>, ExpressionOf(<<JNumber("georel", "1")>>)),
   SubjectOf(<<ET>>, <<>>, <<JString("expression", "x")>>),
   JObject("subject", <<JString("entities", "x"), JObject("condition", <<>>)>>), JObject("subject", <<JArray("entities", <<ET>>), JObject("condition", <<>>)>>),
   JObject("subject", <<JArray("entities", <<ET>>), JString("condition", "x")>>),
   JObject("subject", <<JArray("entities", <<ET>>), JObject("condition", <<JArray("attrs", <<JNumber("", "1")>>)>>)>>)}
Notifications2 == {NotificationOf("url", <<Names("attrs", <<"A">>)>>), NotificationOf("url2", <<Names("attrs", <<"B", "A">>)>>), NotificationOf("url", <<Names("attrs", <<>>)>>)}
BadNotifications == {JString("notification", "x"), JObject("notification", <<>>), JObject("notification", <<JString("http", "x")>>),
                     JObject("notification", <<JObject("http", <<>>)>>), JObject("notification", <<JObject("http", <<JNumber("url", "1")>>)>>),
                     NotificationOf("bad", <<>>), NotificationOf("url", <<JString("attrs", "x")>>)}
Others2 ==
  {JString("description", "TAB"), JString("expires", "12"), JString("status", "inactive"), JNumber("throttling", "5"), JString("attrsFormat", "keyValues")}
Rarely == {JString("description", ""), JString("expires", ""), JString("expires", "epoch"), JString("status", "active"), JNumber("throttling", "0"),
           JNumber("throttling", "1")}
BadOthers == {JNumber("description", "1"), JString("description", "long"), JString("expires", "x"), JNumber("expires", "1"), JString("status", "expired"),
              JNumber("status", "1"), JString("throttling", "1"), JNumber("throttling", "1.5"), JString("attrsFormat", "x"), JNumber("attrsFormat", "1")}

PostOf(kids, paths) == [doc |-> Doc(JObject("", kids)), paths |-> paths]
MCPosts ==
  {PostOf(<<PlainSubject, PlainNotification>>, paths) : paths \in {<<"">>, <<"/a">>, <<"/a/#">>, <<"/", "/a">>}}
  \cup {PostOf(<<sub, PlainNotification>>, <<"/a/#">>) : sub \in Subjects2 \cup BadSubjects}
  \cup {PostOf(<<PlainSubject, n>>, <<"">>) : n \in Notifications2 \cup BadNotifications}
  \cup {PostOf(<<PlainSubject, PlainNotification, o>>, <<"">>) : o \in Others2 \cup BadOthers \cup {JString("expires", "epoch"), JNumber("throttling", "1")}}
  \cup {PostOf(<<PlainSubject>>, <<"">>), PostOf(<<PlainNotification>>, <<"">>), PostOf(<<>>, <<"">>), [doc |-> NotADoc, paths |-> <<"">>]}
  \cup {PostOf(<<SubjectOf(<<>>, <<>>, <<>>), PlainNotification>>, <<"">>)}

PatchOf(kids, path) == [doc |-> Doc(JObject("", kids)), path |-> path]
MCPatches ==
  {PatchOf(<<x>>, "") : x \in Subjects2 \cup Notifications2 \cup Others2 \cup Rarely \cup {SubjectOf(<<>>, <<"A">>, <<>>)}}
  \cup {PatchOf(<<JString("status", "active")>>, "/a"), PatchOf(<<JString("status", "x")>>, ""), PatchOf(<<>>, "")}
  \cup {PatchOf(<<PlainSubject, NotificationOf("url2", <<>>), JNumber("throttling", "5")>>, "")}

UpdateOf(id, type, modified, attrs, path) ==
  [id |-> id, type |-> type, modified |-> modified, entity |-> [attrs |-> attrs, creDate |-> 2, modDate |-> 2], path |-> path]
AttrsOf(names, n) == [a \in names |-> Value("number", n)]
MCUpdates ==
  {UpdateOf("E", "T", {"A"}, AttrsOf({"A"}, 1), "/a"), UpdateOf("E", "T", {"A"}, AttrsOf({"A", "B"}, 2), "/a/b"),
   UpdateOf("E", "T", {"B"}, AttrsOf({"B"}, 2), "/"), UpdateOf("E", "", {"A"}, AttrsOf({"A"}, 2), "/a"), UpdateOf("E", "U", {"A"}, AttrsOf({"A"}, 2), "/a"),
   UpdateOf("F", "U", {"A"}, AttrsOf({"A"}, 2), "/a"), UpdateOf("F", "T", {"A"}, AttrsOf({"A"}, 2), "")}

(***************************************************************************)
(* The three machines                                                      *)
(***************************************************************************)
vars == <<machine, entityVars, subscriptionVars, filterVars>>

Init ==
  \/ machine = "entities" /\ EntityInit /\ SubscriptionInit /\ FilterIdle
  \/ machine = "subscription" /\ EntityInit /\ SubscriptionInit /\ FilterIdle
  \/ machine = "filter" /\ EntityInit /\ SubscriptionInit /\ FilterInit

OfEntities == machine = "entities" /\ UNCHANGED <<machine, subscriptionVars, filterVars>>
OfSubscription == machine = "subscription" /\ UNCHANGED <<machine, entityVars, filterVars>>
OfFilter == machine = "filter" /\ UNCHANGED <<machine, entityVars, subscriptionVars>>

Next ==
  \/ OfEntities /\ Create
  \/ OfEntities /\ GetEntity
  \/ OfEntities /\ GetEntities
  \/ OfEntities /\ Query
  \/ OfEntities /\ GetAttribute
  \/ OfEntities /\ Notify
  \/ OfSubscription /\ Post
  \/ OfSubscription /\ Patch
  \/ OfSubscription /\ Synchronize
  \/ OfSubscription /\ Update
  \/ OfSubscription /\ Get
  \/ OfSubscription /\ GetAll
  \/ OfSubscription /\ Delete
  \/ OfFilter /\ ParseFilter
  \/ OfFilter /\ CloneFilter

Spec == Init /\ [][Next]_vars

=============================================================================
