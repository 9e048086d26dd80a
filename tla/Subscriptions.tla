--------------------------- MODULE Subscriptions ---------------------------
(***************************************************************************)
(* An NGSIv2 subscription: POST, PATCH, GET and DELETE, what they leave in *)
(* the database and in the subscription cache, and the notifications that  *)
(* updates of entities trigger.                                            *)
(*                                                                         *)
(* The same requests go to two brokers, each with a database of its own.   *)
(* One matches updates against its subscription cache, which it            *)
(* synchronizes with the database now and then.  The other one was started *)
(* with the option -noCache and asks the database; it has an item for the  *)
(* subscription too, because the requests on subscriptions do not look at  *)
(* the option.  Everything happens within one request or one               *)
(* synchronization: how these interleave is in module SubCache.            *)
(*                                                                         *)
(* A service path is a string.  PathParts gives its components, the last   *)
(* of which is "#" when the path ends in it.  A filter is named by its     *)
(* text q, "" being no filter.                                             *)
(***************************************************************************)
EXTENDS NgsiV2

CONSTANTS
  Posts,            \* [doc, paths]: POST /v2/subscriptions, with its vector of service paths
  Patches,          \* [doc, path]: PATCH /v2/subscriptions/<id>
  ListPaths,        \* the service paths of GET /v2/subscriptions
  Updates,          \* [id, type, modified, entity, path]: updates of entities
  Later,            \* the times after POST and PATCH: when updates and GET come
  PathParts,        \* the service paths, with their components
  PatternMatches,   \* {<<engine, pattern, id>>}: the ids that a pattern matches, to regcomp() ("posix") and to JavaScript ("js")
  Int64Of,          \* the numbers of the payloads that are integers
  MaxOperations     \* bound: operations after POST

ASSUME MaxOperationsIsNat == MaxOperations \in Nat

VARIABLES
  step,      \* "start", "refused", "subscribed" or "deleted"
  broker,    \* "cache" or "noCache" -> [doc, item]
  last,      \* what the last operation gave: [op, at, path, sent, text]
  history    \* ghost: [view, times, latest, excused, patched, left]: what the client asked for, the notifications that each
             \* broker sent and when it sent the latest, whether the brokers may differ, the bounds on operations

subscriptionVars == <<step, broker, last, history>>

Now == 10
PERMANENT_SUBS_DATETIME == 1000
DEFAULT_SERVICE_PATH_QUERIES == "/#"
Brokers == {"cache", "noCache"}

(***************************************************************************)
(* The payload                                                             *)
(***************************************************************************)
NoExpression == [isSet |-> FALSE, q |-> "", geometry |-> "", coords |-> "", georel |-> ""]

NewSubscription ==
  [res |-> "OK", description |-> "", descriptionProvided |-> FALSE, entities |-> <<>>, attributes |-> <<>>, reference |-> "",
   conditions |-> <<>>, expression |-> NoExpression, filter |-> "", expires |-> -1, status |-> "", throttling |-> -1,
   attrsFormat |-> "NO_FORMAT"]

Child(node, name) == SelectSeq(node.kids, LAMBDA kid : kid.name = name)[1]

\* The member of a name, if there is one; absent is the outcome without it.
IfMember(st, node, name, member(_, _), absent) ==
  IF st.res # "OK" THEN st ELSE IF HasMember(node, name) THEN member(st, Child(node, name)) ELSE absent

OptionalString(st, node, name, set(_, _)) ==
  IfMember(st, node, name, LAMBDA acc, kid : StringMember(acc, kid, name \o " is not a string", set), st)

SubjectEntity(node) ==
  LET Text(name) == IF HasMember(node, name) THEN Child(node, name).s ELSE ""
      id == IF HasMember(node, "idPattern") THEN Text("idPattern") ELSE Text("id")
  IN  [id |-> IF id = "" THEN ".*" ELSE id, type |-> Text("type"),
       isPattern |-> IF id = "" \/ HasMember(node, "idPattern") THEN "true" ELSE "false"]

parseEntitiesVector(st, node) ==
  LET Element(acc, kid) ==
        LET error == FirstError(<<
              Refuse(kid.type # "Object", "subject entities element is not an object"),
              Refuse(\A name \in {"id", "idPattern", "type"} : ~HasMember(kid, name), "subject entities element has not id/idPattern"),
              Refuse(HasMember(kid, "id") /\ HasMember(kid, "idPattern"), "subject entities element has id and idPattern"),
              Refuse(\E name \in {"id", "idPattern", "type"} : HasMember(kid, name) /\ Child(kid, name).type # "String",
                     "subject entities element is not a string")>>)
        IN  IF error # "OK" THEN Fails(acc, error)
            ELSE [acc EXCEPT !.entities = IF Contains(@, SubjectEntity(kid)) THEN @ ELSE Append(@, SubjectEntity(kid))]
  IN  IF node.type # "Array" THEN Fails(st, "subject entities is not an array") ELSE ForEach(Element, st, node)

\* The names in an array of strings, or the reason
parseAttributeNames(node) ==
  IF node.type # "Array" THEN [res |-> "attrs is not an array", names |-> <<>>]
  ELSE [res |-> IF \E ix \in DOMAIN node.kids : node.kids[ix].type # "String" THEN "attrs element is not an string" ELSE "OK",
        names |-> [ix \in DOMAIN node.kids |-> node.kids[ix].s]]

SetFilter(st, q) ==
  IF ~FilterIsValid(q) THEN Fails(st, "invalid filter") ELSE [st EXCEPT !.expression.q = q, !.filter = q]

\* What the members of a node set, asked for in the order of names
InOrder(set(_, _), start, names) == FoldLeft(LAMBDA st, name : IF st.res = "OK" THEN set(st, name) ELSE st, start, names)

parseExpression(st, node) ==
  LET Member(acc, name) ==
        OptionalString(acc, node, name, LAMBDA acc2, s : IF name = "q" THEN SetFilter(acc2, s) ELSE [acc2 EXCEPT !.expression[name] = s])
  IN  IF node.type # "Object" THEN Fails(st, "expression is not an object")
      ELSE InOrder(Member, [st EXCEPT !.expression.isSet = TRUE], <<"q", "geometry", "coords", "georel">>)

\* One condition, of the type ONCHANGE
parseNotifyConditionVector(st, node) ==
  LET Attrs(acc, kid) ==
        LET parsed == parseAttributeNames(kid)
        IN  [acc EXCEPT !.res = parsed.res, !.conditions = <<[type |-> "ONCHANGE", condValues |-> parsed.names]>>]
      afterAttrs == IF node.type # "Object" THEN Fails(st, "condition is not an object")
                    ELSE IfMember(st, node, "attrs", Attrs, Fails(st, "no condition attrs specified"))
  IN  IfMember(afterAttrs, node, "expression", parseExpression, afterAttrs)

parseSubject(st, node) ==
  LET afterEntities == IF node.type # "Object" THEN Fails(st, "subject is not an object")
                       ELSE IfMember(st, node, "entities", parseEntitiesVector, Fails(st, "no subject entities specified"))
  IN  IfMember(afterEntities, node, "condition", parseNotifyConditionVector, Fails(afterEntities, "no subject condition specified"))

parseHttp(st, node) ==
  LET Url(acc, kid) ==
        LET error == IF kid.type # "String" THEN "url http notification is not a string" ELSE ReferenceCheck("SubscribeContext", kid.s)
        IN  [acc EXCEPT !.res = error, !.reference = kid.s]
  IN  IF node.type # "Object" THEN Fails(st, "http notification is not an object")
      ELSE IfMember(st, node, "url", Url, Fails(st, "url http notification is missing"))

parseNotification(st, node) ==
  LET Attrs(acc, kid) ==
        LET parsed == parseAttributeNames(kid) IN [acc EXCEPT !.res = parsed.res, !.attributes = parsed.names]
      afterHttp == IF node.type # "Object" THEN Fails(st, "notification is not an object")
                   ELSE IfMember(st, node, "http", parseHttp, Fails(st, "http notification is missing"))
  IN  IfMember(afterHttp, node, "attrs", Attrs, afterHttp)

SetDescription(st, s) ==
  IF s \in TooLong THEN Fails(st, "max description length exceeded")
  ELSE [st EXCEPT !.descriptionProvided = TRUE, !.description = s]

SetExpires(st, s) ==
  IF s # "" /\ parse8601Time(s) = -1 THEN Fails(st, "expires has an invalid format")
  ELSE [st EXCEPT !.expires = IF s = "" THEN PERMANENT_SUBS_DATETIME ELSE parse8601Time(s)]

SetStatus(st, s) == IF s \notin {"active", "inactive"} THEN Fails(st, "status is not valid") ELSE [st EXCEPT !.status = s]

SetThrottling(st, kid) ==
  IF kid.type # "Number" \/ kid.s \notin DOMAIN Int64Of THEN Fails(st, "throttling is not an int")
  ELSE [st EXCEPT !.throttling = Int64Of[kid.s]]

stringToRenderFormat(s) ==
  IF s \in {"JSON", "legacy"} THEN "JSON" ELSE IF s \in {"normalized", "keyValues", "values", "uniqueValues"} THEN s ELSE "NO_FORMAT"

SetAttrsFormat(st, s) ==
  IF stringToRenderFormat(s) = "NO_FORMAT" THEN Fails(st, "invalid attrsFormat") ELSE [st EXCEPT !.attrsFormat = stringToRenderFormat(s)]

\* PATCH (update) has no defaults, but one: the format.
SubscriptionMember(st, name, t, update) ==
  CASE name = "description" -> OptionalString(st, t, name, SetDescription)
    [] name = "subject" ->
         IfMember(st, t, name, parseSubject, IF update THEN st ELSE Fails(st, "no subject for subscription specified"))
    [] name = "notification" ->
         IfMember(st, t, name, parseNotification, IF update THEN st ELSE Fails(st, "no notification for subscription specified"))
    [] name = "expires" ->
         IF update \/ HasMember(t, name) THEN OptionalString(st, t, name, SetExpires)
                                         ELSE [st EXCEPT !.expires = PERMANENT_SUBS_DATETIME]
    [] name = "status" -> OptionalString(st, t, name, SetStatus)
    [] name = "throttling" -> IfMember(st, t, name, SetThrottling, IF update THEN st ELSE [st EXCEPT !.throttling = 0])
    [] name = "attrsFormat" ->
         IF HasMember(t, name) THEN OptionalString(st, t, name, SetAttrsFormat) ELSE [st EXCEPT !.attrsFormat = "normalized"]

parseSubscription(doc, update) ==
  InOrder(LAMBDA st, name : SubscriptionMember(st, name, doc.tree, update),
          [NewSubscription EXCEPT !.res = FirstError(<<Unreadable(doc), Refuse(doc.tree.kids = <<>>, "empty payload")>>)],
          <<"description", "subject", "notification", "expires", "status", "throttling", "attrsFormat">>)

WithCheck(parsed) ==
  IF parsed.res # "OK" THEN parsed
  ELSE [parsed EXCEPT !.res = SubscribeContextRequestCheck(
          [entities |-> parsed.entities, attributes |-> parsed.attributes, reference |-> parsed.reference, duration |-> "",
           restrictions |-> 0, notifyConditions |-> parsed.conditions, throttling |-> ""])]

\* jsonRequestTreat(): the payload of POST is checked, that of PATCH is not.  restriction.check() is told of no restriction.
CheckedSubscription(doc) == WithCheck(parseSubscription(doc, FALSE))

(***************************************************************************)
(* The document and the cached item                                        *)
(***************************************************************************)
DEFAULT_DURATION == 24

\* Whether the notification of a new or changed subscription goes out, found being whether the database has something for it
processConditionVector(conditions, status, found) == conditions # <<>> /\ status = "active" /\ found

effectivePath(path) == IF path = "" THEN DEFAULT_SERVICE_PATH_QUERIES ELSE path

Expression(expression) ==
  [q |-> expression.q, geometry |-> expression.geometry, coords |-> expression.coords, georel |-> expression.georel]

\* The count of a document that has none: such a document has no lastNotification either, which is 0 here.
Absent == -1
CountOf(doc) == IF doc.count = Absent THEN 0 ELSE doc.count

SubscriptionDocument(req, path, done, now) ==
  [servicePath |-> effectivePath(path), description |-> req.description,
   expiration |-> IF req.expires > 0 THEN req.expires ELSE now + DEFAULT_DURATION,
   reference |-> req.reference, throttling |-> req.throttling, entities |-> req.entities, attrs |-> req.attributes,
   status |-> IF req.status = "" THEN "active" ELSE req.status, conditions |-> req.conditions,
   expression |-> Expression(req.expression), lastNotification |-> IF done THEN now ELSE 0, 
   count |-> IF done THEN 1 ELSE Absent, format |-> req.attrsFormat]

\* What a cached item takes from a document
ItemOf(doc, servicePath, lastNotificationTime, count, filter) ==
  [servicePath |-> servicePath, entities |-> doc.entities, attributes |-> doc.attrs, conditions |-> doc.conditions,
   reference |-> doc.reference, expirationTime |-> doc.expiration, throttling |-> doc.throttling, status |-> doc.status,
   renderFormat |-> doc.format, lastNotificationTime |-> lastNotificationTime, count |-> count, filter |-> filter]

mongoSubscribeContext(req, path, found, now) ==
  LET done == processConditionVector(req.conditions, IF req.status = "" THEN "active" ELSE req.status, found)
      doc == SubscriptionDocument(req, path, done, now)
  IN  [doc |-> doc, item |-> ItemOf(doc, doc.servicePath, doc.lastNotification, IF done THEN 1 ELSE 0, req.filter)]

\* Empty lists, a throttling that is not positive and what the payload does not have leave the document as it is; the
\* service path is that of the request.
UpdatedConditions(doc, req) ==
  [doc EXCEPT !.status = IF req.status # "" THEN req.status ELSE @,
              !.conditions = IF req.conditions # <<>> THEN req.conditions ELSE @,
              !.expression = IF req.expression.isSet THEN Expression(req.expression) ELSE @]

UpdatedDocument(doc, req, path) ==
  [UpdatedConditions(doc, req) EXCEPT
              !.servicePath = effectivePath(path),
              !.reference = IF req.reference # "" THEN req.reference ELSE @,
              !.entities = IF req.entities # <<>> THEN req.entities ELSE @,
              !.attrs = IF req.attributes # <<>> THEN req.attributes ELSE @,
              !.expiration = IF req.expires > 0 THEN req.expires ELSE @,
              !.throttling = IF req.throttling > 0 THEN req.throttling ELSE @,
              !.description = IF req.descriptionProvided THEN req.description ELSE @,
              !.format = req.attrsFormat]

\* Mutant: the notifications that the item has counted are forgotten.
PatchForgetsCount(b, req, path, done, stored, now) ==
  LET lastNotificationTime == IF done THEN now ELSE b.item.lastNotificationTime
      doc == [UpdatedDocument(b.doc, req, path) EXCEPT
                !.lastNotification = IF done \/ (@ # 0 /\ lastNotificationTime > @) THEN lastNotificationTime ELSE @,
                !.count = IF done THEN CountOf(b.doc) + 1 ELSE IF @ = Absent THEN Absent ELSE @]
  IN  IF stored THEN [doc |-> doc, item |-> ItemOf(doc, b.item.servicePath, lastNotificationTime, 0, req.filter)]
      ELSE [b EXCEPT !.item.count = @ + (IF done THEN 1 ELSE 0), !.item.lastNotificationTime = lastNotificationTime]

\* The notifications that the item has counted go to the document, if that has a count or gets one, and are forgotten if it
\* does not.  The new item has the old one's service path, and the filter of the request.  When the document cannot be
\* written, the notification that was sent stays counted in the item.
mongoUpdateContextSubscription(b, req, path, done, stored, now) ==
  LET lastNotificationTime == IF done THEN now ELSE b.item.lastNotificationTime
      doc == [UpdatedDocument(b.doc, req, path) EXCEPT
                !.lastNotification = IF done \/ (@ # 0 /\ lastNotificationTime > @) THEN lastNotificationTime ELSE @,
                !.count = IF done THEN CountOf(b.doc) + b.item.count + 1 ELSE IF @ = Absent THEN Absent ELSE @ + b.item.count]
  IN  IF stored THEN [doc |-> doc, item |-> ItemOf(doc, b.item.servicePath, lastNotificationTime, 0, req.filter)]
      ELSE [b EXCEPT !.item.count = @ + (IF done THEN 1 ELSE 0), !.item.lastNotificationTime = lastNotificationTime]

\* mongoSubCacheRefresh() reads no filter.  What the item had counted, and its time if it is later, go to the document.
subCacheSync(b) ==
  [doc |-> [b.doc EXCEPT !.count = IF b.item.count # 0 THEN CountOf(b.doc) + b.item.count ELSE @,
                         !.lastNotification = IF b.item.lastNotificationTime > @ THEN b.item.lastNotificationTime ELSE @],
   item |-> ItemOf(b.doc, b.doc.servicePath, b.doc.lastNotification, 0, "")]

(***************************************************************************)
(* Updates                                                                 *)
(***************************************************************************)
EntityInfoMatch(element, id, type) ==
  /\ type = "" \/ element.type \in {"", type}
  /\ IF element.isPattern = "true" THEN <<"posix", element.id, id>> \in PatternMatches ELSE id = element.id

attributeMatch(conditions, modified) ==
  \E ix \in DOMAIN conditions : \/ conditions[ix].condValues = <<>>
                                \/ \E jx \in DOMAIN conditions[ix].condValues : conditions[ix].condValues[jx] \in modified

\* Mutant: a path that ends in "/#" is not for what is at the path itself.
BelowOnly(subPath, path) ==
  LET parts == PathParts[subPath]
  IN  IF parts # <<>> /\ Last(parts) = "#" THEN IsStrictPrefix(Front(parts), PathParts[path])
      ELSE subPath = IF path = "" THEN "/" ELSE path

servicePathMatch(subPath, path) ==
  LET parts == PathParts[subPath]
  IN  IF parts # <<>> /\ Last(parts) = "#" THEN IsPrefix(Front(parts), PathParts[path])
      ELSE subPath = IF path = "" THEN "/" ELSE path

subMatch(item, u) ==
  /\ servicePathMatch(item.servicePath, u.path)
  /\ attributeMatch(item.conditions, u.modified)
  /\ \E ix \in DOMAIN item.entities : EntityInfoMatch(item.entities[ix], u.id, u.type)

addTriggeredSubscriptions_withCache(item, u, now) ==
  /\ subMatch(item, u)
  /\ item.expirationTime >= now /\ item.status # "inactive"
  /\ item.throttling = -1 \/ item.lastNotificationTime = 0 \/ now - item.lastNotificationTime >= item.throttling

servicePathSubscriptionRegex(path) ==
  LET parts == PathParts[path]
      wildcards == {SubSeq(parts, 1, ix) \o <<"#">> : ix \in 0..Len(parts)}
  IN  {p \in DOMAIN PathParts : p = "" \/ PathParts[p] = parts \/ PathParts[p] \in wildcards}

\* The id, the type and isPattern of queryNoPattern may be those of three different elements of the document.
queryNoPattern(entities, u) ==
  /\ \E ix \in DOMAIN entities : entities[ix].id = u.id
  /\ (\E ix \in DOMAIN entities : entities[ix].type = u.type /\ u.type # "") \/ (\A ix \in DOMAIN entities : entities[ix].type = "")
  /\ \E ix \in DOMAIN entities : entities[ix].isPattern = "false"

queryPattern(entities, u) ==
  \E ix \in DOMAIN entities : /\ entities[ix].isPattern = "true" /\ entities[ix].type \in {"", u.type}
                              /\ <<"js", entities[ix].id, u.id>> \in PatternMatches

addTriggeredSubscriptions_noCache(doc, u, now) ==
  /\ queryNoPattern(doc.entities, u) \/ queryPattern(doc.entities, u)
  /\ doc.expiration > now /\ doc.status # "inactive"
  /\ doc.servicePath \in servicePathSubscriptionRegex(u.path)
  /\ attributeMatch(doc.conditions, u.modified)

\* What is kept of a subscription that is triggered: of the item, or of the document
TriggeredItem(item) ==
  [throttling |-> item.throttling, lastNotification |-> item.lastNotificationTime, q |-> item.filter,
   attrL |-> item.attributes, renderFormat |-> item.renderFormat, reference |-> item.reference]
TriggeredDocument(doc) ==
  [throttling |-> doc.throttling, lastNotification |-> doc.lastNotification, q |-> doc.expression.q,
   attrL |-> doc.attrs, renderFormat |-> doc.format, reference |-> doc.reference]

\* processSubscriptions() and processOnChangeConditionForUpdateContext(): the throttling (its test means -1 where it says
\* 1), the filter, and whether there is an attribute to send
processSubscriptions(trigs, u, now) ==
  /\ trigs.throttling = 1 \/ trigs.lastNotification = 1 \/ trigs.throttling <= now - trigs.lastNotification
  /\ trigs.q = "" \/ match(clone(parse(Statements[trigs.q])).filters, u.entity, 0)
  /\ IF trigs.attrL = <<>> THEN u.entity.attrs # <<>>
     ELSE \E ix \in DOMAIN trigs.attrL : trigs.attrL[ix] \in DOMAIN u.entity.attrs

Sending(reference, format, attrL) == <<[reference |-> reference, format |-> format, attrs |-> attrL]>>

\* The notification that a broker sends for an update, if it does
Triggered(mode, b, u, now) ==
  LET trigs == IF mode = "cache" THEN TriggeredItem(b.item) ELSE TriggeredDocument(b.doc)
      found == IF mode = "cache" THEN addTriggeredSubscriptions_withCache(b.item, u, now)
                                 ELSE addTriggeredSubscriptions_noCache(b.doc, u, now)
  IN  IF found /\ processSubscriptions(trigs, u, now) THEN Sending(trigs.reference, trigs.renderFormat, trigs.attrL) ELSE <<>>

\* What the broker remembers of it: in the item, or in the document
Counted(mode, b, now) ==
  IF mode = "cache" THEN [b EXCEPT !.item.lastNotificationTime = now, !.item.count = @ + 1]
                    ELSE [b EXCEPT !.doc.lastNotification = now, !.doc.count = CountOf(b.doc) + 1]

(***************************************************************************)
(* What GET answers                                                        *)
(***************************************************************************)
toJsonString(s) == <<<<"str", s>>>>

vectorToJson(list, toJson(_)) == <<<<"[", "">>>> \o Separated([ix \in DOMAIN list |-> toJson(list[ix])]) \o <<<<"]", "">>>>
stringsToJson(list) == vectorToJson(list, toJsonString)

\* The methods of JsonHelper: each adds a member, with a comma if it is not the first one.
addString(key, value) == <<Key(key) \o toJsonString(value)>>
addRaw(key, value) == <<Key(key) \o value>>
addNumber(key, value) == <<Key(key) \o Scalar(ToString(value), TRUE)>>
addDate(key, timestamp) == addString(key, isodate2str[ToString(timestamp)])
str(members) == Object(Separated(members))

EntIDToJson(en) == str(addString("id", en.id) \o addString("idPattern", en.idPattern) \o addString("type", en.type))

ConditionToJson(condition) ==
  LET Text(name) == IF condition.expression[name] = "" THEN <<>> ELSE addString(name, condition.expression[name])
      expression == Text("q") \o Text("geometry") \o Text("coords") \o Text("georel")
  IN  str(addRaw("attrs", stringsToJson(condition.attributes))
          \o IF expression = <<>> THEN <<>> ELSE addRaw("expression", str(expression)))

SubjectToJson(sub) == str(addRaw("entities", vectorToJson(sub.entities, EntIDToJson)) \o addRaw("condition", ConditionToJson(sub.condition)))

NotificationToJson(sub) ==
  str((IF sub.timesSent > 0 THEN addNumber("timesSent", sub.timesSent) ELSE <<>>)
      \o (IF sub.lastNotification > 0 THEN addDate("lastNotification", sub.lastNotification) ELSE <<>>)
      \o addRaw("attrs", stringsToJson(sub.attrs))
      \o addRaw("http", str(addString("url", sub.url))))

SubscriptionToJson(sub) ==
  str(addString("id", sub.id)
      \o (IF sub.description # "" THEN addString("description", sub.description) ELSE <<>>)
      \o (IF sub.expires # PERMANENT_SUBS_DATETIME THEN addDate("expires", sub.expires) ELSE <<>>)
      \o addString("status", sub.status)
      \o addRaw("subject", SubjectToJson(sub))
      \o addRaw("notification", NotificationToJson(sub))
      \o IF sub.throttling > 0 THEN addNumber("throttling", sub.throttling) ELSE <<>>)

setEntity(element) ==
  [id |-> IF element.isPattern = "false" THEN element.id ELSE "",
   idPattern |-> IF element.isPattern = "false" THEN "" ELSE element.id, type |-> element.type]

setSubject(doc) ==
  [entities |-> [ix \in DOMAIN doc.entities |-> setEntity(doc.entities[ix])],
   condition |-> [attributes |-> FlattenSeq([ix \in DOMAIN doc.conditions |-> doc.conditions[ix].condValues]),
                  expression |-> doc.expression]]

\* The document, and what the item has counted since it was written
setNotification(b) ==
  [attrs |-> b.doc.attrs, url |-> b.doc.reference, throttling |-> b.doc.throttling, 
   timesSent |-> IF b.item.count # 0 THEN CountOf(b.doc) + b.item.count ELSE b.doc.count,
   lastNotification |-> IF b.item.lastNotificationTime > b.doc.lastNotification THEN b.item.lastNotificationTime
                                                                               ELSE b.doc.lastNotification]

setStatus(doc, now) == [expires |-> doc.expiration, status |-> IF doc.expiration > now THEN doc.status ELSE "expired"]

mongoGetSubscription(b, now) ==
  [id |-> "sub", description |-> b.doc.description] @@ setSubject(b.doc) @@ setNotification(b) @@ setStatus(b.doc, now)

mongoListSubscriptions(b, path, now) ==
  IF path \in {"", DEFAULT_SERVICE_PATH_QUERIES, b.doc.servicePath} THEN <<mongoGetSubscription(b, now)>> ELSE <<>>

(***************************************************************************)
(* The client's side: what a subscription is, from the payloads alone      *)
(***************************************************************************)
RECURSIVE Asked(_, _)
Asked(node, names) ==
  IF names = <<>> THEN <<node>> ELSE IF HasMember(node, Head(names)) THEN Asked(Child(node, Head(names)), Tail(names)) ELSE <<>>

AskedText(tree, names, otherwise) == LET found == Asked(tree, names) IN IF found = <<>> THEN otherwise ELSE found[1].s

AskedList(tree, names, read(_), otherwise) ==
  LET found == Asked(tree, names) IN IF found = <<>> THEN otherwise ELSE [ix \in DOMAIN found[1].kids |-> read(found[1].kids[ix])]

AskedEntity(node) ==
  LET pattern == AskedText(node, <<"idPattern">>, "")
      id == AskedText(node, <<"id">>, "")
  IN  [id |-> id, idPattern |-> IF id = "" /\ pattern = "" THEN ".*" ELSE pattern, type |-> AskedText(node, <<"type">>, "")]

AskedExpiration(text, otherwise, default) ==
  IF text = "none" THEN otherwise ELSE IF text = "" THEN PERMANENT_SUBS_DATETIME
  ELSE IF DateOf[text] > 0 THEN DateOf[text] ELSE default

NothingAsked ==
  [description |-> "", expires |-> PERMANENT_SUBS_DATETIME, status |-> "active", throttling |-> 0, url |-> "", entities |-> <<>>,
   condition |-> <<>>, expression |-> Expression(NoExpression), attrs |-> <<>>, path |-> ""]

OrElse(list, otherwise) == IF list = <<>> THEN otherwise ELSE list

\* What is given replaces what was; an expression is replaced as a whole.  Empty lists, a throttling of 0 and a date that is
\* not after the epoch count as not given.
AskedFor(old, tree, path, default) ==
  LET Text(node) == node.s
      throttling == Int64Of[AskedText(tree, <<"throttling">>, "0")]
      expression == Asked(tree, <<"subject", "condition", "expression">>)
  IN  [description |-> AskedText(tree, <<"description">>, old.description),
       expires |-> AskedExpiration(AskedText(tree, <<"expires">>, "none"), old.expires, default),
       status |-> AskedText(tree, <<"status">>, old.status),
       throttling |-> IF throttling > 0 THEN throttling ELSE old.throttling,
       url |-> AskedText(tree, <<"notification", "http", "url">>, old.url),
       entities |-> OrElse(AskedList(tree, <<"subject", "entities">>, AskedEntity, <<>>), old.entities),
       condition |-> AskedList(tree, <<"subject", "condition", "attrs">>, Text, old.condition),
       expression |-> IF expression = <<>> THEN old.expression
                      ELSE [name \in DOMAIN old.expression |-> AskedText(expression[1], <<name>>, "")],
       attrs |-> OrElse(AskedList(tree, <<"notification", "attrs">>, Text, <<>>), old.attrs),
       path |-> effectivePath(path)]

(***************************************************************************)
(* The requests                                                            *)
(***************************************************************************)
Nothing(value) == [m \in Brokers |-> value]

SubscriptionInit ==
  /\ step = "start"
  /\ broker = Nothing(<<>>)
  /\ last = [op |-> "none", at |-> Now, path |-> "", sent |-> Nothing(<<>>), text |-> Nothing(<<>>)]
  /\ history = [view |-> NothingAsked, excused |-> FALSE, patched |-> FALSE, left |-> MaxOperations,
                times |-> Nothing(0), twice |-> 0, forgotten |-> Nothing(0), latest |-> Nothing(0)]

Records(op, at, path, sent, text) == last' = [op |-> op, at |-> at, path |-> path, sent |-> sent, text |-> text]

\* The ghosts that count what was sent: each broker's notifications, and when it sent the latest.  twice are the ones of POST,
\* which are counted twice, and forgotten those that a PATCH has dropped.
Noted(ghost, sent, at) ==
  [ghost EXCEPT !.times = [m \in Brokers |-> ghost.times[m] + Len(sent[m])],
                !.latest = [m \in Brokers |-> IF sent[m] = <<>> THEN ghost.latest[m] ELSE at]]

\* POST /v2/subscriptions.  found: an entity of the subscription is in the database.  A subscription that cannot be stored has
\* sent its notification all the same.
postSubscriptions(doc, paths, found, stored) ==
  /\ step = "start"
  /\ \E req \in {CheckedSubscription(doc)} :
       \/ /\ req.res # "OK" \/ Len(paths) > 1 \/ ~stored
          /\ step' = "refused"
          /\ Records("post", Now, paths[1], Nothing(<<>>), Nothing(<<>>))
          /\ UNCHANGED <<broker, history>>
       \/ /\ req.res = "OK" /\ Len(paths) = 1 /\ stored
          /\ step' = "subscribed"
          /\ \E b \in {mongoSubscribeContext(req, paths[1], found, Now)} :
               /\ broker' = Nothing(b)
               /\ \E sent \in {Nothing(IF b.item.count = 1 THEN Sending(req.reference, req.attrsFormat, req.attributes) ELSE <<>>)} :
                    /\ Records("post", Now, paths[1], sent, Nothing(<<>>))
                    /\ history' = [Noted(history, sent, Now) EXCEPT
                         !.view = AskedFor(NothingAsked, doc.tree, paths[1], Now + DEFAULT_DURATION), !.twice = b.item.count]

Operates == step = "subscribed" /\ history.left > 0 /\ UNCHANGED step
OneLess(ghost) == [ghost EXCEPT !.left = @ - 1]

\* PATCH /v2/subscriptions/<id>.  The notification goes to the reference that the subscription had before.
patchSubscription(doc, path, found, stored) ==
  /\ Operates /\ ~history.patched
  /\ \E req \in {parseSubscription(doc, TRUE)} :
       \/ /\ req.res # "OK" /\ stored /\ ~found
          /\ Records("patch", last.at, path, Nothing(<<>>), Nothing(<<>>))
          /\ history' = [OneLess(history) EXCEPT !.patched = TRUE]
          /\ UNCHANGED broker
       \/ /\ req.res = "OK"
          /\ \E sent \in {[m \in Brokers |->
                 LET old == broker[m].doc
                 IN  IF processConditionVector(req.conditions, IF req.status = "" THEN old.status ELSE req.status, found)
                     THEN Sending(old.reference, req.attrsFormat, OrElse(req.attributes, old.attrs)) ELSE <<>>]} :
               /\ broker' = [m \in Brokers |->
                    mongoUpdateContextSubscription(broker[m], req, path, sent[m] # <<>>, stored, last.at)]
               /\ Records("patch", last.at, path, sent, Nothing(<<>>))
               /\ history' = [Noted(OneLess(history), sent, last.at) EXCEPT
                    !.patched = TRUE,
                    !.forgotten = [m \in Brokers |-> IF stored /\ sent[m] = <<>> /\ broker[m].doc.count = Absent
                                                     THEN broker[m].item.count ELSE 0],
                    !.view = IF stored THEN AskedFor(@, doc.tree, path, @.expires) ELSE @]

\* The cache is synchronized with the database.
Synchronize ==
  /\ Operates
  /\ broker' = [broker EXCEPT !["cache"] = subCacheSync(@)]
  /\ Records("sync", last.at, "", Nothing(<<>>), Nothing(<<>>))
  /\ history' = OneLess(history)

IdsRead(engine, p) == {m[3] : m \in {n \in PatternMatches : n[1] = engine /\ n[2] = p}}

\* The reasons why the two brokers may not agree about an update.  The type is not given: any type will do for the cache.  One
\* element of the document has the id and another one the type: they will do for the query.  The subscription expires at this
\* very second.  The item has not the filter or the service path of the document (it was synchronized, or it was PATCHed).  A
\* throttling of 1 is no throttling when the database is asked.  What the throttling counts from is known to the document but
\* not to the item (a synchronization), or to the item only (a PATCH that failed).  A pattern is not the same to regcomp(), by
\* which the cache goes, as to the JavaScript of the query.
MayDiffer(u, now) ==
  LET b == broker["cache"]
      Whole(element) == element.id = u.id /\ element.type \in {"", u.type} /\ element.isPattern = "false"
  IN  \/ u.type = ""
      \/ queryNoPattern(b.doc.entities, u) # \E ix \in DOMAIN b.doc.entities : Whole(b.doc.entities[ix])
      \/ \E ix \in DOMAIN b.doc.entities : LET e == b.doc.entities[ix] IN e.isPattern = "true" /\ IdsRead("posix", e.id) # IdsRead("js", e.id)
      \/ b.doc.expiration = now
      \/ b.item.filter # b.doc.expression.q
      \/ b.item.servicePath # b.doc.servicePath
      \/ b.doc.throttling = 1
      \/ b.doc.throttling > 0 /\ b.item.lastNotificationTime < b.doc.lastNotification
      \/ b.doc.throttling > 0 /\ broker["noCache"].item.lastNotificationTime > broker["noCache"].doc.lastNotification

\* An entity is updated.
EntityUpdated(u, now) ==
  /\ Operates /\ now >= last.at
  /\ \E sent \in {[m \in Brokers |-> Triggered(m, broker[m], u, now)]} :
       /\ broker' = [m \in Brokers |-> IF sent[m] = <<>> THEN broker[m] ELSE Counted(m, broker[m], now)]
       /\ Records("update", now, u.path, sent, Nothing(<<>>))
       /\ history' = [Noted(OneLess(history), sent, now) EXCEPT !.excused = @ \/ MayDiffer(u, now)]

getSubscription(now) ==
  /\ Operates /\ now >= last.at
  /\ Records("get", now, "", Nothing(<<>>), [m \in Brokers |-> SubscriptionToJson(mongoGetSubscription(broker[m], now))])
  /\ history' = [history EXCEPT !.left = 0]
  /\ UNCHANGED broker

getAllSubscriptions(path, now) ==
  /\ Operates /\ now >= last.at
  /\ Records("list", now, path, Nothing(<<>>),
             [m \in Brokers |-> vectorToJson(mongoListSubscriptions(broker[m], path, now), SubscriptionToJson)])
  /\ history' = [history EXCEPT !.left = 0]
  /\ UNCHANGED broker

\* removed: whether the database does what it is asked to
deleteSubscription(removed) ==
  /\ step = "subscribed" /\ history.left > 0
  /\ step' = IF removed THEN "deleted" ELSE step
  /\ broker' = IF removed THEN Nothing(<<>>) ELSE broker
  /\ Records("delete", last.at, "", Nothing(<<>>), Nothing(<<>>))
  /\ history' = OneLess(history)

Post == step = "start" /\ \E p \in Posts, found, stored \in BOOLEAN : postSubscriptions(p.doc, p.paths, found, stored)
Patch == step = "subscribed" /\ \E p \in Patches, found, stored \in BOOLEAN : patchSubscription(p.doc, p.path, found, stored)
Update == step = "subscribed" /\ \E u \in Updates, now \in Later : EntityUpdated(u, now)
Get == \E now \in Later : getSubscription(now)
GetAll == \E path \in ListPaths, now \in Later : getAllSubscriptions(path, now)
Delete == \E removed \in BOOLEAN : deleteSubscription(removed)

(***************************************************************************)
(* Properties                                                              *)
(***************************************************************************)
ToldNumber(node, names) == LET found == Asked(node, names) IN IF found = <<>> THEN "0" ELSE found[1].s

ToldDate(node, names, otherwise) == LET found == Asked(node, names) IN IF found = <<>> THEN otherwise ELSE DateOf[found[1].s]

\* What a subscription of an answer says
Told(node) ==
  [AskedFor(NothingAsked, node, "", 0) EXCEPT !.expires = ToldDate(node, <<"expires">>, PERMANENT_SUBS_DATETIME)]

SubscriptionIsTold(node, m, now) ==
  /\ [Told(node) EXCEPT !.entities = Range(@), !.path = ""]
     = [history.view EXCEPT !.entities = Range(@), !.path = "", !.status = IF history.view.expires > now THEN @ ELSE "expired"]
  /\ ToldNumber(node, <<"notification", "timesSent">>) = ToString(history.times[m] + history.twice - history.forgotten[m])
  /\ ToldDate(node, <<"notification", "lastNotification">>, 0) = history.latest[m]

\* GET /v2/subscriptions/<id> and GET /v2/subscriptions answer JSON that says what POST and the PATCHes since have asked for,
\* field by field, whatever notifications, synchronizations and failed requests there were in between, with or without the
\* cache; a list has the subscription if its service path is the request's, or the request has none.  timesSent is
\* the number of notifications that were sent, and lastNotification is when the latest of them was sent.  The notification of
\* POST itself counts twice, in the document and in the item (mongoSubscribeContext.cpp:203 and 241), and a PATCH that sends
\* none forgets those that only the item has counted (mongoUpdateContextSubscription.cpp:421 and 457).
SubscriptionTold ==
  last.op \in {"get", "list"} =>
    \A m \in Brokers :
      LET answer == Parse(last.text[m])
      IN  /\ answer.ok
          /\ last.op = "get" => SubscriptionIsTold(answer.tree, m, last.at)
          /\ last.op = "list" =>
               /\ Len(answer.tree.kids) = IF last.path \in {"", DEFAULT_SERVICE_PATH_QUERIES, history.view.path} THEN 1 ELSE 0
               /\ \A ix \in DOMAIN answer.tree.kids : SubscriptionIsTold(answer.tree.kids[ix], m, last.at)

\* A broker with its subscription cache and one without it notify the same subscriber of the same updates, with the same
\* attributes and in the same format, and tell their clients the same (but for the notifications that a PATCH has forgotten), up
\* to the first update about which MayDiffer() says that they may not agree.
TriggersAgree ==
  ~history.excused => /\ last.sent["cache"] = last.sent["noCache"]
                      /\ history.forgotten = Nothing(0) => last.text["cache"] = last.text["noCache"]

=============================================================================
