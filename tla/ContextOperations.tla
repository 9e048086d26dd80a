-------------------------- MODULE ContextOperations --------------------------
(***************************************************************************)
(* NGSI10 updates and queries, from the service routine to the database    *)
(* and back: postUpdateContext.cpp, mongoUpdateContext.cpp,                *)
(* MongoCommonUpdate.cpp, postQueryContext.cpp, mongoQueryContext.cpp and  *)
(* entitiesQuery() of MongoGlobal.cpp.  Several request threads run; every *)
(* operation on the database, and every request forwarded to a context     *)
(* provider, is a step of its own.  Between two steps of one thread the    *)
(* others run, as far as the request semaphore (reqSemTake) lets them.     *)
(*                                                                         *)
(* All the requests are on one tenant and one service path.  One           *)
(* subscription to every change of every entity is in force; its attribute *)
(* list is inst.attrL.                                                     *)
(***************************************************************************)
EXTENDS Entities, ContextProviders

CONSTANTS
  Threads,          \* the request threads
  Instances,        \* the configurations to explore, see Init; their field maxRequests
                    \* bounds the requests received
  cprForwardLimit   \* the option of the same name

VARIABLES
  inst,       \* the configuration of this behaviour
  db,         \* the entities collection: a function from [id, type] to documents
  semaphore,  \* the thread that holds the request semaphore, or Nobody
  pc,         \* where each thread is
  op,         \* the local variables of each thread
  requests,   \* how many requests have been received
  sent        \* the notification sent by the last step, or NoNotification

vars == <<inst, db, semaphore, pc, op, requests, sent>>

Nobody == "nobody"
NoNotification == [key |-> "none"]
Idle == [req |-> [kind |-> "none"]]
now == requests    \* getCurrentTime(): the clock moves when a request arrives

\* Does the policy (-reqMutexPolicy) make this kind of request take the semaphore?
Serialised(kind) ==
  \/ inst.policy = "all"
  \/ inst.policy = "write" /\ kind = "update"
  \/ inst.policy = "read" /\ kind = "query"

Outcomes == IF inst.dbFails THEN BOOLEAN ELSE {TRUE}

Cer(en, attrs, status) ==
  [en |-> en, attrs |-> attrs, apps |-> <<>>, status |-> status, prune |-> FALSE]
Goto(t, from, to) == pc[t] = from /\ pc' = [pc EXCEPT ![t] = to]

(***************************************************************************)
(* A request arrives.                                                      *)
(***************************************************************************)
Take(t, kind) ==
  IF Serialised(kind)
  THEN semaphore = Nobody /\ semaphore' = t
  ELSE UNCHANGED semaphore

Give(t) == semaphore' = IF semaphore = t THEN Nobody ELSE semaphore

startUpdate(t, r) ==
  /\ requests < inst.maxRequests
  /\ Goto(t, "idle", "element")
  /\ Take(t, "update")
  /\ op' = [op EXCEPT ![t] = [req |-> r, ix |-> 1, results |-> <<>>, skip |-> {},
                              exists |-> FALSE, cerV |-> <<>>]]
  /\ requests' = requests + 1
  /\ sent' = NoNotification
  /\ UNCHANGED <<inst, db>>

startQuery(t, r) ==
  /\ requests < inst.maxRequests
  /\ Goto(t, "idle", "entitiesQuery")
  /\ Take(t, "query")
  /\ op' = [op EXCEPT ![t] = [req |-> r]]
  /\ requests' = requests + 1
  /\ sent' = NoNotification
  /\ UNCHANGED <<inst, db>>

receiveUpdate(t) == \E r \in inst.updates : startUpdate(t, r)
receiveQuery(t) == \E r \in inst.queries : startQuery(t, r)

(***************************************************************************)
(* Updates: one context element after the other.                           *)
(***************************************************************************)
element(t) == op[t].req.elements[op[t].ix]
action(t) == op[t].req.action
api(t) == op[t].req.api
attributes(t) == element(t).attrs
EntityOf(e) == [id |-> e.id, type |-> e.type]
RequestEntity(e) == [id |-> e.id, type |-> e.type, isPattern |-> FALSE]
Names(caV) == {caV[i].name : i \in DOMAIN caV}

\* The status of the refusal and the offending attribute: [status, attrs].
contextElementPreconditionsCheck(e, act, ver) ==
  LET offends(ca) == /\ attributeValueAbsent(ca, ver) /\ attributeTypeAbsent(ca)
                     /\ ca.md = NoFunction /\ ca.location = "" /\ ca.id = ""
      duplicated == {i \in DOMAIN e.attrs :
                       \E j \in DOMAIN e.attrs :
                         i < j /\ effectiveName(e.attrs[i]) = effectiveName(e.attrs[j])}
      empty == {i \in DOMAIN e.attrs : offends(e.attrs[i])}
      refused(I) ==
        LET i == CHOOSE j \in I : \A k \in I : j <= k
        IN  [status |-> "InvalidModification",
             attrs |-> <<[name |-> e.attrs[i].name, found |-> FALSE, app |-> ""]>>]
  IN  CASE duplicated # {} -> refused(duplicated)
        [] duplicated = {} /\ e.isPattern -> [status |-> "NotImplemented", attrs |-> <<>>]
        [] duplicated = {} /\ ~e.isPattern /\ act # "DELETE" /\ ver = "v1" /\ empty # {} ->
             refused(empty)
        [] OTHER -> [status |-> "Ok", attrs |-> <<>>]

\* The element is done: its responses are added and the next one is due.
NextElement(t, cerV) ==
  /\ op' = [op EXCEPT ![t].ix = @ + 1, ![t].cerV = @ \o cerV, ![t].results = <<>>,
                      ![t].skip = {}, ![t].exists = FALSE]
  /\ pc' = [pc EXCEPT ![t] = IF op[t].ix = Len(op[t].req.elements) THEN "give" ELSE "element"]

processContextElement(t) ==
  LET check == contextElementPreconditionsCheck(element(t), action(t), api(t))
  IN  /\ pc[t] = "element"
      /\ IF check.status = "Ok"
         THEN /\ pc' = [pc EXCEPT ![t] = IF api(t) = "v2" THEN "count" ELSE "find"]
              /\ UNCHANGED op
         ELSE NextElement(t, <<Cer(EntityOf(element(t)), check.attrs, check.status)>>)
      /\ sent' = NoNotification
      /\ UNCHANGED <<inst, db, semaphore, requests>>

\* The documents the request is about: those of its type, or of any type, or
\* only the one without a type (?!exist=entity::type).
Matching(t) ==
  {key \in DOMAIN db :
     /\ key.id = element(t).id /\ element(t).type \in {"", key.type}
     /\ op[t].req.typeInfo = "empty" => key.type = ""}

collectionCountStatus(t, n) ==
  CASE n > 0 /\ op[t].req.flavour = "ONCREATE" -> "InvalidModification"
    [] n = 0 /\ op[t].req.flavour = "ONAPPENDORUPDATE" -> "ContextElementNotFound"
    [] n > 1 -> "Conflict"
    [] OTHER -> "Ok"

collectionCount(t) ==
  \E ok \in Outcomes :
    LET n == Cardinality(Matching(t))
        status == IF ok THEN collectionCountStatus(t, n) ELSE "ReceiverInternalError"
    IN  /\ pc[t] = "count"
        /\ IF status = "Ok"
           THEN pc' = [pc EXCEPT ![t] = "find"] /\ UNCHANGED op
           ELSE NextElement(t, <<Cer(EntityOf(element(t)), <<>>, status)>>)
        /\ sent' = NoNotification
        /\ UNCHANGED <<inst, db, semaphore, requests>>

\* The documents found are copied; the connection to the database is given
\* back before they are processed.
collectionQuery(t) ==
  \E ok \in Outcomes :
    LET found == SetToSeq(Matching(t))
    IN  /\ pc[t] = "find"
        /\ IF ok
           THEN /\ op' = [op EXCEPT ![t].results =
                            [i \in DOMAIN found |-> [key |-> found[i], doc |-> db[found[i]]]]]
                /\ pc' = [pc EXCEPT ![t] = IF found = <<>> THEN "absent" ELSE "entity"]
           ELSE NextElement(t, <<Cer(EntityOf(element(t)), <<>>, "ReceiverInternalError")>>)
        /\ sent' = NoNotification
        /\ UNCHANGED <<inst, db, semaphore, requests>>

\* One of the documents found is done; the error of an APPEND_STRICT is that of
\* the last document.
NextResult(t, skip, exists, cerV) ==
  LET all == IF exists /\ Len(op[t].results) = 1
             THEN Append(cerV, Cer(EntityOf(element(t)), <<>>, "BadRequest"))
             ELSE cerV
  IN  IF Len(op[t].results) = 1
      THEN NextElement(t, all)
      ELSE /\ op' = [op EXCEPT ![t].results = Tail(@), ![t].skip = skip, ![t].exists = exists,
                                ![t].cerV = @ \o all]
           /\ UNCHANGED pc

removeEntity(t) ==
  \E ok \in Outcomes :
    LET key == op[t].results[1].key
    IN  /\ pc[t] = "entity"
        /\ action(t) = "DELETE" /\ attributes(t) = <<>>
        /\ db' = IF ok THEN [k \in DOMAIN db \ {key} |-> db[k]] ELSE db
        /\ NextResult(t, {}, FALSE,
             <<Cer(key, <<>>, IF ok THEN "Ok" ELSE "ReceiverInternalError")>>)
        /\ sent' = NoNotification
        /\ UNCHANGED <<inst, semaphore, requests>>

\* What updateEntity() computes from the copy of the document.
Computed(t, skip, triggersOk) ==
  LET kept == {i \in DOMAIN attributes(t) : i \notin skip}
      caV == [i \in 1..Cardinality(kept) |->
                attributes(t)[CHOOSE k \in kept : Cardinality({m \in kept : m <= k}) = i]]
  IN  processContextAttributeVector(op[t].results[1].doc, action(t), caV, now, api(t), triggersOk)

\* Mutant: the attributes an APPEND_STRICT may not touch are not left out.
ExistingIgnored(t) == {}

Existing(t) ==
  {i \in DOMAIN attributes(t) :
     action(t) = "APPEND_STRICT"
       /\ howManyAttrs(op[t].results[1].doc.attrs, attributes(t)[i].name) # 0}

\* The response of the entity: an APPEND_STRICT that modifies nothing has none.
updateEntity(t) ==
  /\ pc[t] = "entity"
  /\ ~(action(t) = "DELETE" /\ attributes(t) = <<>>)
  /\ \E triggersOk, ok \in Outcomes, skip \in {op[t].skip \cup Existing(t)} :
     \E w \in {Computed(t, skip, triggersOk)} :
       LET r == op[t].results[1]
           written == ~w.failed /\ w.modified /\ ok
           cer == IF ~w.failed /\ w.modified /\ ~ok
                  THEN Cer(r.key, w.answered, "ReceiverInternalError")
                  ELSE searchContextProviders(inst.regs, RequestEntity(element(t)),
                         Names(attributes(t)), Cer(r.key, w.answered, w.status))
           silent == action(t) = "APPEND_STRICT" /\ (w.failed \/ ~w.modified)
       IN  /\ db' = IF written /\ r.key \in DOMAIN db
                    THEN [db EXCEPT ![r.key] = Written(@, r.doc, w, action(t), now)]
                    ELSE db
           /\ sent' = IF written
                      THEN [key |-> r.key, attrs |-> NotifiedAttributes(w.notify, inst.attrL),
                            values |-> w.notify]
                      ELSE NoNotification
           /\ NextResult(t, skip, Existing(t) # {}, IF silent THEN <<>> ELSE <<cer>>)
  /\ UNCHANGED <<inst, semaphore, requests>>

(***************************************************************************)
(* No document was found.                                                  *)
(***************************************************************************)
AbsentCer(t, found, status) ==
  Cer(EntityOf(element(t)),
      [i \in DOMAIN attributes(t) |-> [name |-> attributes(t)[i].name, found |-> found, app |-> ""]],
      status)

\* The forwards looked for are those of all the elements answered so far.
notFound(t) ==
  /\ pc[t] = "absent"
  /\ action(t) \in {"UPDATE", "REPLACE", "DELETE"}
  /\ \E cer \in {IF action(t) = "DELETE"
                 THEN AbsentCer(t, FALSE, "ContextElementNotFound")
                 ELSE searchContextProviders(inst.regs, RequestEntity(element(t)),
                        Names(attributes(t)), AbsentCer(t, FALSE, "Ok"))} :
       NextElement(t, <<IF forwardsPending(Append(op[t].cerV, cer)) /\ action(t) # "DELETE"
                        THEN cer
                        ELSE [cer EXCEPT !.status = "ContextElementNotFound"]>>)
  /\ sent' = NoNotification
  /\ UNCHANGED <<inst, db, semaphore, requests>>

\* The collection has a unique key: the insertion fails when the key is there.
collectionInsert(key, doc) == IF key \in DOMAIN db THEN db ELSE db @@ (key :> doc)

createEntity(t) ==
  \E triggersOk, ok \in Outcomes :
    LET e == element(t)
        key == [id |-> e.id, type |-> NewEntityType(e.type, api(t))]
        doc == NewEntity(e.attrs, now, api(t))
        created == ~CreationRefused(e.attrs, api(t)) /\ key \notin DOMAIN db /\ ok
        status == CASE ~created -> "InvalidParameter"
                    [] created /\ ~triggersOk -> "ReceiverInternalError"
                    [] OTHER -> "Ok"
    IN  /\ pc[t] = "absent"
        /\ action(t) \in {"APPEND", "APPEND_STRICT"}
        /\ db' = IF CreationRefused(e.attrs, api(t)) \/ ~ok THEN db ELSE collectionInsert(key, doc)
        /\ NextElement(t, <<AbsentCer(t, TRUE, status)>>)
        /\ sent' = IF status = "Ok"
                   THEN [key |-> EntityOf(e),
                         attrs |-> NotifiedAttributes(NotifyCer(doc.attrs), inst.attrL),
                         values |-> NotifyCer(doc.attrs)]
                   ELSE NoNotification
        /\ UNCHANGED <<inst, semaphore, requests>>

(***************************************************************************)
(* The end of mongoUpdateContext(), and postUpdateContext() after it: what *)
(* has to be forwarded is sorted by provider.                              *)
(***************************************************************************)
Same(c, en, status) == c.en = en /\ c.status = status

\* One more attribute in the response of its entity with that status.
Push(cerV, en, name, found, lookupStatus, status) ==
  LET at == {i \in DOMAIN cerV : Same(cerV[i], en, lookupStatus)}
      a == [name |-> name, found |-> found, app |-> ""]
  IN  IF at = {}
      THEN Append(cerV, Cer(en, <<a>>, status))
      ELSE [cerV EXCEPT ![CHOOSE i \in at : \A j \in at : i <= j].attrs = Append(@, a)]

foundPush(cerV, en, name) == Push(cerV, en, name, TRUE, "Ok", "Ok")
notFoundPush(cerV, en, name) ==
  Push(cerV, en, name, FALSE, "ContextElementNotFound", "ContextElementNotFound")

\* The parts that need no forwarding.
LocalResponse(parts) ==
  LET push(acc, p) == CASE ~p.found -> notFoundPush(acc, p.en, p.name)
                        [] p.found /\ p.app = "" -> foundPush(acc, p.en, p.name)
                        [] OTHER -> acc
  IN  FoldLeft(push, <<>>, parts)

updateSorted(t) ==
  LET sorted(cerV, parts) ==
        IF forwardsPending(cerV)
        THEN [cerV |-> LocalResponse(parts), parts |-> parts, apps |-> providersOf(parts)]
        ELSE [cerV |-> cerV, parts |-> <<>>, apps |-> <<>>]
      separated(cerV) == sorted(cerV, forwardParts(cerV, op[t].req.elements, NoValue))
  IN  separated(foundAndNotFoundAttributeSeparation(op[t].cerV))

postUpdateContext(t) ==
  /\ pc[t] = "give"
  /\ \E sorted \in {updateSorted(t)} :
       /\ Goto(t, "give", IF sorted.apps = <<>> \/ cprForwardLimit = 0
                          THEN "reply" ELSE "updateForward")
       /\ op' = [op EXCEPT ![t] = [req |-> @.req, cerV |-> sorted.cerV, parts |-> sorted.parts,
                                   apps |-> sorted.apps, forwarded |-> 0,
                                   errorCode |-> IF /\ sorted.cerV = <<>>
                                                    /\ sorted.apps = <<>> \/ cprForwardLimit = 0
                                                 THEN "ContextElementNotFound" ELSE "Ok"]]
  /\ Give(t)
  /\ sent' = NoNotification
  /\ UNCHANGED <<inst, db, requests>>

(***************************************************************************)
(* One provider after the other is sent its attributes.  The provider      *)
(* answers that it has updated them or that it does not know them, or the  *)
(* request fails.                                                          *)
(***************************************************************************)
PartsOf(t, app) == SelectSeq(op[t].parts, LAMBDA p : p.app = app)

\* UpdateContextResponse::merge() of what the provider answers.
merge(cerV, parts, outcome) ==
  FoldLeft(LAMBDA acc, p : IF outcome = "Ok"
                           THEN foundPush(acc, p.en, p.name)
                           ELSE notFoundPush(acc, p.en, p.name),
           cerV, parts)

updateForward(t) ==
  \E outcome \in {"Ok", "NotFound", "Failed"} :
    LET app == op[t].apps[op[t].forwarded + 1]
        n == op[t].forwarded + 1
    IN  /\ Goto(t, "updateForward",
                IF n = Len(op[t].apps) \/ n = cprForwardLimit THEN "reply" ELSE "updateForward")
        /\ op' = [op EXCEPT ![t].forwarded = n,
                            ![t].errorCode = IF outcome = "Failed" /\ @ = "Ok"
                                             THEN "ContextElementNotFound" ELSE @,
                            ![t].cerV = IF outcome = "Failed" THEN @
                                        ELSE merge(@, PartsOf(t, app), outcome)]
        /\ sent' = NoNotification
        /\ UNCHANGED <<inst, db, semaphore, requests>>

\* The response is rendered: an error code hides the rest of it.
reply(t) ==
  /\ Goto(t, "reply", "idle")
  /\ op' = [op EXCEPT ![t] = Idle]
  /\ sent' = NoNotification
  /\ UNCHANGED <<inst, db, semaphore, requests>>

(***************************************************************************)
(* Queries.  A query request is                                            *)
(*   [kind, entities, attrL, limit, typeInfo, scopes]:                     *)
(* typeInfo asks for entities with ("notEmpty") or without ("empty") type, *)
(* the scopes for entities in an area.                                     *)
(***************************************************************************)
\* The scope FIWARE::Filter::Existence, on the type of the entity.
addFilterScope(typeInfo, type) ==
  /\ typeInfo = "empty" => type = ""
  /\ typeInfo = "notEmpty" => type # ""

\* Only the first area counts.
areaQuery(r) ==
  CASE r.scopes = <<>> -> NoQuery
    [] r.scopes # <<>> /\ r.scopes[1].api = "v1" -> processAreaScope(r.scopes[1])
    [] r.scopes # <<>> /\ r.scopes[1].api = "v2" -> processAreaScopeV2(r.scopes[1])

fillQueryEntity(en, key) == idMatches("pcre", en, key.id) /\ en.type \in {"", key.type}

\* The documents: attrNames tells which attributes an entity has.
entitySelected(key, r) ==
  /\ \E en \in Elements(r.entities) : fillQueryEntity(en, key)
  /\ r.attrL = {} \/ db[key].attrNames \cap r.attrL # {}
  /\ addFilterScope(r.typeInfo, key.type)
  /\ geoMatches(areaQuery(r), db[key].loc.geo)

\* The order of the creation dates; the database breaks ties as it likes.
ByCreationDate(keys) ==
  {s \in [1..Cardinality(keys) -> keys] :
     /\ Elements(s) = keys
     /\ \A i, j \in DOMAIN s : i < j => db[s[i]].creDate <= db[s[j]].creDate}

\* The attributes asked for, those the document has first.
LocalCer(key, r) ==
  LET stored == {k[1] : k \in DOMAIN db[key].attrs}
      has == IF r.attrL = {} THEN stored ELSE stored \cap r.attrL
      answer(names, found) ==
        LET seq == SetToSeq(names)
        IN  [i \in DOMAIN seq |-> [name |-> seq[i], found |-> found, app |-> ""]]
  IN  CerOf(key, answer(has, TRUE) \o answer(r.attrL \ has, FALSE), <<>>, FALSE)

\* The attributes of a response, with their IDs.
LocalKeys(key, r) ==
  IF key \in DOMAIN db
  THEN {k \in DOMAIN db[key].attrs : r.attrL = {} \/ k[1] \in r.attrL}
  ELSE {}

\* The entities of the request that are not stored, to look for providers.
MissingCers(r, local) ==
  LET missing == SelectSeq(r.entities, LAMBDA en :
        ~en.isPattern /\ ~\E c \in Elements(local) : c.en.id = en.id /\ c.en.type = en.type)
      names == SetToSeq(r.attrL)
  IN  [i \in DOMAIN missing |->
         CerOf([id |-> missing[i].id, type |-> missing[i].type],
               [j \in DOMAIN names |-> [name |-> names[j], found |-> FALSE, app |-> ""]],
               <<>>, TRUE)]

\* The local attributes are copied to the response when something is forwarded.
LocalPart(cerV) ==
  {[en |-> c.en, name |-> a.name] : <<c, a>> \in
     {<<c, a>> \in Elements(cerV) \X UNION {Elements(d.attrs) : d \in Elements(cerV)} :
        a \in Elements(c.attrs) /\ a.found /\ a.app = ""}}

\* The local CERs in their order, those of the entities not stored after them.
RawCers(r, local) == IF Len(local) >= r.limit THEN local ELSE local \o MissingCers(r, local)

\* What mongoQueryContext() makes of the outcome; the count of the details is left out.
queryStatus(ok, cerV) ==
  CASE ~ok -> "ReceiverInternalError"
    [] ok /\ cerV = <<>> -> "ContextElementNotFound"
    [] OTHER -> "Ok"

\* Without providers to ask, postQueryContext() answers; it asks as many as it may.
afterQuery(requestV) == IF requestV = <<>> \/ cprForwardLimit = 0 THEN "reply" ELSE "queryForward"
afterForward(requestV, n) == IF n = Len(requestV) \/ n = cprForwardLimit THEN "reply" ELSE "queryForward"

entitiesQuery(t) ==
  /\ pc[t] = "entitiesQuery"
  /\ LET r == op[t].req
         keys == {key \in DOMAIN db : entitySelected(key, r)}
     IN  \E ok \in Outcomes, order \in ByCreationDate(keys) :
         \E local \in {[i \in 1..(IF Len(order) < r.limit THEN Len(order) ELSE r.limit) |-> LocalCer(order[i], r)]} :
         \E cerV \in {IF ok
                      THEN completeWithProviders(inst.regs, r.entities, r.attrL, RawCers(r, local), Len(local) >= r.limit)
                      ELSE <<>>} :
         \E requestV \in {queryRequests(cerV, r.attrL)} :
           /\ Goto(t, "entitiesQuery", afterQuery(requestV))
           /\ op' = [op EXCEPT ![t] =
                       [req |-> r, requestV |-> requestV, forwarded |-> 0,
                        answer |-> LocalPart(cerV),
                        cers |-> [i \in DOMAIN cerV |->
                                    [en |-> cerV[i].en, keys |-> LocalKeys(cerV[i].en, r)]],
                        errorCode |-> queryStatus(ok, cerV)]]
  /\ Give(t)
  /\ sent' = NoNotification
  /\ UNCHANGED <<inst, db, requests>>

queryForward(t) ==
  \E outcome \in {"Ok", "Failed"} :
    LET n == op[t].forwarded + 1
        request == op[t].requestV[n]
    IN  /\ Goto(t, "queryForward", afterForward(op[t].requestV, n))
        /\ op' = [op EXCEPT ![t].forwarded = n,
                            ![t].answer = IF outcome = "Failed"
                                          THEN @
                                          ELSE @ \cup {[en |-> request.en, name |-> a] :
                                                         a \in request.attrs}]
        /\ sent' = NoNotification
        /\ UNCHANGED <<inst, db, semaphore, requests>>

(***************************************************************************)
(* The specification.                                                      *)
(***************************************************************************)
Init ==
  /\ inst \in Instances
  /\ db = inst.db
  /\ semaphore = Nobody
  /\ pc = [t \in Threads |-> "idle"]
  /\ op = [t \in Threads |-> Idle]
  /\ requests = 0
  /\ sent = NoNotification

StandardSteps(t) ==
  \/ processContextElement(t)
  \/ collectionCount(t)
  \/ collectionQuery(t)
  \/ removeEntity(t)
  \/ updateEntity(t)
  \/ notFound(t)
  \/ createEntity(t)
  \/ postUpdateContext(t)
  \/ updateForward(t)
  \/ entitiesQuery(t)
  \/ queryForward(t)

Steps(t) == StandardSteps(t) \/ reply(t)

ThreadNext(t) == receiveUpdate(t) \/ receiveQuery(t) \/ Steps(t)
Next == \E t \in Threads : ThreadNext(t)

Spec == Init /\ [][Next]_vars

(***************************************************************************)
(* Properties.                                                             *)
(***************************************************************************)
Serial == inst.policy \in {"all", "write"}
Stored(doc) == {k \in DOMAIN doc.attrs : doc.attrs[k] # NestedLocation}

\* When writers are serialised, the parts of a document agree, through any
\* sequence of appends, replacements and deletions, with and without IDs:
\* attrNames, which the queries by attribute use (entitiesQuery()), names
\* exactly the attributes stored (toPush and toPull of updateEntity()), and the
\* entity is neither younger than its attributes nor modified before one of
\* them (mergeAttrInfo() and modDate in updateEntity()).
DocumentsConsistent ==
  Serial =>
    \A key \in DOMAIN db :
      /\ db[key].attrNames = {k[1] : k \in Stored(db[key])}
      /\ \A k \in Stored(db[key]) :
           /\ db[key].creDate <= db[key].attrs[k].creDate
           /\ db[key].attrs[k].creDate <= db[key].attrs[k].modDate
           /\ db[key].attrs[k].modDate <= db[key].modDate

\* The location of the document is that of an attribute stored in it.
LocationOf(doc) ==
  doc.loc # NoLocation =>
    \E k \in Stored(doc), ver \in {"v1", "v2"} : k[1] = doc.loc.name /\ getGeoJson(doc.attrs[k], ver) = doc.loc.geo

\* Thread t processes a document, or finds none, in this step; the answers of
\* the step are the new ones at the end of its responses.
Processes(t) == pc[t] \in {"entity", "absent"} /\ op'[t] # op[t]
NewAnswers(t) == SubSeq(op'[t].cerV, Len(op[t].cerV) + 1, Len(op'[t].cerV))
ChangedKeys == {key \in DOMAIN db \cup DOMAIN db' :
                  ~(key \in DOMAIN db /\ key \in DOMAIN db' /\ db[key] = db'[key])}

Skipped(t) == op[t].skip \cup IF pc[t] = "entity" THEN Existing(t) ELSE {}

\* The stored attribute is what the request asks for.
Holds(doc, ca) ==
  /\ effectiveName(ca) \in DOMAIN doc.attrs
  /\ ca.value \in {NoValue, doc.attrs[effectiveName(ca)].value}

\* An answer c to the request of t tells what is in the database: after Ok every
\* attribute of the request is stored with its value (or gone, for a DELETE),
\* and after the refusal of an APPEND or a DELETE nothing has changed.
TellsWhatIsStored(t, c) ==
  /\ c.status = "Ok" /\ action(t) # "DELETE" /\ ~forwardsPending(<<c>>) =>
       \A i \in DOMAIN attributes(t) \ Skipped(t) :
         \E key \in DOMAIN db' :
           /\ key.id = c.en.id /\ key.type \in {c.en.type, NewEntityType(c.en.type, api(t))}
           /\ Holds(db'[key], attributes(t)[i])
  /\ c.status = "Ok" /\ action(t) = "DELETE" =>
       \A ca \in Elements(attributes(t)) : effectiveName(ca) \notin DOMAIN db'[c.en].attrs
  /\ c.status = "Ok" /\ action(t) = "DELETE" /\ attributes(t) = <<>> => c.en \notin DOMAIN db'
  /\ c.status = "InvalidParameter" /\ action(t) \in {"APPEND", "DELETE"} => db' = db

\* Only an APPEND adds attributes or entities, and it removes none; an UPDATE
\* adds and removes none; an APPEND_STRICT changes none that exists; a DELETE
\* changes none that it leaves; the creation of an entity in NGSIv2 (POST
\* /v2/entities) changes no existing entity and the append to an existing one
\* (POST /v2/entities/<id>) creates none.
Promise(t, key) ==
  LET isOld == key \in DOMAIN db
      isNew == key \in DOMAIN db'
      old == db[key].attrs
      new == db'[key].attrs
  IN  /\ action(t) \in {"UPDATE", "REPLACE"} => isOld /\ isNew
      /\ action(t) = "UPDATE" => DOMAIN old = DOMAIN new
      /\ action(t) \in {"APPEND", "APPEND_STRICT"} =>
           isNew /\ (isOld => DOMAIN old \subseteq DOMAIN new)
      /\ action(t) = "APPEND_STRICT" /\ isOld => \A k \in DOMAIN old : old[k] = new[k]
      /\ action(t) = "DELETE" =>
           /\ isOld
           /\ isNew => DOMAIN new \subseteq DOMAIN old /\ \A k \in DOMAIN new : old[k] = new[k]
      /\ op[t].req.flavour = "ONCREATE" => ~isOld
      /\ op[t].req.flavour = "ONAPPENDORUPDATE" => isOld

\* When writers are serialised, what an update does is what its action may do,
\* and its answer tells it (processContextAttributeVector(), updateEntity()).
UpdatesKeepTheirPromise ==
  [][\A t \in Threads : Serial /\ Processes(t) =>
       /\ \A c \in Elements(NewAnswers(t)) : TellsWhatIsStored(t, c)
       /\ \A key \in ChangedKeys : Promise(t, key)]_vars

\* Whatever the interleaving, with or without the semaphore, a step for one
\* request changes no attribute that the request does not name (an UPDATE of A
\* and one of B never undo each other), and an entity keeps its creation date
\* for as long as it is there: collectionUpdate() sets single fields and
\* collectionInsert() never replaces.
OnlyRequestedWritten ==
  [][\A t \in Threads : Processes(t) =>
       \A key \in DOMAIN db \cap DOMAIN db' :
         /\ db[key].creDate = db'[key].creDate
         /\ action(t) # "REPLACE" =>
              \A k \in DOMAIN db[key].attrs \cup DOMAIN db'[key].attrs :
                \/ k \in {effectiveName(ca) : ca \in Elements(attributes(t))}
                \/ /\ k \in DOMAIN db[key].attrs \cap DOMAIN db'[key].attrs
                   /\ db[key].attrs[k] = db'[key].attrs[k]]_vars

\* A notification of all the attributes of an entity shows each of them as it
\* is stored after the update that caused it.  Attributes with IDs, which the
\* code looks up by their names only, and values set to null in NGSIv2, which
\* it does not apply, are left out.  It shows no other attributes, but for those
\* that the request names (also the ones that an UPDATE does not find or a DELETE
\* removes) and, after a REPLACE, the old ones.
NotificationIsCurrent(t, key) ==
  sent' # NoNotification /\ inst.attrL = {} /\ key = sent'.key =>
    /\ \A k \in Stored(db'[key]) :
         k[2] = "" /\ howManyAttrs(db'[key].attrs, k[1]) = 1 /\ db'[key].attrs[k].value # NoValue =>
           /\ k \in sent'.attrs
           /\ sent'.values[k].value = db'[key].attrs[k].value
    /\ action(t) # "REPLACE" => \A k \in sent'.attrs : k \in DOMAIN db'[key].attrs \/ k[1] \in Names(attributes(t))

\* The location of the document is that of an attribute which the UPDATE names
\* and the document does not have: updateContextAttributeItem() goes on to the
\* location, although updateAttribute() has not found the attribute.
LocationOfUnknown(t, key) ==
  /\ action(t) = "UPDATE" /\ key \in DOMAIN db
  /\ \E ca \in Elements(attributes(t)) :
       /\ effectiveName(ca) \notin DOMAIN db[key].attrs
       /\ db'[key].loc = [name |-> ca.name, geo |-> getGeoJson(ca, api(t))]

\* A location that is current stays so, and a new one is current, but for a
\* REPLACE and an APPEND of an attribute that exists, which nest it or leave
\* the old coordinates, and for an UPDATE of a located attribute that is not
\* stored along with one that is.
LocationStaysCurrent(t, key) ==
  \/ action(t) = "REPLACE"
  \/ key \in DOMAIN db /\ ~LocationOf(db[key])
  \/ /\ action(t) = "APPEND" /\ key \in DOMAIN db
     /\ \E ca \in Elements(attributes(t)) : effectiveName(ca) \in DOMAIN db[key].attrs
  \/ LocationOf(db'[key])
  \/ LocationOfUnknown(t, key)

\* When writers are serialised, what is derived from the attributes follows
\* them: the location of the entity (location.cpp, $set and $unset of location in
\* updateEntity()) and the notification, although it is put together from the
\* copy of the document and the request (updateAttrInNotifyCer()).
DerivedStaysCurrent ==
  [][\A t \in Threads : Serial /\ Processes(t) =>
       \A key \in DOMAIN db' : NotificationIsCurrent(t, key) /\ LocationStaysCurrent(t, key)]_vars

(***************************************************************************)
(* Properties of forwarding.                                               *)
(***************************************************************************)
\* The application has registered the attribute, or the whole entity.
RegisteredBy(app, en, name) ==
  \E reg \in Elements(inst.regs) :
    /\ reg.app = app
    /\ \E re \in reg.entities : re.id = en.id /\ re.type \in {"", en.type}
    /\ name \in reg.attrs \/ reg.attrs = {}

\* What the client asked for attribute name of the entities en stands for.
AskedValues(t, en, name) ==
  {ca.value : ca \in {ca \in UNION {Elements(e.attrs) : e \in
      {e \in Elements(op[t].req.elements) : e.id = en.id /\ e.type \in {"", en.type}}} :
      ca.name = name}}

\* An attribute of an update is forwarded to an application that has registered
\* it, with the value the client gave it: postUpdateContext() finds the values
\* again in the request after mongoUpdateContext() has taken them away.  It finds
\* none for an element without type when the entity it was applied to has one
\* (attributeLookup() compares the types): these are forwarded without value.
UpdateForwardedAsAsked(t) ==
  \A p \in Elements(op[t].parts) : p.app # "" =>
    /\ RegisteredBy(p.app, p.en, p.name)
    /\ \/ p.value \in AskedValues(t, p.en, p.name)
       \/ p.en.type # "" /\ \E e \in Elements(op[t].req.elements) : e.id = p.en.id /\ e.type = ""

\* A query is forwarded to applications that have registered what they are
\* asked for, and an attribute that is stored is not asked from an application
\* that registered just attributes (cprLookupByAttribute(),
\* addContextProviderAttribute() and the sorting of postQueryContext()).
QueryForwardedAsAsked(t) ==
  \A r \in Elements(op[t].requestV) :
    /\ \E reg \in Elements(inst.regs) :
         reg.app = r.app /\ \E re \in reg.entities : re.id = r.en.id
    /\ \A name \in r.attrs :
         /\ op[t].req.attrL = {} \/ name \in op[t].req.attrL
         /\ RegisteredBy(r.app, r.en, name)
         /\ \/ [en |-> r.en, name |-> name] \notin op[t].answer
            \/ op[t].forwarded > 0
            \/ \E reg \in Elements(inst.regs) : reg.app = r.app /\ reg.attrs = {}

\* The response to an UPDATE of typed entities that was forwarded to no more
\* than cprForwardLimit providers has every attribute of every element exactly
\* once, found or not found.
EveryAttributeAnswered(t) ==
  op[t].errorCode = "Ok" /\ action(t) = "UPDATE" /\ Len(op[t].apps) <= cprForwardLimit =>
    \A e \in Elements(op[t].req.elements) : \A name \in Names(e.attrs) :
      e.type # "" =>
        LET answers(c) == Len(SelectSeq(c.attrs, LAMBDA a : a.name = name))
            of == SelectSeq(op[t].cerV, LAMBDA c : c.en = EntityOf(e) /\ answers(c) > 0)
        IN  Len(of) = 1 /\ answers(of[1]) = 1

\* Where registrations are in force, providers are asked what the client asked
\* and what they registered, and once they have answered nothing is lost or
\* doubled between the local database, the separation of found and not found
\* attributes, the sorting by provider and merge().
ForwardedAndAnswered ==
  \A t \in Threads :
    /\ pc[t] = "updateForward" => UpdateForwardedAsAsked(t)
    /\ pc[t] = "queryForward" => QueryForwardedAsAsked(t)
    /\ pc[t] = "reply" /\ op[t].req.kind = "update" /\ inst.regs # <<>> => EveryAttributeAnswered(t)

\* What the area of a query means, in the coordinates that the clients wrote: those of the query and
\* those of the attribute attr.  No box of a query is equal to that of an attribute: the corners of the
\* two polygons come in a different order.
Meets(s, attr) ==
  LET S == Covers(Coords[attr.value])
      T == Covers(s.points)
      near(p) == Reaches({p}, T, s.radius)
      same == s.points = Coords[attr.value] /\ (s.areaType = "point") = (Len(s.points) = 1) /\ s.areaType # "box"
      rel == s.georel
  IN  CASE s.areaType = "circle" -> s.inverted # \A p \in S : near(p)
        [] s.api = "v1" /\ s.areaType = "polygon" -> s.inverted # (S \subseteq T)
        [] s.api = "v2" /\ rel.type = "near" -> /\ rel.maxDistance # -1 => Reaches(S, T, rel.maxDistance)
                                                /\ rel.minDistance \notin {-1, 0} => ~Reaches(S, T, rel.minDistance - 1)
        [] s.api = "v2" /\ rel.type = "coveredBy" -> S \subseteq T
        [] s.api = "v2" /\ rel.type = "intersects" -> S \cap T # {}
        [] s.api = "v2" /\ rel.type = "disjoint" -> S \cap T = {}
        [] s.api = "v2" /\ rel.type = "equals" -> same

\* A scope of NGSIv2 without georel asks for nothing.
InArea(scopes, doc) ==
  \/ scopes = <<>>
  \/ scopes[1].api = "v2" /\ scopes[1].georel.type = ""
  \/ doc.loc # NoLocation /\ \E k \in Stored(doc) : k[1] = doc.loc.name /\ Meets(scopes[1], doc.attrs[k])

\* The attributes of the database a query asks for.
Asked(r) ==
  UNION {{[en |-> key, name |-> k[1]] : k \in {k \in DOMAIN db[key].attrs :
                                                r.attrL = {} \/ k[1] \in r.attrL}} :
         key \in {key \in DOMAIN db : /\ InArea(r.scopes, db[key])
                                      /\ \E en \in Elements(r.entities) :
                                           /\ idMatches("pcre", en, key.id) /\ en.type \in {"", key.type}
                                           /\ addFilterScope(r.typeInfo, key.type)}}

\* When writers are serialised, a query whose limit is high enough has in its
\* local part exactly the attributes asked for that are stored: the selection
\* by attrNames misses none, and no provider takes the place of a stored
\* attribute (entitiesQuery() and the lookups of mongoQueryContext()).  A
\* query about an area has the entities in that area, wherever their positions
\* and the area have been turned into GeoJSON objects (getGeoJson(),
\* Scope::fill(), processAreaScope() and processAreaScopeV2()), as long as the
\* locations of the documents are those of their attributes.
QueryAnswersStored ==
  [][\A t \in Threads : pc[t] = "entitiesQuery" /\ pc'[t] # pc[t] =>
       \/ ~Serial \/ op'[t].errorCode = "ReceiverInternalError"
       \/ Cardinality(DOMAIN db) > op[t].req.limit
       \/ op[t].req.scopes # <<>> /\ \E key \in DOMAIN db : ~LocationOf(db[key])
       \/ op'[t].answer = Asked(op[t].req)]_vars

=============================================================================
