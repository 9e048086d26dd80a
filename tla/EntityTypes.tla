----------------------------- MODULE EntityTypes -----------------------------
(***************************************************************************)
(* The queries about entity types: lib/mongoBackend/mongoQueryTypes.cpp.   *)
(* An aggregation gives the types, or the attributes of one type, and a    *)
(* page of them is taken.  Then the entities of each type are counted and  *)
(* the types of each attribute are looked up, every time with a query of   *)
(* its own: without the request semaphore the entities may change between  *)
(* two of these steps.                                                     *)
(*                                                                         *)
(* An entity created in NGSIv1 without type has no type field, and its     *)
(* type is "" here; no document has a type field that is empty.            *)
(***************************************************************************)
EXTENDS ContextOperations, Integers

CONSTANT Sorted    \* the names of types and attributes, in the order in which the database sorts them

SortedSeq(names) == SelectSeq(Sorted, LAMBDA name : name \in names)
OfEntityType(type) == {key \in DOMAIN db : key.type = type}
AttrNamesOf(type) == UNION {db[key].attrNames : key \in OfEntityType(type)}

\* The elements offset ... offset + limit - 1 of the result of the aggregation.
PageOf(results, r) ==
  SubSeq(results, r.offset + 1, IF Len(results) < r.offset + r.limit THEN Len(results) ELSE r.offset + r.limit)

\* query is "values", "all" or "one": mongoEntityTypesValues(), mongoEntityTypes()
\* or mongoAttributesForEntityType() (of type).
TypesQuery(ver, query, type, offset, limit) ==
  [kind |-> "types", api |-> ver, query |-> query, type |-> type, offset |-> offset, limit |-> limit]

startTypes(t, r) ==
  /\ requests < inst.maxRequests
  /\ Goto(t, "idle", "aggregate")
  /\ Take(t, "query")
  /\ op' = [op EXCEPT ![t] = [req |-> r, todo |-> <<>>, answer |-> <<>>, total |-> 0, errorCode |-> "Ok"]]
  /\ requests' = requests + 1
  /\ sent' = NoNotification
  /\ UNCHANGED <<inst, db>>

\* An entity type of the answer: attrs has an <<attribute, type>> for each of its attributes.
EntityTypeOf(type, count) == [type |-> type, count |-> count, attrs |-> {}]

\* The types still to be counted, each with the attributes whose types are still to be looked up.
ToLookUp(type, names) == [type |-> type, counted |-> FALSE, attrs |-> names]

typesEnd(t, o) == op' = [op EXCEPT ![t] = o] /\ pc' = [pc EXCEPT ![t] = "reply"] /\ Give(t)
typesGoOn(t, o) == op' = [op EXCEPT ![t] = o] /\ pc' = [pc EXCEPT ![t] = "lookUp"] /\ UNCHANGED semaphore

mongoEntityTypesValues(t) ==
  LET r == op[t].req
      types == SortedSeq({key.type : key \in DOMAIN db})
      page == PageOf(types, r)
  IN  typesEnd(t, [op[t] EXCEPT !.total = Len(types), !.answer = [i \in DOMAIN page |-> EntityTypeOf(page[i], 0)]])

mongoEntityTypes(t) ==
  LET r == op[t].req
      types == SortedSeq({key.type : key \in DOMAIN db})
      page == PageOf(types, r)
      todo == [i \in DOMAIN page |-> ToLookUp(page[i], SortedSeq(AttrNamesOf(page[i])))]
      o == [op[t] EXCEPT !.total = Len(types), !.todo = todo]
  IN  IF page = <<>> THEN typesEnd(t, [o EXCEPT !.errorCode = "ContextElementNotFound"]) ELSE typesGoOn(t, o)

mongoAttributesForEntityType(t) ==
  LET r == op[t].req
      names == SortedSeq(AttrNamesOf(r.type))
  IN  typesGoOn(t, [op[t] EXCEPT !.total = Len(names), !.todo = <<ToLookUp(r.type, PageOf(names, r))>>])

aggregate(t) ==
  /\ pc[t] = "aggregate"
  /\ \E ok \in Outcomes :
       CASE ~ok -> typesEnd(t, [op[t] EXCEPT !.errorCode = "ReceiverInternalError"])
         [] ok /\ op[t].req.query = "values" -> mongoEntityTypesValues(t)
         [] ok /\ op[t].req.query = "all" -> mongoEntityTypes(t)
         [] ok /\ op[t].req.query = "one" -> mongoAttributesForEntityType(t)
  /\ sent' = NoNotification
  /\ UNCHANGED <<inst, db, requests>>

\* What is asked for is the string: an entity that has no type field is not counted.
countEntities(type) == IF type = "" THEN 0 ELSE Cardinality(OfEntityType(type))

\* The types of an attribute in the entities of a type, whatever its ID ...
getAttributeTypes(type, name) ==
  UNION {{db[key].attrs[k].type : k \in {k \in DOMAIN db[key].attrs : k[1] = name}} :
         key \in {key \in OfEntityType(type) : name \in db[key].attrNames}}

\* ... of which NGSIv1 keeps the first.
KeptTypes(ver, types) == IF ver = "v1" /\ types # {} THEN {{type} : type \in types} ELSE {types}

\* The entity types without a name come last, whatever the page; without attributes
\* mongoAttributesForEntityType() finds nothing.
typesResponse(o) ==
  LET named == SelectSeq(o.answer, LAMBDA e : e.type # "")
      empty == SelectSeq(o.answer, LAMBDA e : e.type = "")
  IN  IF o.req.query = "one"
      THEN [o EXCEPT !.errorCode = IF o.answer[1].attrs = {} THEN "ContextElementNotFound" ELSE "Ok"]
      ELSE [o EXCEPT !.answer = named \o empty]

typesNext(t, o) == IF o.todo = <<>> THEN typesEnd(t, typesResponse(o)) ELSE typesGoOn(t, o)

\* One query: the count of a type, or the types of one of its attributes.  A query that
\* fails counts -1 entities, or finds no attribute.
lookUp(t) ==
  LET o == op[t]
      item == Head(o.todo)
      last == Len(o.answer)
      rest1(attrs) == IF attrs = <<>> THEN Tail(o.todo) ELSE <<[item EXCEPT !.counted = TRUE, !.attrs = attrs]>> \o Tail(o.todo)
  IN  /\ pc[t] = "lookUp"
      /\ \E ok \in Outcomes :
           \/ /\ ~item.counted
              /\ typesNext(t, [o EXCEPT
                   !.answer = Append(@, EntityTypeOf(item.type, IF ok THEN countEntities(item.type) ELSE -1)),
                   !.todo = rest1(item.attrs)])
           \/ /\ item.counted
              /\ \E types \in KeptTypes(o.req.api, IF ok THEN getAttributeTypes(item.type, Head(item.attrs)) ELSE {}) :
                   typesNext(t, [o EXCEPT
                     !.answer[last].attrs = @ \cup {<<Head(item.attrs), type>> : type \in types},
                     !.todo = rest1(Tail(item.attrs))])
      /\ sent' = NoNotification
      /\ UNCHANGED <<inst, db, requests>>

TypesSteps(t) == aggregate(t) \/ lookUp(t)

=============================================================================
