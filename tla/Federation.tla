----------------------------- MODULE Federation -----------------------------
(***************************************************************************)
(* A request of a client that the broker passes on to context providers,   *)
(* each of them a broker of the same kind: what is written and read at     *)
(* each hop (updateForward(), queryForward(), and the parts of             *)
(* postUpdateContext() and postQueryContext() around them).  Which         *)
(* provider gets which attribute is chosen freely here; module             *)
(* ContextProviders computes it.  The same steps also carry a notification *)
(* from the broker to a receiver that is a broker.                         *)
(*                                                                         *)
(*   client      what is asked: [origin, request, url, ci, tree, msg]      *)
(*   ci          the ConnectionInfo of the client's request.  The same     *)
(*               one is used to read the answers of the providers.         *)
(*   asked       what jsonTreat() made of the request                      *)
(*   requestV    the requests to the providers that are not answered yet   *)
(*   fIx         how many have been answered                               *)
(*   wire        the text under way                                        *)
(*   understood  what the provider made of the text it got                 *)
(*   meant       the message that the provider answered with               *)
(*   got         what the broker made of the text it got                   *)
(*   response    the answer to the client so far                           *)
(*   responseV   the answers to a query so far                             *)
(***************************************************************************)
EXTENDS NgsiParse, SequencesExt

CONSTANTS
  Clients,           \* the requests
  ContextProvider,   \* the providers
  StoredAttributes,  \* the attributes that a broker may have stored
  Details,           \* the details that a provider may give
  cprForwardLimit    \* the option of the same name

VARIABLES pc, client, ci, asked, requestV, fIx, wire, understood, meant, got, response, responseV

vars == <<pc, client, ci, asked, requestV, fIx, wire, understood, meant, got, response, responseV>>

NoMessage == [contextResponses |-> <<>>, errorString |-> ""] @@ NoStatus
Nothing == [res |-> "", msg |-> NoMessage, reply |-> <<>>]

(***************************************************************************)
(* What a client writes: a tree of objects, arrays and strings             *)
(***************************************************************************)
RECURSIVE TextOf(_)
TextOf(tree) ==
  CASE tree.kind = "str" -> <<<<"str", tree.s>>>>
    [] tree.kind = "obj" ->
         startTag1("", FALSE)
         \o RenderAll(LAMBDA member, c : <<<<"escapedKey", member.name>>>> \o TextOf(member.tree) \o Comma(c), tree.members, 1) \o endTag(FALSE, FALSE)
    [] tree.kind = "arr" ->
         startTag2("", TRUE, FALSE) \o RenderAll(LAMBDA elem, c : TextOf(elem) \o Comma(c), tree.elems, 1) \o endTag(FALSE, TRUE)

(***************************************************************************)
(* The answer to the client                                                *)
(***************************************************************************)
Cer(entity, attributes, status) ==
  [id |-> entity.id, type |-> entity.type, isPattern |-> entity.isPattern, attributeDomainName |-> "",
   attributes |-> attributes, metadatas |-> <<>>] @@ status

equal(e1, e2) == e1.id = e2.id /\ e1.type = e2.type /\ isTrue(e1.isPattern) = isTrue(e2.isPattern)

\* The first response of that entity and of that status, if there is one; SccNone stands for any status
lookup(cerV, entity, code) == {ix \in DOMAIN cerV : equal(cerV[ix], entity) /\ (code = SccNone \/ cerV[ix].code = code)}

\* The attribute is added to the response of its entity that has the status, or to a new one.
CerPush(cerV, entity, attr, status) ==
  LET at == lookup(cerV, entity, status.code)
  IN  IF at = {} THEN Append(cerV, Cer(entity, <<attr>>, status)) ELSE [cerV EXCEPT ![Min(at)].attributes = Append(@, attr)]

foundPush(cerV, entity, attr) == CerPush(cerV, entity, attr, StatusFill(SccOk, ""))

\* Looked up by 404 whatever the status is: another error gets a response for each attribute.
notFoundPush(cerV, entity, attr, status) ==
  LET at == lookup(cerV, entity, SccContextElementNotFound)
  IN  IF at = {} THEN Append(cerV, Cer(entity, <<attr>>, status)) ELSE [cerV EXCEPT ![Min(at)].attributes = Append(@, attr)]

\* One attribute after another of a provider's answer
RECURSIVE MergeAttributes(_, _, _)
MergeAttributes(cerV, cer, attributes) ==
  IF attributes = <<>> THEN cerV
  ELSE MergeAttributes(IF cer.code = SccOk THEN foundPush(cerV, cer, Head(attributes))
                       ELSE notFoundPush(cerV, cer, Head(attributes), StatusFill(cer.code, cer.details)),
                       cer, Tail(attributes))

RECURSIVE MergeResponses(_, _)
MergeResponses(cerV, others) ==
  IF others = <<>> THEN cerV ELSE MergeResponses(MergeAttributes(cerV, Head(others), Head(others).attributes), Tail(others))

\* An answer without responses is an error, and the first error of a provider is the one the client is told.
merge(resp, upcrs) ==
  LET firstError == upcrs.contextResponses = <<>> /\ resp.code \in {SccNone, SccOk}
      status == CASE firstError -> StatusFill(upcrs.code, upcrs.details)
                  [] ~firstError /\ upcrs.contextResponses = <<>> /\ resp.details = "" -> [StatusFill(resp.code, upcrs.details) EXCEPT !.reasonPhrase = resp.reasonPhrase]
                  [] OTHER -> StatusCode(resp.code, resp.reasonPhrase, resp.details)
  IN  status @@ [resp EXCEPT !.contextResponses = MergeResponses(@, upcrs.contextResponses)]

\* QueryContextResponseVector::populate(): the responses without an error, those of one entity together
RECURSIVE Populate(_, _)
Populate(cerV, others) ==
  IF others = <<>> THEN cerV
  ELSE LET cer == Head(others)
           at == lookup(cerV, cer, SccNone)
       IN  Populate(CASE cer.code \notin {SccOk, SccNone} -> cerV
                      [] cer.code \in {SccOk, SccNone} /\ at # {} -> [cerV EXCEPT ![Min(at)].attributes = @ \o cer.attributes]
                      [] OTHER -> Append(cerV, StatusFill(SccOk, "") @@ cer),
                    Tail(others))

\* An empty answer that is no error becomes a response that names no entity.
NoEntity == Cer([id |-> "", type |-> "", isPattern |-> ""], <<>>, StatusFill(SccContextElementNotFound, ""))
PopulateOne(cerV, qcrs) ==
  IF qcrs.contextResponses = <<>> /\ qcrs.code \in {SccOk, SccNone} THEN Append(cerV, NoEntity) ELSE Populate(cerV, qcrs.contextResponses)

RECURSIVE PopulateAll(_, _)
PopulateAll(cerV, vec) == IF vec = <<>> THEN cerV ELSE PopulateAll(PopulateOne(cerV, Head(vec)), Tail(vec))

\* Of the answers of the providers, the local one first.  A single empty one gives its details to the 404.
QueryAnswer(vec) ==
  LET empty == Len(vec) = 1 /\ vec[1].contextResponses = <<>>
      fixed == IF empty /\ vec[1].code \in {SccOk, SccNone} THEN <<StatusFill(SccContextElementNotFound, "") @@ vec[1]>> ELSE vec
      status == CASE vec = <<>> -> StatusFill(SccContextElementNotFound, "")
                  [] empty -> StatusFill(SccContextElementNotFound, IF vec[1].code = SccContextElementNotFound THEN vec[1].details ELSE "")
                  [] OTHER -> StatusFill(SccOk, "")
  IN  status @@ [NoMessage EXCEPT !.contextResponses = PopulateAll(<<>>, fixed)]

(***************************************************************************)
(* The broker                                                              *)
(***************************************************************************)
Goto(from, to) == pc = from /\ pc' = to

UpdateRequests == {"UpdateContext", "UpdateContextElement", "UpdateContextAttribute", "AppendContextElement"}
QueryRequests == {"QueryContext", "IndividualContextEntity", "IndividualContextEntityAttribute"}
TypeRequests == {"EntityTypes", "AttributesForEntityType"}

\* The entity that the URL names
UrlEntity == [id |-> client.url.id, type |-> client.url.type, isPattern |-> "false"]

\* UpdateContextRequest::fill() of the convenience operations: the entity, and the name of one attribute, are in the URL.
UpdateContextRequestFill(request, msg) ==
  LET element(attributes, name, metadatas) == UrlEntity @@ [attributeDomainName |-> name, attributes |-> attributes, metadatas |-> metadatas]
      attribute == [name |-> client.url.attributeName, type |-> msg.type, valueType |-> msg.valueType, value |-> msg.value,
                    compound |-> msg.compound, metadatas |-> msg.metadatas]
  IN  CASE request = "UpdateContext" -> msg.contextElements[1]
        [] request = "UpdateContextElement" -> element(msg.attributes, msg.attributeDomainName, <<>>)
        [] request = "AppendContextElement" ->
             [element(msg.attributes, msg.attributeDomainName, msg.metadatas) EXCEPT !.id = IF msg.id # "" THEN msg.id ELSE @,
                                                                                     !.type = IF msg.type # "" THEN msg.type ELSE @]
        [] request = "UpdateContextAttribute" -> element(<<attribute>>, "", <<>>)

\* Only an update is forwarded.
IsUpdate(request, msg) == request # "AppendContextElement" /\ (request = "UpdateContext" => msg.updateAction \in {"update", "UPDATE", "Update"})

\* The payload of an append may name the entity too: as the URL does, and no pattern.
AgainstUrl(treated) ==
  LET differs(field) == treated.msg[field] # "" /\ client.url[field] # "" /\ treated.msg[field] # client.url[field]
      reason == IF treated.res # "OK" \/ client.request # "AppendContextElement" THEN treated.res
                ELSE FirstError(<<Refuse(differs("id"), "entityId::id differs in URL and payload"),
                                  Refuse(differs("type"), "entityId::type differs in URL and payload"),
                                  Refuse(treated.msg.isPattern = "true", "entityId::isPattern set to true"),
                                  Refuse(treated.msg.id = "" /\ client.url.id = "", "mandatory entityId::id missing")>>)
  IN  [treated EXCEPT !.res = reason,
                      !.reply = IF reason = treated.res THEN @
                                ELSE ResponseText(treated.ci, client.request, NoIds, StatusFill(SccBadRequest, reason))]

\* A GET has no payload, and the request of a version 2 client is given as what its own parser has made of it.
Receive ==
  /\ pc = "receive"
  /\ \E treated \in {IF client.origin = "v1" THEN AgainstUrl(jsonTreat(TextOf(client.tree), ci, client.request))
                     ELSE [res |-> "OK", msg |-> client.msg, ci |-> ci, reply |-> <<>>]} :
       /\ asked' = [res |-> treated.res, msg |-> treated.msg, reply |-> treated.reply]
       /\ ci' = treated.ci
       /\ Goto("receive", CASE treated.res # "OK" -> "reply"
                            [] treated.res = "OK" /\ client.origin = "notifier" -> "notify"
                            [] treated.res = "OK" /\ client.request \in UpdateRequests -> "update"
                            [] treated.res = "OK" /\ client.request \in QueryRequests -> "query"
                            [] OTHER -> "reply")
  /\ UNCHANGED <<client, requestV, fIx, wire, understood, meant, got, response, responseV>>

\* The attributes that are in one of the places
Where(attributes, where, places) ==
  LET ixs == SelectSeq([n \in DOMAIN attributes |-> n], LAMBDA n : where[n] \in places)
  IN  [n \in DOMAIN ixs |-> attributes[ixs[n]]]

\* The providers in the order of their first attribute
ProvidersOf(where) ==
  LET first(app) == Min({n \in DOMAIN where : where[n] = app})
      apps == {where[n] : n \in DOMAIN where} \cap ContextProvider
  IN  [n \in 1..Cardinality(apps) |-> CHOOSE app \in apps : Cardinality({a \in apps : first(a) <= first(app)}) = n]

ForwardedTo(entity, attributes) ==
  [request |-> "UpdateContext",
   msg |-> [contextElements |-> <<[entity EXCEPT !.attributes = attributes, !.attributeDomainName = "", !.metadatas = <<>>]>>,
            updateAction |-> "UPDATE", errorString |-> ""]]

\* The responses of mongoUpdateContext() have no values; the metadata is that of the request.
Answered(attributes) == [n \in DOMAIN attributes |-> [attributes[n] EXCEPT !.valueType = "string", !.value = "", !.compound = <<>>]]

\* What was found and what was not are answered apart.
Separated(entity, found, notFound, details) ==
  StatusFill(SccOk, "")
  @@ [NoMessage EXCEPT !.contextResponses = (IF found = <<>> THEN <<>> ELSE <<Cer(entity, found, StatusFill(SccOk, ""))>>)
                                            \o (IF notFound = <<>> THEN <<>> ELSE <<Cer(entity, notFound, StatusFill(SccContextElementNotFound, details))>>)]

\* The broker has an attribute itself, knows the provider that has it, or does neither.  When there is something to
\* forward, the attributes get their values back first, those that are not forwarded too.
postUpdateContext ==
  /\ pc = "update"
  /\ \E entity \in {UpdateContextRequestFill(client.request, asked.msg)} :
       \E where \in [DOMAIN entity.attributes -> IF IsUpdate(client.request, asked.msg) THEN {"local", "nowhere"} \cup ContextProvider ELSE {"local"}] :
         \E attributes \in {IF ProvidersOf(where) = <<>> THEN Answered(entity.attributes) ELSE entity.attributes} :
           /\ requestV' = [n \in DOMAIN ProvidersOf(where) |-> ForwardedTo(entity, Where(attributes, where, {ProvidersOf(where)[n]}))]
           /\ response' = IF entity.attributes = <<>> THEN StatusFill(SccOk, "") @@ [NoMessage EXCEPT !.contextResponses = <<Cer(entity, <<>>, StatusFill(SccOk, ""))>>]
                          ELSE Separated(entity, Where(attributes, where, {"local"}), Where(attributes, where, {"nowhere"}), entity.id)
  /\ Goto("update", "next")
  /\ UNCHANGED <<client, ci, asked, fIx, wire, understood, meant, got, responseV>>

\* QueryContextRequest::fill() of a GET
QueryContextRequestFill(request, msg) ==
  CASE request = "QueryContext" -> [entity |-> msg.entities[1], attributes |-> msg.attributes]
    [] request = "IndividualContextEntity" -> [entity |-> UrlEntity, attributes |-> <<>>]
    [] request = "IndividualContextEntityAttribute" -> [entity |-> UrlEntity, attributes |-> <<client.url.attributeName>>]

QueryOf(entity, attributes) ==
  [request |-> "QueryContext",
   msg |-> [entities |-> <<entity>>, attributes |-> attributes, attributeExpression |-> "", scopes |-> <<>>, restrictions |-> 0,
            coords |-> 0, pointNo |-> 0, errorString |-> ""]]

\* What the broker has of its own comes first.  The attributes asked for are elsewhere, or the whole entity is.
postQueryContext ==
  /\ pc = "query"
  /\ \E query \in {QueryContextRequestFill(client.request, asked.msg)} :
       \E found \in {[query.entity EXCEPT !.id = IF isTrue(query.entity.isPattern) THEN "E" ELSE @, !.isPattern = "false"]},
          n \in 0..Cardinality(ContextProvider), local \in {<<>>} \cup {<<attr>> : attr \in StoredAttributes} :
         /\ requestV' = [k \in 1..n |-> QueryOf(found, query.attributes)]
         /\ responseV' = IF local = <<>> THEN <<>> ELSE <<Separated(found, local, <<>>, "")>>
  /\ Goto("query", "next")
  /\ UNCHANGED <<client, ci, asked, fIx, wire, understood, meant, got, response>>

\* A notification of the broker's own: no client is waiting.
notify ==
  /\ Goto("notify", "forward")
  /\ requestV' = <<[request |-> client.request, msg |-> asked.msg]>>
  /\ UNCHANGED <<client, ci, asked, fIx, wire, understood, meant, got, response, responseV>>

\* The request is written as the client's own would be: with the parameters of its URL.
Render(forward) ==
  CASE forward.request = "UpdateContext" -> UpdateContextRequestRender(ci, forward.msg)
    [] forward.request = "QueryContext" -> QueryContextRequestRender(forward.msg)
    [] forward.request = "NotifyContext" -> NotifyContextRequestRender(ci, forward.msg)
    [] forward.request = "NotifyContextAvailability" -> NotifyContextAvailabilityRequestRender(forward.msg)

Send ==
  /\ pc = "forward"
  /\ wire' = Render(Head(requestV))
  /\ Goto("forward", "sent")
  /\ UNCHANGED <<client, ci, asked, requestV, fIx, understood, meant, got, response, responseV>>

(***************************************************************************)
(* The provider, or the receiver of the notification                       *)
(***************************************************************************)
ProviderCi(request) ==
  [apiVersion |-> "v1", attributeFormat |-> "", collapse |-> "", httpStatusCode |-> SccOk, answer |-> "", method |-> "POST",
   payloadWord |-> IF request = "UpdateContext" THEN "updateContextRequest" ELSE "queryContextRequest"]

ProviderReads ==
  /\ pc = "sent"
  /\ \E treated \in {jsonTreat(wire, ProviderCi(Head(requestV).request), Head(requestV).request)} :
       understood' = [res |-> treated.res, msg |-> treated.msg]
  /\ Goto("sent", "provider")
  /\ UNCHANGED <<client, ci, asked, requestV, fIx, wire, meant, got, response, responseV>>

ErrorMessage(code, details) == StatusFill(code, details) @@ [NoMessage EXCEPT !.contextResponses = <<>>]

UpdateAnswer(element, found, details) ==
  Separated(element, SelectSeq(Answered(element.attributes), LAMBDA attr : attr.name \in found),
            SelectSeq(Answered(element.attributes), LAMBDA attr : attr.name \notin found), details)

\* A query finds the entity with one attribute, or nothing.
QueryAnswers(entity, details) ==
  {ErrorMessage(SccContextElementNotFound, details)}
  \cup {Separated(entity, <<attr>>, <<>>, "") : attr \in StoredAttributes}

MessagesOfProvider ==
  CASE understood.res # "OK" -> {ErrorMessage(SccBadRequest, understood.res)}
    [] understood.res = "OK" /\ Head(requestV).request = "UpdateContext" ->
         LET element == understood.msg.contextElements[1]
         IN  {UpdateAnswer(element, found, details) : found \in SUBSET {element.attributes[n].name : n \in DOMAIN element.attributes}, details \in Details}
    [] understood.res = "OK" /\ Head(requestV).request = "QueryContext" ->
         UNION {QueryAnswers(understood.msg.entities[1], details) : details \in Details}
    [] OTHER -> {ErrorMessage(SccOk, "")}

AnswerText(request, msg) ==
  CASE request = "UpdateContext" -> UpdateContextResponseRender(ProviderCi(request), msg)
    [] request = "QueryContext" -> QueryContextResponseRender(ProviderCi(request), msg)
    [] OTHER -> NotifyContextResponseRender(msg)

ProviderAnswers ==
  /\ pc = "provider"
  /\ \E msg \in MessagesOfProvider :
       /\ meant' = msg
       /\ wire' = AnswerText(Head(requestV).request, msg)
  /\ Goto("provider", IF client.origin = "notifier" THEN "done" ELSE "answered")
  /\ UNCHANGED <<client, ci, asked, requestV, fIx, understood, got, response, responseV>>

\* The provider is not reached, or hangs up: httpRequestSend() fails, or there is no '{' in what came back.
ProviderFails ==
  /\ pc = "sent"
  /\ wire' = <<>>
  /\ Goto("sent", IF client.origin = "notifier" THEN "done" ELSE "answered")
  /\ UNCHANGED <<client, ci, asked, requestV, fIx, understood, meant, got, response, responseV>>

(***************************************************************************)
(* The answer of a provider                                                *)
(***************************************************************************)
ResponseType(request) == IF request = "UpdateContext" THEN "RtUpdateContextResponse" ELSE "RtQueryContextResponse"

\* The status of what was read: 404 for the only response is one for the answer.
FixStatus(msg) ==
  LET status == IF msg.code = SccNone THEN StatusFill(SccOk, "") ELSE StatusFill(msg.code, msg.details)
      notFound == Len(msg.contextResponses) = 1 /\ msg.contextResponses[1].code = SccContextElementNotFound
  IN  (IF notFound THEN StatusFill(SccContextElementNotFound, "") ELSE status) @@ msg

\* The end of updateForward() and of queryForward()
ReadAnswer(treated, request) ==
  CASE wire = <<>> -> ErrorMessage(SccContextElementNotFound, "error forwarding")
    [] wire # <<>> /\ treated.res # "OK" -> ErrorMessage(SccContextElementNotFound, "")
    [] OTHER -> FixStatus(treated.msg)

BrokerReads ==
  /\ pc = "answered"
  /\ \E request \in {Head(requestV).request} :
       \E treated \in {jsonTreat(wire, [ci EXCEPT !.method = "POST"], ResponseType(request))} :
         /\ got' = [res |-> treated.res, msg |-> ReadAnswer(treated, request)]
         /\ ci' = IF wire = <<>> THEN ci ELSE treated.ci
         /\ response' = IF request = "UpdateContext" THEN merge(response, got'.msg) ELSE response
         /\ responseV' = IF request = "UpdateContext" THEN responseV ELSE Append(responseV, got'.msg)
  /\ requestV' = Tail(requestV)
  /\ fIx' = fIx + 1
  /\ Goto("answered", "next")
  /\ UNCHANGED <<client, asked, wire, understood, meant>>

\* The providers that are over the limit are not asked.
NextProvider ==
  /\ pc = "next"
  /\ Goto("next", IF requestV # <<>> /\ fIx < cprForwardLimit THEN "forward" ELSE "reply")
  /\ UNCHANGED <<client, ci, asked, requestV, fIx, wire, understood, meant, got, response, responseV>>

(***************************************************************************)
(* The reply                                                               *)
(***************************************************************************)
IsError(status) == status.code \notin {SccNone, SccOk}

\* UpdateContextElementResponse::fill() and AppendContextElementResponse::fill(): the first response only.  Its error
\* becomes that of the reply.
ConvenienceFill(resp) ==
  LET cerV == resp.contextResponses
      car == <<[attributes |-> Answered(cerV[1].attributes)] @@ StatusFill(cerV[1].code, cerV[1].details)>>
      notFound == resp.code # SccContextElementNotFound /\ (cerV = <<>> \/ cerV[1].code = SccContextElementNotFound)
      status == CASE notFound -> StatusFill(SccContextElementNotFound, "")
                  [] ~notFound /\ ~IsError(resp) /\ IsError(cerV[1]) -> StatusFill(cerV[1].code, cerV[1].details)
                  [] OTHER -> StatusFill(resp.code, resp.details)
      details == IF status.code = SccContextElementNotFound /\ status.details = "" /\ Len(cerV) = 1 THEN cerV[1].id ELSE status.details
  IN  [status EXCEPT !.details = details] @@ [id |-> IF cerV = <<>> THEN "" ELSE cerV[1].id, type |-> IF cerV = <<>> THEN "" ELSE cerV[1].type,
       isPattern |-> "false", contextResponses |-> IF cerV = <<>> THEN <<>> ELSE car]

\* StatusCode::fill() of the answer to an update
StatusCodeFill(resp) ==
  CASE IsError(resp) -> StatusFill(resp.code, resp.details)
    [] ~IsError(resp) /\ resp.contextResponses # <<>> -> StatusFill(resp.contextResponses[1].code, resp.contextResponses[1].details)
    [] OTHER -> StatusFill(SccReceiverInternalError, "no response")

\* ContextElementResponse::fill() and what getIndividualContextEntity() does around it: the first entity found
ContextElementResponseFill(qcrs) ==
  LET none == qcrs.contextResponses = <<>>
      status == IF qcrs.code = SccNone THEN StatusFill(SccOk, "") ELSE StatusFill(qcrs.code, qcrs.details)
  IN  IF none \/ status.code = SccContextElementNotFound
      THEN Cer(UrlEntity, IF none THEN <<>> ELSE qcrs.contextResponses[1].attributes, [status EXCEPT !.details = UrlEntity.id])
      ELSE status @@ qcrs.contextResponses[1]

\* getIndividualContextEntityAttribute()
ContextAttributeResponseFill(qcrs) ==
  LET none == qcrs.contextResponses = <<>>
      status == IF none THEN StatusFill(qcrs.code, qcrs.details) ELSE StatusFill(qcrs.contextResponses[1].code, qcrs.contextResponses[1].details)
  IN  [attributes |-> IF none THEN <<>> ELSE qcrs.contextResponses[1].attributes]
      @@ (IF status.code = SccContextElementNotFound THEN [status EXCEPT !.details = UrlEntity.id] ELSE status)

\* The operations that have no part in the forwarding succeed or fail, and echo what they were asked.
OtherReplies(request, msg) ==
  LET echo == [id \in DOMAIN NoIds |-> IF id \in DOMAIN msg THEN msg[id] ELSE NoIds[id]]
      failed == StatusFill(SccContextElementNotFound, "d")
      registration == [entities |-> msg.entities, attributes |-> <<>>, metadatas |-> <<>>, providingApplication |-> "app"] @@ NoStatus
      types == <<[name |-> "T", attributes |-> <<>>], [name |-> "U", attributes |-> SetToSeq(StoredAttributes)]>>
      response1(status) == ResponseText(ci, IF request = "RegisterProvider" THEN "RegisterContext" ELSE request, echo, status)
  IN  CASE request = "DiscoverContextAvailability" ->
             {DiscoverContextAvailabilityResponseRender(NoStatus @@ [contextRegistrationResponses |-> <<registration>>]), response1(failed)}
        [] request = "EntityTypes" -> {EntityTypeVectorResponseRender(ci, [types |-> t] @@ StatusFill(SccOk, "")) : t \in {<<>>, types}}
        [] request = "AttributesForEntityType" -> {EntityTypeResponseRender(ci, t @@ StatusFill(SccOk, "")) : t \in Range(types)}
        [] request \in {"UnsubscribeContext", "UnsubscribeContextAvailability", "NotifyContext", "NotifyContextAvailability"} ->
             {response1(StatusFill(SccOk, "")), response1(failed)}
        [] OTHER -> {response1(NoStatus), response1(failed)}

\* What a client of version 1 is sent
ReplyTexts ==
  CASE asked.res # "OK" -> {asked.reply}
    [] asked.res = "OK" /\ client.request = "UpdateContext" -> {UpdateContextResponseRender(ci, response)}
    [] asked.res = "OK" /\ client.request = "UpdateContextElement" ->
         {UpdateContextElementResponseRender(ci, "IndividualContextEntity", ConvenienceFill(response))}
    [] asked.res = "OK" /\ client.request = "AppendContextElement" ->
         {AppendContextElementResponseRender(ci, "IndividualContextEntity", ConvenienceFill(response))}
    [] asked.res = "OK" /\ client.request = "UpdateContextAttribute" -> {StatusCodeBody(StatusCodeFill(response))}
    [] asked.res = "OK" /\ client.request = "QueryContext" -> {QueryContextResponseRender(ci, QueryAnswer(responseV))}
    [] asked.res = "OK" /\ client.request = "IndividualContextEntity" ->
         {ContextElementResponseRender(ci, client.request, ContextElementResponseFill(QueryAnswer(responseV)), FALSE)}
    [] asked.res = "OK" /\ client.request = "IndividualContextEntityAttribute" ->
         {ContextAttributeResponseRender(ci, client.request, ContextAttributeResponseFill(QueryAnswer(responseV)))}
    [] OTHER -> OtherReplies(client.request, asked.msg)

\* The reply to a client of version 2 is not written here.
Reply ==
  /\ pc = "reply"
  /\ \E text \in IF client.origin = "v2" THEN {<<>>} ELSE ReplyTexts : wire' = text
  /\ Goto("reply", "done")
  /\ UNCHANGED <<client, ci, asked, requestV, fIx, understood, meant, got, response, responseV>>

Init ==
  /\ pc = "receive"
  /\ client \in Clients
  /\ ci = client.ci
  /\ asked = Nothing /\ understood = Nothing /\ got = Nothing
  /\ requestV = <<>> /\ fIx = 0 /\ wire = <<>> /\ responseV = <<>>
  /\ meant = NoMessage /\ response = NoMessage

Next ==
  \/ Receive \/ postUpdateContext \/ postQueryContext \/ notify \/ Send
  \/ ProviderReads \/ ProviderAnswers \/ ProviderFails
  \/ BrokerReads \/ NextProvider \/ Reply

Spec == Init /\ [][Next]_vars

(***************************************************************************)
(* What is lost on the way                                                 *)
(***************************************************************************)
\* Every value is a string for the reader: a number is one of six significant digits, a value that is missing is "null",
\* and a string inside a compound value is not escaped by a broker that writes it for a client of version 2.
RECURSIVE AsReadNode(_, _)
AsReadNode(apiVersion, node) ==
  [node EXCEPT !.type = IF @ \in {"number", "bool", "none"} THEN "string" ELSE @,
               !.s = CASE node.type = "none" -> "null"
                       [] node.type = "number" -> toString(@)
                       [] OTHER -> IF apiVersion = "v2" THEN AsItIs(@) ELSE @,
               !.kids = [n \in DOMAIN node.kids |-> AsReadNode(apiVersion, node.kids[n])]]

AsReadAttribute(apiVersion, attr) ==
  [attr EXCEPT !.valueType = "string", !.value = IF attr.compound = <<>> THEN EffectiveValue(attr) ELSE "",
               !.compound = [n \in DOMAIN attr.compound |-> AsReadNode(apiVersion, attr.compound[n])],
               !.metadatas = [n \in DOMAIN attr.metadatas |-> [attr.metadatas[n] EXCEPT !.valueType = "string", !.value = IF attr.metadatas[n].valueType = "string" THEN @ ELSE ""]]]

\* The id and the type of an entity are not escaped.
AsReadEntity(entity) == [entity EXCEPT !.id = AsItIs(@), !.type = AsItIs(@)]
AsReadEntities(entities) == [n \in DOMAIN entities |-> AsReadEntity(entities[n])]

AsRead(apiVersion, elements) ==
  [n \in DOMAIN elements |->
     [AsReadEntity(elements[n]) EXCEPT !.attributes = [k \in DOMAIN @ |-> AsReadAttribute(apiVersion, elements[n].attributes[k])]]]

\* The message as the reader should have it
AsReadMessage(request, msg) ==
  CASE request = "UpdateContext" -> [msg EXCEPT !.contextElements = AsRead(ci.apiVersion, @)]
    [] request = "NotifyContext" -> [msg EXCEPT !.contextResponses = AsRead(ci.apiVersion, @)]
    [] request = "QueryContext" -> [msg EXCEPT !.entities = AsReadEntities(@)]
    [] request = "NotifyContextAvailability" ->
         [msg EXCEPT !.contextRegistrationResponses =
            [n \in DOMAIN @ |-> [msg.contextRegistrationResponses[n] EXCEPT !.entities = AsReadEntities(@)]]]

\* The strings that are written as they are: those of entities, and those of compound values for version 2
EntityStrings(entities) == UNION {{entities[n].id, entities[n].type} : n \in DOMAIN entities}

RECURSIVE NodeStrings(_)
NodeStrings(node) == (IF node.type = "string" THEN {node.s} ELSE {}) \cup UNION {NodeStrings(node.kids[n]) : n \in DOMAIN node.kids}

RECURSIVE NodeNames(_)
NodeNames(node) == {node.name} \cup UNION {NodeNames(node.kids[n]) : n \in DOMAIN node.kids}

OfCompounds(strings(_), elements) ==
  UNION {UNION {UNION {strings(attr.compound[m]) : m \in DOMAIN attr.compound} : attr \in Range(elements[n].attributes)} : n \in DOMAIN elements}

ElementStrings(apiVersion, elements) ==
  EntityStrings(elements) \cup IF apiVersion = "v2" THEN OfCompounds(NodeStrings, elements) ELSE {}

\* They reach the reader as strings that it allows.
Arrive(strings) == \A s \in strings \cap DOMAIN Unescaped : Unescaped[s] # "" /\ ~forbiddenChars(Unescaped[s])

\* The metadata of a value that is no string is written as the empty string, which is refused unless the attribute has a
\* compound value.  Version 2 asks for types.
AttributeReadable(apiVersion, attr) ==
  /\ apiVersion = "v2" => attr.type # ""
  /\ attr.compound = <<>> => \A n \in DOMAIN attr.metadatas :
       LET md == attr.metadatas[n] IN md.name # "" /\ md.valueType = "string" /\ md.value # "" /\ (apiVersion = "v2" => md.type # "")

AttributesReadable(apiVersion, elements) ==
  \A n \in DOMAIN elements : \A k \in DOMAIN elements[n].attributes : AttributeReadable(apiVersion, elements[n].attributes[k])

ElementsReadable(elements) == AttributesReadable("v1", elements) /\ Arrive(ElementStrings(ci.apiVersion, elements))

\* No broker reads the attributes that attributeFormat=object makes it write.
ForwardReadable(forward) ==
  CASE forward.request = "UpdateContext" -> ci.attributeFormat # "object" /\ ElementsReadable(forward.msg.contextElements)
    [] forward.request = "NotifyContext" -> ElementsReadable(forward.msg.contextResponses)
    [] forward.request = "QueryContext" -> Arrive(EntityStrings(forward.msg.entities))
    [] forward.request = "NotifyContextAvailability" ->
         \A reg \in Range(forward.msg.contextRegistrationResponses) : Arrive(EntityStrings(reg.entities))

\* The names of the members of compound values are not escaped either.  A message in which one of them needs it is left
\* out: its members may have one name in the end.
EscapedNames(forward) == forward.request = "UpdateContext" => OfCompounds(NodeNames, forward.msg.contextElements) \cap DOMAIN Unescaped = {}

\* The details are escaped with characters that are not allowed.  The version is the client's; the answers are written
\* with version 1.
AnswerReadable(msg) ==
  /\ Arrive(ElementStrings("v1", msg.contextResponses))
  /\ ~forbiddenChars(msg.details)
  /\ \A n \in DOMAIN msg.contextResponses : ~forbiddenChars(msg.contextResponses[n].details)
  /\ AttributesReadable(ci.apiVersion, msg.contextResponses)

(***************************************************************************)
(* Properties                                                              *)
(***************************************************************************)
\* Whatever a broker writes - a forwarded request, a notification, an answer, the reply to the client - is JSON: the
\* commas that the render() methods put because a flag tells them to are the right ones, in every combination of parts.
\* There are two exceptions, and no other.  One is the reply to an update of which a part was forwarded, when an
\* attribute of the other part has no value; postUpdateContext() has given it its valueType back, and the value is
\* written without quotes and without the value.  The other is a string that needs an escape in a place where none is
\* made: the id or the type of an entity (EntityId::render()), a key (the name of an attribute with
\* attributeFormat=object, that of a member of a compound value), the name of an attribute of an entity type, and a
\* string inside a compound value when the client is of version 2.
ValueLeftOut ==
  /\ pc = "done" /\ client.request = "UpdateContext" /\ client.origin = "v1" /\ asked.res = "OK" /\ ~IsError(response)
  /\ \E n \in DOMAIN response.contextResponses : \E k \in DOMAIN response.contextResponses[n].attributes :
       ~Quoted(response.contextResponses[n].attributes[k]) /\ response.contextResponses[n].attributes[k].compound = <<>>
EscapeLeftOut == \E n \in DOMAIN wire : NotReadable(wire[n])
TextsAreJson == wire # <<>> => (WellFormed(wire) <=> ~ValueLeftOut /\ ~EscapeLeftOut)

\* A request that is forwarded, and a notification that is sent to a broker, is accepted and understood as it was meant:
\* the parse vectors and the checks know what the render() methods write.  Values become strings, numbers with six
\* significant digits.  Nothing else is lost but by what ForwardReadable says, and by the escapes that are not made: an id
\* or a type with a backslash is another one for the reader, or the request is refused.
ForwardsAreUnderstood ==
  pc = "provider" /\ EscapedNames(Head(requestV)) =>
    /\ understood.res = "OK" <=> ForwardReadable(Head(requestV))
    /\ understood.res = "OK" => understood.msg = AsReadMessage(Head(requestV).request, Head(requestV).msg)

\* The same object with its members in the opposite order.  The value of an attribute is a value of its own, and what is
\* made of the value of a scope depends on the type of the scope, which has to come first.
RECURSIVE Reversed(_)
Reversed(tree) ==
  CASE tree.kind = "str" -> tree
    [] tree.kind = "arr" -> [tree EXCEPT !.elems = [n \in DOMAIN @ |-> Reversed(tree.elems[n])]]
    [] tree.kind = "obj" -> [tree EXCEPT !.members = [n \in DOMAIN @ |->
                               LET member == tree.members[Len(tree.members) + 1 - n]
                               IN  IF member.name \in {"value", "scopes"} THEN member ELSE [member EXCEPT !.tree = Reversed(@)]]]

\* What a client asks does not depend on the order of the members of its objects, although each treat function works on
\* the part that was pushed last: the part of an array is pushed when its element begins, before anything is stored in it.
OrderDoesNotMatter ==
  pc \notin {"receive", "done"} /\ client.origin = "v1" /\ fIx = 0 =>
    LET other == AgainstUrl(jsonTreat(TextOf(Reversed(client.tree)), client.ci, client.request))
    IN  /\ asked.res = "OK" <=> other.res = "OK"
        /\ asked.res = "OK" => other.msg = asked.msg

\* Each attribute of an update is in the answer, as found or not found, unless the answer is an error or its provider was
\* not asked because of cprForwardLimit; and what was found for a query is in the answer, all of an entity together.
NamesOf(elements) == UNION {{elements[n].attributes[k].name : k \in DOMAIN elements[n].attributes} : n \in DOMAIN elements}
Gathered ==
  /\ pc = "reply" /\ asked.res = "OK" /\ client.request \in UpdateRequests /\ ~IsError(response) =>
       NamesOf(response.contextResponses) \cup UNION {NamesOf(requestV[n].msg.contextElements) : n \in DOMAIN requestV}
         = NamesOf(<<UpdateContextRequestFill(client.request, asked.msg)>>)
  /\ pc = "reply" /\ asked.res = "OK" /\ client.request \in QueryRequests =>
       \A cer \in UNION {Range(responseV[n].contextResponses) : n \in DOMAIN responseV} : ~IsError(cer) =>
         Cardinality({n \in DOMAIN QueryAnswer(responseV).contextResponses :
                        /\ equal(QueryAnswer(responseV).contextResponses[n], cer)
                        /\ Range(cer.attributes) \subseteq Range(QueryAnswer(responseV).contextResponses[n].attributes)}) = 1

\* The answer of a provider is accepted and understood as it was meant, by the broker that reads it with the
\* ConnectionInfo of its own client.  What an error says may make it unreadable, and so may an id
\* or a type that is not escaped; numbers come with six significant digits.  The answers of all the providers are read one
\* after another with that one ConnectionInfo, which each of them may set to an error: still, for a client of version 1,
\* no answer is refused because of an earlier one.  (For a client of version 2 it may be: the error of an earlier one
\* stays, and the compound values of the later ones are refused.)  And what they said is in the answer to the client.
AnswersAreUnderstood ==
  /\ Gathered
  /\ pc = "next" /\ fIx > 0 /\ wire # <<>> /\ (client.ci.apiVersion = "v1" \/ fIx = 1) =>
       /\ got.res = "OK" <=> AnswerReadable(meant)
       /\ got.res = "OK" => got.msg.contextResponses = AsRead("v1", meant.contextResponses)
       /\ got.res = "OK" /\ IsError(meant) => got.msg.code = meant.code /\ got.msg.details = meant.details

=============================================================================
