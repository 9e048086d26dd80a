-------------------------------- MODULE Rest --------------------------------
(***************************************************************************)
(* The way of a request from libmicrohttpd to its service routine:         *)
(* connectionTreat() and requestCompleted() of rest.cpp, restService() of  *)
(* RestService.cpp, and the replies of restReply.cpp and OrionError.cpp.   *)
(*                                                                         *)
(* The library calls connectionTreat() once for the headers, once for      *)
(* every piece of the body that arrives, and once more when the request is *)
(* complete; requestCompleted() when the reply is sent or the client gone. *)
(* A body is gathered in the thread's static_buffer when it fits, and on   *)
(* the heap otherwise.  With -reqPoolSize 0 a connection has a thread of   *)
(* its own; with a pool, connections share the threads.                    *)
(*                                                                         *)
(* A request is a record: its method and URL (the sequence of its          *)
(* components, at least one), its body (a sequence of units, as long as    *)
(* its Content-Length says), what the parsers find it to be ("good",       *)
(* "malformed", or well-formed but refused by a check, "invalid"), the     *)
(* media types of Content-Type ("" for none) and Accept (a set), and       *)
(* one word each, "none", "good" or "bad", for the URI parameters, the     *)
(* service path and the tenant; charsOk tells that the URL has no          *)
(* forbidden character.                                                    *)
(***************************************************************************)
EXTENDS RestServices, Integers, FiniteSetsExt

CONSTANTS
  Connections, Threads,
  Workloads,           \* the requests of each connection: functions from connections to sequences of requests
  STATIC_BUFFER_SIZE, PAYLOAD_MAX_SIZE

VARIABLES
  queue,               \* the requests that a connection has still to bring
  thread,              \* the thread that serves a connection
  ciP,                 \* the ConnectionInfo of a connection's request
  static_buffer,       \* the thread variable, of every thread
  heap                 \* the buffer that malloc() gave a connection's request

vars == <<queue, thread, ciP, static_buffer, heap>>

NoCi == <<>>           \* *con_cls when there is no request
Terminator == 0
Junk == -1             \* what malloc() leaves in a buffer
Verbs == {"GET", "POST", "PUT", "DELETE", "PATCH", "OPTIONS"}

\* The text of a body ends at its first terminator: bodies have none.
Request ==
  [method : Verbs, url : Seq(STRING) \ {<<>>}, charsOk : BOOLEAN, contentType : STRING, accept : SUBSET STRING,
   params : {"none", "good", "bad"}, servicePath : {"none", "good", "bad"}, tenant : {"none", "good", "bad"},
   body : Seq(Int \ {Terminator}), kind : {"good", "malformed", "invalid"}]

ASSUME RestAssumption ==
  /\ STATIC_BUFFER_SIZE \in Nat /\ PAYLOAD_MAX_SIZE \in Nat
  /\ \A work \in Workloads : work \in [Connections -> Seq(Request)]

contentLength(ci) == Len(ci.req.body)

\* A buffer is a sequence of units, and its text what comes before the first
\* terminator.
Text(buffer) ==
  LET ends == {i \in DOMAIN buffer : buffer[i] = Terminator}
  IN  IF ends = {} THEN buffer ELSE SubSeq(buffer, 1, Min(ends) - 1)

Buffer(c) == IF ciP[c].payload = "static_buffer" THEN static_buffer[thread[c]] ELSE heap[c]

-----------------------------------------------------------------------------
\* Replies.  libmicrohttpd queues one reply for a request and refuses others.
restReply(ci) ==
  IF ci.reply.status # "none" THEN ci ELSE [ci EXCEPT !.reply = [status |-> ci.httpStatusCode, allow |-> ci.allow]]

\* Mutant: the status code is left alone in NGSIv2 too.
RenderKeepsTheCode(ci) == ci

\* OrionError::render: an NGSIv1 error leaves the status code alone.
render(ci) ==
  [ci EXCEPT !.httpStatusCode = IF ci.apiVersion = "v2" /\ @ = "SccOk" THEN "SccBadRequest" ELSE @]

\* The tags of tagGet() are of NGSIv1 requests, whose responses leave the
\* status code alone; all else is an OrionError.
restErrorReplyGet(ci) == render([ci EXCEPT !.httpStatusCode = "SccOk"])

Answer(ci) == [ci EXCEPT !.answer = TRUE]
Status(ci, code) == [ci EXCEPT !.httpStatusCode = code]

-----------------------------------------------------------------------------
\* First call
apiVersionGet(url) == IF url[1] = "v2" \/ url = <<"admin", "log">> THEN "v2" ELSE "v1"

\* A parameter without a value, or with one that is not of its kind, or with a
\* forbidden character
uriArgumentGet(ci) ==
  IF ci.req.params = "bad" THEN Answer(render(Status(ci, "SccBadRequest"))) ELSE ci

ConnectionInfo(req) ==
  uriArgumentGet([req |-> req, apiVersion |-> apiVersionGet(req.url), httpStatusCode |-> "SccOk", answer |-> FALSE,
                  payload |-> "NULL", payloadSize |-> 0, inMimeType |-> "JSON", received |-> 0,
                  reply |-> [status |-> "none", allow |-> {}], allow |-> {}, parsed |-> <<>>, treat |-> "none"])

FirstCall(c) ==
  /\ ciP[c] = NoCi
  /\ queue[c] # <<>>
  /\ ciP' = [ciP EXCEPT ![c] = ConnectionInfo(Head(queue[c]))]
  /\ queue' = [queue EXCEPT ![c] = Tail(@)]
  /\ UNCHANGED <<thread, static_buffer, heap>>

\* A call with the next n units of the body.  Mutant: the payload is not
\* zero-terminated.
CopyUnterminated(buffer, at, units) ==
  [i \in DOMAIN buffer |-> IF i \in at + 1 .. at + Len(units) THEN units[i - at] ELSE buffer[i]]

Copy(buffer, at, units) ==
  [CopyUnterminated(buffer, at, units) EXCEPT ![at + Len(units) + 1] = Terminator]

malloc(size) == [i \in 1 .. size |-> Junk]

DataCall(c, n) ==
  LET ci == ciP[c]
      units == SubSeq(ci.req.body, ci.received + 1, ci.received + n)
      payload == IF ci.payloadSize # 0 THEN ci.payload
                 ELSE IF contentLength(ci) > STATIC_BUFFER_SIZE THEN "malloc" ELSE "static_buffer"
  IN  IF contentLength(ci) > PAYLOAD_MAX_SIZE
      THEN /\ ciP' = [ciP EXCEPT ![c].received = @ + n]
           /\ UNCHANGED <<static_buffer, heap>>
      ELSE /\ ciP' = [ciP EXCEPT ![c].received = @ + n, ![c].payload = payload, ![c].payloadSize = @ + n]
           /\ IF payload = "malloc"
              THEN /\ heap' = [heap EXCEPT ![c] = Copy(IF ci.payloadSize = 0 THEN malloc(contentLength(ci) + 1) ELSE @,
                                                       ci.payloadSize, units)]
                   /\ UNCHANGED static_buffer
              ELSE /\ static_buffer' = [static_buffer EXCEPT ![thread[c]] = Copy(@, ci.payloadSize, units)]
                   /\ UNCHANGED heap

DataGathering(c) ==
  /\ ciP[c] # NoCi
  /\ \E n \in 1 .. contentLength(ciP[c]) - ciP[c].received : DataCall(c, n)
  /\ UNCHANGED <<queue, thread>>

-----------------------------------------------------------------------------
\* Last call: the checks, each of which may queue a reply and goes on
urlCheck(ci) == IF ci.req.charsOk THEN ci ELSE restReply(Answer(render(Status(ci, "SccBadRequest"))))

\* Mutant: the answer is queued, but not kept in the ConnectionInfo.
ServicePathGoesOn(ci) == IF ci.req.servicePath = "bad" THEN restReply(render(ci)) ELSE ci

servicePathSplit(ci) == IF ci.req.servicePath = "bad" THEN restReply(Answer(render(ci))) ELSE ci

ContentTypeOk(ci) ==
  \/ contentLength(ci) = 0
  \/ ci.req.contentType = "application/json"
  \/ ci.req.contentType = "text/plain" /\ ci.apiVersion = "v2"

JsonAccepted == {"*/*", "application/*", "application/json", "*/json"}

\* NOMIMETYPE is for NGSIv1 only: wantedOutputSupported() takes text for granted.
wantedOutputSupported(ci) ==
  IF ci.req.accept = {} \/ ci.req.accept \cap JsonAccepted # {} THEN "JSON"
  ELSE IF ci.apiVersion = "v2" THEN "TEXT"
  ELSE "NOMIMETYPE"

mimeTypeParse(contentType) == IF contentType = "text/plain" THEN "TEXT" ELSE "JSON"

contentTypeCheck(ci) == Status(Answer(restErrorReplyGet(ci)), "SccUnsupportedMediaType")

outMimeTypeCheck(ci) == Status(Answer(restErrorReplyGet(ci)), "SccNotAcceptable")

mediaTypeChecks(ci) ==
  IF ~ContentTypeOk(ci) THEN restReply(contentTypeCheck(ci))
  ELSE IF wantedOutputSupported(ci) = "NOMIMETYPE" THEN restReply(outMimeTypeCheck(ci))
  ELSE [ci EXCEPT !.inMimeType = mimeTypeParse(ci.req.contentType)]

sizeCheck(ci) ==
  IF contentLength(ci) > PAYLOAD_MAX_SIZE
  THEN Status(Answer(restErrorReplyGet(ci)), "SccRequestEntityTooLarge")
  ELSE ci

Begins(url, compV) == Len(url) >= Len(compV) /\ \A i \in DOMAIN compV : url[i] = compV[i]

\* The requests of verb POST, PUT and PATCH that may come without a payload
PayloadOptional(url) == Len(url) > 1 /\ (Begins(url, <<"log">>) \/ Begins(url, <<"admin", "log">>))

PayloadMissing(ci) ==
  /\ ci.req.method \in {"POST", "PUT", "PATCH"}
  /\ contentLength(ci) = 0
  /\ ~PayloadOptional(ci.req.url)

-----------------------------------------------------------------------------
\* restService()
Matches(service, method, url) ==
  /\ IF service.compV = <<>> THEN Len(url) <= 6 ELSE Len(service.compV) = Len(url)
  /\ service.verb \in {method, "*"}
  /\ \A i \in DOMAIN service.compV : service.compV[i] \in {"*", url[i]}

\* The index of the first service that matches; 0 if there is none
serviceIx(method, url) ==
  LET found == {ix \in DOMAIN restServiceV : Matches(restServiceV[ix], method, url)}
  IN  IF found = {} THEN 0 ELSE Min(found)

\* The parsers: whether they take the text, and the status code if they do not.
jsonTreat(ci, request) ==
  [ok |-> <<request, ci.req.method>> \in jsonRequest /\ ci.req.kind = "good", ci |-> restErrorReplyGet(ci)]

\* SubscribeContextRequest::check() renders an NGSIv1 response.
jsonRequestTreat(ci, request) ==
  [ok |-> request \in JsonRequestTypes /\ ci.req.kind = "good",
   ci |-> IF request \notin JsonRequestTypes THEN Status(ci, "SccNotImplemented")
          ELSE IF request = "SubscriptionsRequest" /\ ci.req.kind = "invalid" THEN ci
          ELSE render(ci)]

textRequestTreat(ci, request) ==
  [ok |-> request \in TextRequestTypes /\ ci.req.kind = "good",
   ci |-> IF request \in TextRequestTypes THEN render(ci) ELSE Status(ci, "SccUnsupportedMediaType")]

payloadParse(ci, request) ==
  CASE ci.inMimeType = "TEXT" -> textRequestTreat(ci, request)
    [] ci.inMimeType = "JSON" /\ ci.req.url[1] = "v2" -> jsonRequestTreat(ci, request)
    [] OTHER -> jsonTreat(ci, request)

\* tenantCheck() failed
TenantRefused(ci) == IF ci.apiVersion # "v1" THEN Status(render(ci), "SccBadRequest") ELSE render(ci)

\* The routines that the badVerb services stand for, and the bad requests;
\* every other routine replies as it likes.
Treat(ci, treat) ==
  CASE treat \in DOMAIN Allow -> Status([ci EXCEPT !.allow = Allow[treat]], "SccBadVerb")
    [] treat \in {"badRequest", "badNgsi9Request", "badNgsi10Request"} -> restErrorReplyGet(ci)
    [] OTHER -> Status([ci EXCEPT !.treat = treat], "routine")

Parse(ci, service, text) ==
  IF text = <<>> \/ ci.payloadSize = 0 \/ service.verb = "*"
  THEN [ok |-> TRUE, ci |-> ci]
  ELSE LET parse == payloadParse(ci, service.request)
       IN  [parse EXCEPT !.ci = IF parse.ok THEN [ci EXCEPT !.parsed = text] ELSE restReply(@)]

restService(ci, text) ==
  LET ix == serviceIx(ci.req.method, ci.req.url)
      parse == Parse(Status(ci, "SccOk"), restServiceV[ix], text)
  IN  IF ix = 0 THEN restReply(restErrorReplyGet(ci))
      ELSE IF ~parse.ok THEN restReply(parse.ci)
      ELSE IF ci.req.tenant = "bad" THEN restReply(TenantRefused(parse.ci))
      ELSE restReply(Treat(parse.ci, restServiceV[ix].treat))

LastCall(ci, text) ==
  LET checked == mediaTypeChecks(servicePathSplit(urlCheck(ci)))
      sized == sizeCheck(checked)
  IN  IF checked.httpStatusCode # "SccOk" THEN restReply(checked)
      ELSE IF PayloadMissing(sized) THEN restReply(Status(restErrorReplyGet(sized), "SccLengthRequired"))
      ELSE IF sized.answer THEN restReply(sized)
      ELSE restService(sized, text)

Serve(c) ==
  /\ ciP[c] # NoCi
  /\ ciP[c].received = contentLength(ciP[c])
  /\ ciP[c].reply.status = "none"
  /\ ciP' = [ciP EXCEPT ![c] = LastCall(@, IF @.payload = "NULL" THEN <<>> ELSE Text(Buffer(c)))]
  /\ UNCHANGED <<queue, thread, static_buffer, heap>>

\* requestCompleted(): static_buffer is the thread's own.
requestCompleted(c) ==
  /\ ciP' = [ciP EXCEPT ![c] = NoCi]
  /\ heap' = [heap EXCEPT ![c] = IF ciP[c].payload = "malloc" THEN <<>> ELSE @]
  /\ UNCHANGED <<thread, static_buffer>>

Completed(c) ==
  /\ ciP[c] # NoCi
  /\ ciP[c].reply.status # "none"
  /\ requestCompleted(c)
  /\ UNCHANGED queue

\* The client closes the connection before it has its reply.
ClientGone(c) ==
  /\ ciP[c] # NoCi
  /\ ciP[c].reply.status = "none"
  /\ requestCompleted(c)
  /\ queue' = [queue EXCEPT ![c] = <<>>]

-----------------------------------------------------------------------------
Init ==
  /\ queue \in Workloads
  /\ thread \in [Connections -> Threads]
  /\ ciP = [c \in Connections |-> NoCi]
  /\ static_buffer = [t \in Threads |-> [i \in 1 .. STATIC_BUFFER_SIZE + 1 |-> Terminator]]
  /\ heap = [c \in Connections |-> <<>>]

Next ==
  \E c \in Connections : FirstCall(c) \/ DataGathering(c) \/ Serve(c) \/ Completed(c) \/ ClientGone(c)

Spec == Init /\ [][Next]_vars

-----------------------------------------------------------------------------
TypeOK ==
  /\ thread \in [Connections -> Threads]
  /\ \A c \in Connections :
       \/ ciP[c] = NoCi
       \/ /\ ciP[c].payload \in {"NULL", "static_buffer", "malloc"}
          /\ ciP[c].payloadSize \in 0 .. PAYLOAD_MAX_SIZE
  /\ \A t \in Threads : Len(static_buffer[t]) = STATIC_BUFFER_SIZE + 1

Served(ci) == ci.treat # "none"
Answered(c) == ciP[c] # NoCi /\ ciP[c].reply.status # "none"

\* A routine works on the body that its own client sent, whatever arrives
\* meanwhile for other connections, whatever an earlier and longer body left in
\* the buffer, and however the body is cut into pieces: for a body on the heap
\* always, and for one in static_buffer when no other connection is served by
\* the thread (connectionTreat() gathers it in that thread variable).  And a
\* buffer of the heap is a request's for as long as the request lasts, whether it
\* is answered or its client goes away.
PayloadIntact ==
  \A c \in Connections :
    /\ (/\ Answered(c)
        /\ ciP[c].parsed # <<>>
        /\ ciP[c].payload = "malloc" \/ \A d \in Connections \ {c} : thread[d] # thread[c]) =>
         ciP[c].parsed = ciP[c].req.body
    /\ (heap[c] # <<>>) <=> (ciP[c] # NoCi /\ ciP[c].payload = "malloc")

WellFormed(req) ==
  /\ req.charsOk /\ "bad" \notin {req.params, req.servicePath, req.tenant}
  /\ Len(req.body) <= PAYLOAD_MAX_SIZE
  /\ req.accept = {} \/ req.accept \cap JsonAccepted # {}
  /\ IF req.method \in {"POST", "PUT", "PATCH"} /\ ~PayloadOptional(req.url)
     THEN req.body # <<>> /\ req.contentType = "application/json" /\ req.kind = "good"
     ELSE req.body = <<>>

\* The routines that restServiceV lists for a method at a URL
Routines(method, url) ==
  {s.treat : s \in {s \in {restServiceV[ix] : ix \in DOMAIN restServiceV} : s.verb = method /\ Matches(s, method, url)}}

\* The trace requests below /v1/admin, whose PUT is refused without a payload
\* (their URL does not begin with /log/) and with one (no parser is for them);
\* and an entity of a type named "attributes", whose URL is first matched by the
\* value instances of an entity named "type", which have no POST.
Unreachable(method, url) ==
  \/ method = "PUT" /\ Len(url) = 5 /\ Begins(url, <<"v1", "admin", "log">>)
  \/ method = "POST" /\ Len(url) = 6 /\ Begins(url, <<"v1", "contextEntities", "type", "attributes">>)

\* Two entries of the vector whose URLs have one in common, and its components
Overlap(p, q) == Len(p) = Len(q) /\ \A i \in DOMAIN p : p[i] = q[i] \/ "*" \in {p[i], q[i]}
Common(p, q) == [i \in DOMAIN p |-> IF p[i] = "*" THEN q[i] ELSE p[i]]

\* What the entries of the service vector have in common: the services of all
\* verbs refuse, the others do not; and what a verb may bring has a parser.
ASSUME EntriesAssumption ==
  /\ DOMAIN restServiceV \subseteq Nat \ {0}
  /\ \A treat \in DOMAIN Allow : Allow[treat] \subseteq Verbs
  /\ \A ix \in DOMAIN restServiceV :
       LET service == restServiceV[ix]
       IN  /\ service.treat # "none" /\ service.compV \in Seq(STRING)
           /\ service.verb \in Verbs \cup {"*"}
           /\ service.verb = "*" <=> service.treat \in DOMAIN Allow \cup {"badRequest", "badNgsi9Request", "badNgsi10Request"}
           /\ service.verb # "*" => service.compV # <<>> /\ service.compV[1] # "*"
           /\ service.verb \in {"POST", "PUT", "PATCH"} =>
                \/ IF service.compV[1] = "v2" THEN service.request \in JsonRequestTypes
                   ELSE <<service.request, service.verb>> \in jsonRequest
                \/ PayloadOptional(service.compV)
                \/ Unreachable(service.verb, service.compV)
           /\ service.request = "SubscriptionsRequest" => service.compV = <<"v2", "subscriptions">>

\* A refusal of the vector hides no later service, except one, unless an earlier
\* service has its verb; and the verbs that it announces are those of the earlier
\* services.
ASSUME OrderAssumption ==
  \A jx \in DOMAIN restServiceV :
    LET refusal == restServiceV[jx]
        verbs == IF refusal.treat \in DOMAIN Allow THEN Allow[refusal.treat] ELSE {}
    IN  refusal.verb = "*" =>
          /\ \A ix \in DOMAIN restServiceV :
               LET service == restServiceV[ix]
               IN  service.verb # "*" =>
                     /\ jx < ix => refusal.compV # <<>>
                     /\ jx < ix /\ Overlap(refusal.compV, service.compV) =>
                          service.verb \in verbs \/ Unreachable(service.verb, Common(refusal.compV, service.compV))
                     /\ ix < jx /\ Overlap(refusal.compV, service.compV) /\ refusal.treat \in DOMAIN Allow =>
                          service.verb \in verbs
          /\ \A verb \in verbs :
               \E ix \in DOMAIN restServiceV :
                 ix < jx /\ restServiceV[ix].verb = verb /\ restServiceV[ix].compV = refusal.compV
          /\ refusal.compV = <<>> => refusal.treat \notin DOMAIN Allow

\* A request of which every check and the parser approve reaches the routine
\* that the service vector lists for its verb and URL, so the vector, the
\* parsers' tables and the rule on missing payloads agree; one that a check
\* refuses reaches no routine, although connectionTreat() goes on with the
\* other checks after the first that fails.
ServedIfWellFormed ==
  \A c \in Connections : Answered(c) =>
    LET req == ciP[c].req
    IN  /\ Served(ciP[c]) => ciP[c].treat \in Routines(req.method, req.url)
        /\ WellFormed(req) /\ Routines(req.method, req.url) # {} /\ ~Unreachable(req.method, req.url) => Served(ciP[c])
        /\ Served(ciP[c]) =>
             /\ req.charsOk /\ "bad" \notin {req.params, req.servicePath, req.tenant}
             /\ Len(req.body) <= PAYLOAD_MAX_SIZE
             /\ req.body # <<>> => req.kind = "good"

\* Refusals fit the request.  An NGSIv2 request that reaches no routine is
\* answered with an error code, not with 200 OK: the first reply is the one sent,
\* and it is queued with the status code that render() and restErrorReplyGet()
\* have left by then.  (Except a subscription that only
\* SubscribeContextRequest::check() refuses.)  The Allow header of a 405 lists the
\* verbs that would have found a routine at that URL, so that the badVerb routine
\* of a service fits the service's other entries, and those of earlier services
\* whose URLs overlap with it.
RefusalsFit ==
  \A c \in Connections : Answered(c) =>
    /\ ciP[c].apiVersion = "v2" /\ ~Served(ciP[c]) =>
         \/ ciP[c].reply.status \notin {"SccOk", "routine"}
         \/ ciP[c].req.url = <<"v2", "subscriptions">> /\ ciP[c].req.kind = "invalid"
    /\ ciP[c].reply.status = "SccBadVerb" =>
         ciP[c].reply.allow = {v \in Verbs : restServiceV[serviceIx(v, ciP[c].req.url)].verb = v}

=============================================================================
