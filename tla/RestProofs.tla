----------------------------- MODULE RestProofs -----------------------------
(***************************************************************************)
(* Proofs about Rest, for any connections, threads, URLs and bodies: a     *)
(* routine gets the body of its own client, and a request reaches the      *)
(* routine that the service vector has for it if and only if no check      *)
(* objects.                                                                *)
(***************************************************************************)
EXTENDS Rest, SequenceTheorems, WellFoundedInduction, TLAPS

CiFields ==
  {"req", "apiVersion", "httpStatusCode", "answer", "payload", "payloadSize", "inMimeType", "received",
   "reply", "allow", "parsed", "treat"}

IsCi(ci) == ci = [f \in CiFields |-> ci[f]]

\* What a step of the last call leaves alone in the ConnectionInfo.
Changes(ci, new, fields) == IsCi(new) /\ \A f \in CiFields \ fields : new[f] = ci[f]

\* The fields that the checks set, and those that restService() sets as well.
CheckFields == {"httpStatusCode", "answer", "reply", "inMimeType"}
ServiceFields == CheckFields \cup {"allow", "parsed", "treat"}

Codes ==
  {"SccOk", "SccBadRequest", "SccUnsupportedMediaType", "SccNotAcceptable", "SccRequestEntityTooLarge"}

\* The codes of a payload that is not understood.
ParseCodes == {"SccOk", "SccBadRequest", "SccNotImplemented", "SccUnsupportedMediaType"}

\* SubscribeContextRequest::check() refuses.
SubscriptionRefused(ci, request) == request = "SubscriptionsRequest" /\ ci.req.kind = "invalid"

\* What the checks have made of the ConnectionInfo they began with: a reply is
\* queued only with answer set, and none of NGSIv2 says 200 OK.
Checked(ci, new) ==
  /\ Changes(ci, new, CheckFields)
  /\ new.httpStatusCode \in Codes /\ new.answer \in BOOLEAN
  /\ new.reply.status \in Codes \cup {"none"}
  /\ new.apiVersion = "v2" => new.reply.status # "SccOk"
  /\ new.reply.status # "none" => new.answer = TRUE
  /\ new.answer = TRUE => new.httpStatusCode # "SccOk" \/ new.reply.status # "none"
  /\ ci.answer = TRUE => new.answer = TRUE

\* The provers that try a step, in this order.
USE ZenonT(6), SMTT(15)

-----------------------------------------------------------------------------
(* The checks, one after the other.                                        *)

\* Changing one field leaves the others alone.
LEMMA OneField ==
  ASSUME NEW ci, IsCi(ci), NEW f \in CiFields, NEW value
  PROVE  /\ Changes(ci, [ci EXCEPT ![f] = value], {f})
         /\ [ci EXCEPT ![f] = value][f] = value
BY DEF IsCi, Changes

\* Two changes, one after the other.
LEMMA TwoChanges ==
  ASSUME NEW a, NEW b, NEW c, NEW S, NEW T, NEW U,
         Changes(a, b, S), Changes(b, c, T), S \subseteq U, T \subseteq U
  PROVE  Changes(a, c, U)
BY DEF Changes

\* A status code is set.
LEMMA StatusSet ==
  ASSUME NEW ci, IsCi(ci), NEW code
  PROVE  /\ Changes(ci, Status(ci, code), {"httpStatusCode"})
         /\ Status(ci, code).httpStatusCode = code
         /\ IsCi(Status(ci, code))
<1>1. Changes(ci, Status(ci, code), {"httpStatusCode"}) /\ Status(ci, code).httpStatusCode = code
  BY OneField DEF Status, CiFields
<1> QED BY <1>1 DEF Changes

\* What the operations on a ConnectionInfo change.
LEMMA Operations ==
  ASSUME NEW ci, IsCi(ci)
  PROVE  /\ Changes(ci, ci, {})
         /\ Changes(ci, Answer(ci), {"answer"}) /\ Answer(ci).answer = TRUE
         /\ Changes(ci, render(ci), {"httpStatusCode"})
         /\ render(ci).httpStatusCode =
              IF ci.apiVersion = "v2" /\ ci.httpStatusCode = "SccOk" THEN "SccBadRequest" ELSE ci.httpStatusCode
         /\ Changes(ci, restReply(ci), {"reply"})
         /\ ci.reply.status # "none" => restReply(ci) = ci
         /\ ci.reply.status = "none" => restReply(ci).reply = [status |-> ci.httpStatusCode, allow |-> ci.allow]
<1>1. Changes(ci, ci, {})
  BY DEF Changes
<1>2. Changes(ci, Answer(ci), {"answer"}) /\ Answer(ci).answer = TRUE
  BY OneField DEF Answer, CiFields
<1>4. /\ Changes(ci, render(ci), {"httpStatusCode"})
      /\ render(ci).httpStatusCode =
           IF ci.apiVersion = "v2" /\ ci.httpStatusCode = "SccOk" THEN "SccBadRequest" ELSE ci.httpStatusCode
  <2> DEFINE code == IF ci.apiVersion = "v2" /\ ci.httpStatusCode = "SccOk" THEN "SccBadRequest" ELSE ci.httpStatusCode
  <2>1. render(ci) = [ci EXCEPT !.httpStatusCode = code]
    BY DEF render
  <2> HIDE DEF code
  <2>2. Changes(ci, render(ci), {"httpStatusCode"}) /\ render(ci).httpStatusCode = code
    BY <2>1, OneField DEF CiFields
  <2> QED BY <2>2 DEF code
<1>5. /\ Changes(ci, restReply(ci), {"reply"})
      /\ ci.reply.status # "none" => restReply(ci) = ci
      /\ ci.reply.status = "none" => restReply(ci).reply = [status |-> ci.httpStatusCode, allow |-> ci.allow]
  <2>1. CASE ci.reply.status # "none"
    BY <2>1, <1>1 DEF restReply, Changes
  <2>2. CASE ci.reply.status = "none"
    <3>1. restReply(ci) = [ci EXCEPT !.reply = [status |-> ci.httpStatusCode, allow |-> ci.allow]]
      BY <2>2 DEF restReply
    <3> QED BY <2>2, <3>1, OneField DEF CiFields
  <2> QED BY <2>1, <2>2
<1> QED BY <1>1, <1>2, <1>4, <1>5

\* restErrorReplyGet() changes the status code only.
LEMMA ErrorReply ==
  ASSUME NEW ci, IsCi(ci)
  PROVE  /\ Changes(ci, restErrorReplyGet(ci), {"httpStatusCode"})
         /\ restErrorReplyGet(ci).httpStatusCode = IF ci.apiVersion = "v2" THEN "SccBadRequest" ELSE "SccOk"
<1>1. PICK x : x = Status(ci, "SccOk")
  OBVIOUS
<1>2. IsCi(x) /\ Changes(ci, x, {"httpStatusCode"}) /\ x.httpStatusCode = "SccOk"
  BY <1>1, StatusSet
<1>3. x.apiVersion = ci.apiVersion
  BY <1>2 DEF Changes, CiFields
<1>4. restErrorReplyGet(ci) = render(x)
  BY <1>1 DEF restErrorReplyGet, Status
<1>5. Changes(x, render(x), {"httpStatusCode"})
  BY <1>2, Operations
<1>6. render(x).httpStatusCode = IF ci.apiVersion = "v2" THEN "SccBadRequest" ELSE "SccOk"
  BY <1>2, <1>3, Operations
<1>7. Changes(ci, render(x), {"httpStatusCode"})
  BY <1>2, <1>5, TwoChanges
<1> QED BY <1>4, <1>6, <1>7

\* A check that objects, sets answer and a code, and queues a reply.
LEMMA Objection ==
  ASSUME NEW ci, NEW old, Checked(ci, old), NEW new,
         Changes(old, new, {"httpStatusCode", "answer"}),
         new.answer = TRUE, new.httpStatusCode \in Codes,
         old.apiVersion = "v2" => new.httpStatusCode # "SccOk"
  PROVE  Checked(ci, restReply(new)) /\ restReply(new).answer = TRUE
<1>1. IsCi(new) /\ new.reply = old.reply /\ new.apiVersion = old.apiVersion /\ new.allow = old.allow
  BY DEF Changes, CiFields
<1>2. Changes(new, restReply(new), {"reply"})
  BY <1>1, Operations
<1>3. /\ restReply(new).answer = TRUE
      /\ restReply(new).apiVersion = old.apiVersion
      /\ restReply(new).httpStatusCode = new.httpStatusCode
  BY <1>1, <1>2 DEF Changes, CiFields
<1>4. Changes(ci, restReply(new), CheckFields)
  <2>1. Changes(ci, new, CheckFields)
    BY TwoChanges DEF Checked, CheckFields
  <2> QED BY <2>1, <1>2, TwoChanges DEF CheckFields
<1>5. /\ restReply(new).reply.status \in Codes
      /\ old.apiVersion = "v2" => restReply(new).reply.status # "SccOk"
  <2>1. CASE old.reply.status = "none"
    <3>1. restReply(new).reply = [status |-> new.httpStatusCode, allow |-> new.allow]
      BY <1>1, <2>1, Operations
    <3>2. restReply(new).reply.status = new.httpStatusCode
      BY <3>1
    <3> QED BY <3>2
  <2>2. CASE old.reply.status # "none"
    <3>1. restReply(new).reply = old.reply
      BY <1>1, <2>2, Operations
    <3> QED BY <2>2, <3>1 DEF Checked
  <2> QED BY <2>1, <2>2
<1>6. "none" \notin Codes
  BY DEF Codes
<1> QED BY <1>3, <1>4, <1>5, <1>6 DEF Checked

\* An error is rendered and answer set.
LEMMA Rendered ==
  ASSUME NEW ci, IsCi(ci)
  PROVE  /\ Changes(ci, Answer(render(ci)), {"httpStatusCode", "answer"})
         /\ Answer(render(ci)).answer = TRUE
         /\ Answer(render(ci)).httpStatusCode = render(ci).httpStatusCode
<1>1. PICK x : x = render(ci)
  OBVIOUS
<1>2. Changes(ci, x, {"httpStatusCode"})
  BY <1>1, Operations
<1>3. IsCi(x)
  BY <1>2 DEF Changes
<1>4. Changes(x, Answer(x), {"answer"}) /\ Answer(x).answer = TRUE
  BY <1>3, Operations
<1>5. Changes(ci, Answer(x), {"httpStatusCode", "answer"})
  BY <1>2, <1>4, TwoChanges
<1>6. Answer(x).httpStatusCode = x.httpStatusCode
  BY <1>4 DEF Changes, CiFields
<1> QED BY <1>1, <1>4, <1>5, <1>6

\* The same with a code that was set before.
LEMMA RenderedWithCode ==
  ASSUME NEW ci, IsCi(ci), NEW code, code # "SccOk"
  PROVE  /\ Changes(ci, Answer(render(Status(ci, code))), {"httpStatusCode", "answer"})
         /\ Answer(render(Status(ci, code))).answer = TRUE
         /\ Answer(render(Status(ci, code))).httpStatusCode = code
<1>1. PICK x : x = Status(ci, code)
  OBVIOUS
<1>2. Changes(ci, x, {"httpStatusCode"}) /\ IsCi(x) /\ x.httpStatusCode = code
  BY <1>1, StatusSet
<1>3. /\ Changes(x, Answer(render(x)), {"httpStatusCode", "answer"})
      /\ Answer(render(x)).answer = TRUE
      /\ Answer(render(x)).httpStatusCode = render(x).httpStatusCode
  BY <1>2, Rendered
<1>4. Changes(ci, Answer(render(x)), {"httpStatusCode", "answer"})
  BY <1>2, <1>3, TwoChanges
<1>5. render(x).httpStatusCode = code
  BY <1>2, Operations
<1> QED BY <1>1, <1>3, <1>4, <1>5

\* An error is rendered, answer set, and the code after it.
LEMMA CodeAfterError ==
  ASSUME NEW ci, IsCi(ci), NEW code
  PROVE  /\ Changes(ci, Status(Answer(restErrorReplyGet(ci)), code), {"httpStatusCode", "answer"})
         /\ Status(Answer(restErrorReplyGet(ci)), code).answer = TRUE
         /\ Status(Answer(restErrorReplyGet(ci)), code).httpStatusCode = code
<1>1. PICK x : x = restErrorReplyGet(ci)
  OBVIOUS
<1>2. Changes(ci, x, {"httpStatusCode"})
  BY <1>1, ErrorReply
<1>3. IsCi(x)
  BY <1>2 DEF Changes
<1>4. PICK y : y = Answer(x)
  OBVIOUS
<1>5. Changes(x, y, {"answer"}) /\ y.answer = TRUE
  BY <1>3, <1>4, Operations
<1>6. IsCi(y)
  BY <1>5 DEF Changes
<1>7. Changes(y, Status(y, code), {"httpStatusCode"}) /\ Status(y, code).httpStatusCode = code
  BY <1>6, StatusSet
<1>8. Status(y, code).answer = TRUE
  BY <1>5, <1>7 DEF Changes, CiFields
<1>9. Changes(ci, y, {"httpStatusCode", "answer"})
  BY <1>2, <1>5, TwoChanges
<1>10. Changes(ci, Status(y, code), {"httpStatusCode", "answer"})
  BY <1>7, <1>9, TwoChanges
<1> QED BY <1>1, <1>4, <1>7, <1>8, <1>10

\* The checks of the URL and of the service path, one after the other.
LEMMA PathChecks ==
  ASSUME NEW ci, NEW old, Checked(ci, old)
  PROVE  /\ Checked(ci, urlCheck(old)) /\ Checked(ci, servicePathSplit(old))
         /\ old.answer = TRUE => urlCheck(old).answer = TRUE /\ servicePathSplit(old).answer = TRUE
         /\ ci.req.charsOk \/ urlCheck(old).answer = TRUE
         /\ ci.req.servicePath = "bad" => servicePathSplit(old).answer = TRUE
<1>1. IsCi(old) /\ old.req = ci.req /\ old.httpStatusCode \in Codes
  BY DEF Checked, Changes, CheckFields, CiFields
<1>2. /\ Checked(ci, urlCheck(old))
      /\ old.answer = TRUE => urlCheck(old).answer = TRUE
      /\ ci.req.charsOk \/ urlCheck(old).answer = TRUE
  <2>1. CASE ci.req.charsOk
    BY <1>1, <2>1 DEF urlCheck
  <2>2. CASE ~ ci.req.charsOk
    <3>1. PICK new : new = Answer(render(Status(old, "SccBadRequest")))
      OBVIOUS
    <3>2. /\ Changes(old, new, {"httpStatusCode", "answer"}) /\ new.answer = TRUE
          /\ new.httpStatusCode = "SccBadRequest"
      BY <1>1, <3>1, RenderedWithCode
    <3>3. Checked(ci, restReply(new)) /\ restReply(new).answer = TRUE
      BY <3>2, Objection DEF Codes
    <3> QED BY <1>1, <2>2, <3>1, <3>3 DEF urlCheck
  <2> QED BY <2>1, <2>2
<1>3. /\ Checked(ci, servicePathSplit(old))
      /\ old.answer = TRUE => servicePathSplit(old).answer = TRUE
      /\ ci.req.servicePath = "bad" => servicePathSplit(old).answer = TRUE
  <2>1. CASE ci.req.servicePath # "bad"
    BY <1>1, <2>1 DEF servicePathSplit
  <2>2. CASE ci.req.servicePath = "bad"
    <3>1. PICK new : new = Answer(render(old))
      OBVIOUS
    <3>2. /\ Changes(old, new, {"httpStatusCode", "answer"}) /\ new.answer = TRUE
          /\ new.httpStatusCode = render(old).httpStatusCode
      BY <1>1, <3>1, Rendered
    <3>3. new.httpStatusCode \in Codes /\ (old.apiVersion = "v2" => new.httpStatusCode # "SccOk")
      BY <1>1, <3>2, Operations DEF Codes
    <3>4. Checked(ci, restReply(new)) /\ restReply(new).answer = TRUE
      BY <3>2, <3>3, Objection
    <3> QED BY <1>1, <2>2, <3>1, <3>4 DEF servicePathSplit
  <2> QED BY <2>1, <2>2
<1> QED BY <1>2, <1>3

\* The checks of the media types, and the one of the size.
LEMMA PayloadChecks ==
  ASSUME NEW ci, NEW old, Checked(ci, old)
  PROVE  /\ Checked(ci, mediaTypeChecks(old)) /\ Checked(ci, sizeCheck(old))
         /\ old.answer = TRUE => mediaTypeChecks(old).answer = TRUE /\ sizeCheck(old).answer = TRUE
         /\ contentLength(ci) > PAYLOAD_MAX_SIZE => sizeCheck(old).answer = TRUE
<1>1. IsCi(old) /\ old.req = ci.req /\ old.apiVersion = ci.apiVersion
  BY DEF Checked, Changes, CheckFields, CiFields
<1>2. Checked(ci, mediaTypeChecks(old)) /\ (old.answer = TRUE => mediaTypeChecks(old).answer = TRUE)
  <2>1. ASSUME NEW code \in Codes \ {"SccOk"}, mediaTypeChecks(old) = restReply(Status(Answer(restErrorReplyGet(old)), code))
        PROVE  Checked(ci, mediaTypeChecks(old)) /\ mediaTypeChecks(old).answer = TRUE
    <3>1. PICK new : new = Status(Answer(restErrorReplyGet(old)), code)
      OBVIOUS
    <3>2. /\ Changes(old, new, {"httpStatusCode", "answer"}) /\ new.answer = TRUE
          /\ new.httpStatusCode = code
      BY <1>1, <3>1, CodeAfterError
    <3>3. Checked(ci, restReply(new)) /\ restReply(new).answer = TRUE
      BY <3>2, Objection
    <3> QED BY <2>1, <3>1, <3>3
  <2>2. CASE ~ ContentTypeOk(old)
    <3>1. mediaTypeChecks(old) = restReply(Status(Answer(restErrorReplyGet(old)), "SccUnsupportedMediaType"))
      BY <2>2 DEF mediaTypeChecks, contentTypeCheck
    <3>2. "SccUnsupportedMediaType" \in Codes \ {"SccOk"}
      BY DEF Codes
    <3> QED BY <2>1, <3>1, <3>2
  <2>3. CASE ContentTypeOk(old) /\ wantedOutputSupported(old) = "NOMIMETYPE"
    <3>1. mediaTypeChecks(old) = restReply(Status(Answer(restErrorReplyGet(old)), "SccNotAcceptable"))
      BY <2>3 DEF mediaTypeChecks, outMimeTypeCheck
    <3>2. "SccNotAcceptable" \in Codes \ {"SccOk"}
      BY DEF Codes
    <3> QED BY <2>1, <3>1, <3>2
  <2>4. CASE ContentTypeOk(old) /\ wantedOutputSupported(old) # "NOMIMETYPE"
    <3>1. PICK new : new = mediaTypeChecks(old)
      OBVIOUS
    <3>2. Changes(old, new, {"inMimeType"})
      BY <1>1, <2>4, <3>1, OneField DEF mediaTypeChecks, CiFields
    <3>3. /\ new.answer = old.answer /\ new.reply = old.reply /\ new.httpStatusCode = old.httpStatusCode
          /\ new.apiVersion = old.apiVersion
      BY <3>2 DEF Changes, CiFields
    <3>4. Changes(ci, new, CheckFields)
      BY <3>2, TwoChanges DEF Checked, CheckFields
    <3> QED BY <3>1, <3>3, <3>4 DEF Checked
  <2> QED BY <2>2, <2>3, <2>4, <2>1
<1>3. /\ Checked(ci, sizeCheck(old))
      /\ old.answer = TRUE => sizeCheck(old).answer = TRUE
      /\ contentLength(ci) > PAYLOAD_MAX_SIZE => sizeCheck(old).answer = TRUE
  <2>1. contentLength(old) = contentLength(ci)
    BY <1>1 DEF contentLength
  <2>2. CASE ~ (contentLength(ci) > PAYLOAD_MAX_SIZE)
    BY <2>1, <2>2 DEF sizeCheck
  <2>3. CASE contentLength(ci) > PAYLOAD_MAX_SIZE
    <3>1. PICK new : new = Status(Answer(restErrorReplyGet(old)), "SccRequestEntityTooLarge")
      OBVIOUS
    <3>2. /\ Changes(old, new, {"httpStatusCode", "answer"}) /\ new.answer = TRUE
          /\ new.httpStatusCode = "SccRequestEntityTooLarge"
      BY <1>1, <3>1, CodeAfterError
    <3>3. new.reply = old.reply /\ new.apiVersion = old.apiVersion
      BY <3>2 DEF Changes, CiFields
    <3>4. Changes(ci, new, CheckFields)
      BY <3>2, TwoChanges DEF Checked, CheckFields
    <3>5. Checked(ci, new)
      BY <3>2, <3>3, <3>4 DEF Checked, Codes
    <3> QED BY <2>1, <2>3, <3>1, <3>2, <3>5 DEF sizeCheck
  <2> QED BY <2>2, <2>3
<1> QED BY <1>2, <1>3

-----------------------------------------------------------------------------
(* The parsers and restService().                                          *)

\* The parsers take good payloads only, and change nothing but the code.
LEMMA PayloadParsed ==
  ASSUME NEW ci, IsCi(ci), ci.httpStatusCode = "SccOk", NEW request
  PROVE  \E ok \in BOOLEAN : \E new :
           /\ payloadParse(ci, request) = [ok |-> ok, ci |-> new]
           /\ ok => ci.req.kind = "good"
           /\ Changes(ci, new, {"httpStatusCode"}) /\ new.httpStatusCode \in ParseCodes
           /\ ci.apiVersion = "v2" => new.httpStatusCode # "SccOk" \/ SubscriptionRefused(ci, request)
<1>1. \A code : Changes(ci, Status(ci, code), {"httpStatusCode"}) /\ Status(ci, code).httpStatusCode = code
  BY StatusSet
<1>2. /\ Changes(ci, render(ci), {"httpStatusCode"}) /\ render(ci).httpStatusCode \in ParseCodes
      /\ ci.apiVersion = "v2" => render(ci).httpStatusCode # "SccOk"
  BY Operations DEF ParseCodes
<1>3. Changes(ci, ci, {"httpStatusCode"})
  BY DEF Changes
<1>4. CASE ci.inMimeType = "TEXT"
  <2>1. PICK ok : ok = (request \in TextRequestTypes /\ ci.req.kind = "good")
    OBVIOUS
  <2>2. PICK new : new = IF request \in TextRequestTypes THEN render(ci) ELSE Status(ci, "SccUnsupportedMediaType")
    OBVIOUS
  <2>3. payloadParse(ci, request) = [ok |-> ok, ci |-> new]
    BY <1>4, <2>1, <2>2 DEF payloadParse, textRequestTreat
  <2>4. /\ Changes(ci, new, {"httpStatusCode"}) /\ new.httpStatusCode \in ParseCodes
        /\ ci.apiVersion = "v2" => new.httpStatusCode # "SccOk"
    BY <1>1, <1>2, <2>2 DEF ParseCodes
  <2>5. ok \in BOOLEAN /\ (ok => ci.req.kind = "good")
    BY <2>1
  <2> QED BY <2>3, <2>4, <2>5
<1>5. CASE ci.inMimeType # "TEXT" /\ ci.inMimeType = "JSON" /\ ci.req.url[1] = "v2"
  <2>1. PICK ok : ok = (request \in JsonRequestTypes /\ ci.req.kind = "good")
    OBVIOUS
  <2>2. PICK new : new = IF request \notin JsonRequestTypes THEN Status(ci, "SccNotImplemented")
                         ELSE IF request = "SubscriptionsRequest" /\ ci.req.kind = "invalid" THEN ci
                         ELSE render(ci)
    OBVIOUS
  <2>3. payloadParse(ci, request) = [ok |-> ok, ci |-> new]
    BY <1>5, <2>1, <2>2 DEF payloadParse, jsonRequestTreat
  <2>4. /\ Changes(ci, new, {"httpStatusCode"}) /\ new.httpStatusCode \in ParseCodes
        /\ ci.apiVersion = "v2" => new.httpStatusCode # "SccOk" \/ SubscriptionRefused(ci, request)
    BY <1>1, <1>2, <1>3, <2>2 DEF ParseCodes, SubscriptionRefused
  <2>5. ok \in BOOLEAN /\ (ok => ci.req.kind = "good")
    BY <2>1
  <2> QED BY <2>3, <2>4, <2>5
<1>6. CASE ci.inMimeType # "TEXT" /\ ~ (ci.inMimeType = "JSON" /\ ci.req.url[1] = "v2")
  <2>1. PICK ok : ok = (<<request, ci.req.method>> \in jsonRequest /\ ci.req.kind = "good")
    OBVIOUS
  <2>2. PICK new : new = restErrorReplyGet(ci)
    OBVIOUS
  <2>3. payloadParse(ci, request) = [ok |-> ok, ci |-> new]
    BY <1>6, <2>1, <2>2 DEF payloadParse, jsonTreat
  <2>4. /\ Changes(ci, new, {"httpStatusCode"}) /\ new.httpStatusCode \in ParseCodes
        /\ ci.apiVersion = "v2" => new.httpStatusCode # "SccOk"
    BY ErrorReply, <2>2 DEF ParseCodes
  <2>5. ok \in BOOLEAN /\ (ok => ci.req.kind = "good")
    BY <2>1
  <2> QED BY <2>3, <2>4, <2>5
<1> QED BY <1>4, <1>5, <1>6

\* A payload is parsed, or there is nothing to parse, or the request is refused.
LEMMA Parsed ==
  ASSUME NEW ci, IsCi(ci), ci.httpStatusCode = "SccOk", ci.reply.status = "none", NEW service, NEW text
  PROVE  \E ok \in BOOLEAN : \E new :
           /\ Parse(ci, service, text) = [ok |-> ok, ci |-> new]
           /\ ok => /\ Changes(ci, new, {"parsed"}) /\ new.parsed \in {ci.parsed, text}
                    /\ text = <<>> \/ ci.payloadSize = 0 \/ service.verb = "*" \/ ci.req.kind = "good"
           /\ ~ ok => /\ Changes(ci, new, {"httpStatusCode", "reply"})
                      /\ new.reply.status \in ParseCodes
                      /\ ci.apiVersion = "v2" => new.reply.status # "SccOk" \/ SubscriptionRefused(ci, service.request)
<1>1. CASE text = <<>> \/ ci.payloadSize = 0 \/ service.verb = "*"
  <2>1. Parse(ci, service, text) = [ok |-> TRUE, ci |-> ci]
    BY <1>1 DEF Parse
  <2>2. Changes(ci, ci, {"parsed"})
    BY DEF Changes
  <2> QED BY <1>1, <2>1, <2>2
<1>2. CASE ~ (text = <<>> \/ ci.payloadSize = 0 \/ service.verb = "*")
  <2>0. PICK ok \in BOOLEAN : \E new :
          /\ payloadParse(ci, service.request) = [ok |-> ok, ci |-> new]
          /\ ok => ci.req.kind = "good"
          /\ Changes(ci, new, {"httpStatusCode"}) /\ new.httpStatusCode \in ParseCodes
          /\ ci.apiVersion = "v2" => new.httpStatusCode # "SccOk" \/ SubscriptionRefused(ci, service.request)
    BY PayloadParsed
  <2>1. PICK new :
          /\ payloadParse(ci, service.request) = [ok |-> ok, ci |-> new]
          /\ ok => ci.req.kind = "good"
          /\ Changes(ci, new, {"httpStatusCode"}) /\ new.httpStatusCode \in ParseCodes
          /\ ci.apiVersion = "v2" => new.httpStatusCode # "SccOk" \/ SubscriptionRefused(ci, service.request)
    BY <2>0
  <2>2. Parse(ci, service, text) = [ok |-> ok, ci |-> IF ok THEN [ci EXCEPT !.parsed = text] ELSE restReply(new)]
    BY <1>2, <2>1 DEF Parse
  <2>3. CASE ok
    <3>1. Changes(ci, [ci EXCEPT !.parsed = text], {"parsed"}) /\ [ci EXCEPT !.parsed = text].parsed = text
      BY OneField DEF CiFields
    <3>2. Parse(ci, service, text) = [ok |-> ok, ci |-> [ci EXCEPT !.parsed = text]]
      BY <2>2, <2>3
    <3> QED BY <2>1, <2>3, <3>1, <3>2
  <2>4. CASE ~ ok
    <3>1. IsCi(new) /\ new.reply = ci.reply
      BY <2>1 DEF Changes, CiFields
    <3>2. /\ Changes(new, restReply(new), {"reply"})
          /\ restReply(new).reply = [status |-> new.httpStatusCode, allow |-> new.allow]
      BY <3>1, Operations
    <3>3. restReply(new).reply.status = new.httpStatusCode
      BY <3>2
    <3>4. Changes(ci, restReply(new), {"httpStatusCode", "reply"})
      BY <2>1, <3>2, TwoChanges
    <3>5. Parse(ci, service, text) = [ok |-> ok, ci |-> restReply(new)]
      BY <2>2, <2>4
    <3> QED BY <2>1, <2>4, <3>3, <3>4, <3>5
  <2> QED BY <2>3, <2>4
<1> QED BY <1>1, <1>2

\* A badVerb routine, a routine for bad requests, or a routine that serves.
LEMMA Treated ==
  ASSUME NEW ci, IsCi(ci), ci.reply.status = "none", NEW treat
  PROVE  /\ Changes(ci, restReply(Treat(ci, treat)), {"httpStatusCode", "allow", "treat", "reply"})
         /\ treat \in DOMAIN Allow =>
              /\ restReply(Treat(ci, treat)).treat = ci.treat
              /\ restReply(Treat(ci, treat)).reply = [status |-> "SccBadVerb", allow |-> Allow[treat]]
         /\ treat \in {"badRequest", "badNgsi9Request", "badNgsi10Request"} =>
              /\ restReply(Treat(ci, treat)).treat = ci.treat
              /\ restReply(Treat(ci, treat)).reply.status = IF ci.apiVersion = "v2" THEN "SccBadRequest" ELSE "SccOk"
         /\ treat \notin DOMAIN Allow \cup {"badRequest", "badNgsi9Request", "badNgsi10Request"} =>
              /\ restReply(Treat(ci, treat)).treat = treat
              /\ restReply(Treat(ci, treat)).reply.status = "routine"
<1>1. PICK n : n = Treat(ci, treat)
  OBVIOUS
<1>2. SUFFICES ASSUME Changes(ci, n, {"httpStatusCode", "allow", "treat"})
                      => /\ Changes(ci, restReply(n), {"httpStatusCode", "allow", "treat", "reply"})
                         /\ restReply(n).treat = n.treat
                         /\ restReply(n).reply = [status |-> n.httpStatusCode, allow |-> n.allow]
                         /\ restReply(n).reply.status = n.httpStatusCode
               PROVE  /\ Changes(ci, n, {"httpStatusCode", "allow", "treat"})
                      /\ treat \in DOMAIN Allow =>
                           n.treat = ci.treat /\ n.httpStatusCode = "SccBadVerb" /\ n.allow = Allow[treat]
                      /\ treat \in {"badRequest", "badNgsi9Request", "badNgsi10Request"} =>
                           n.treat = ci.treat /\ n.httpStatusCode = IF ci.apiVersion = "v2" THEN "SccBadRequest" ELSE "SccOk"
                      /\ treat \notin DOMAIN Allow \cup {"badRequest", "badNgsi9Request", "badNgsi10Request"} =>
                           n.treat = treat /\ n.httpStatusCode = "routine"
  <2>1. ASSUME Changes(ci, n, {"httpStatusCode", "allow", "treat"})
        PROVE  /\ Changes(ci, restReply(n), {"httpStatusCode", "allow", "treat", "reply"})
               /\ restReply(n).treat = n.treat
               /\ restReply(n).reply = [status |-> n.httpStatusCode, allow |-> n.allow]
               /\ restReply(n).reply.status = n.httpStatusCode
    <3>1. IsCi(n) /\ n.reply = ci.reply
      BY <2>1 DEF Changes, CiFields
    <3>2. Changes(n, restReply(n), {"reply"}) /\ restReply(n).reply = [status |-> n.httpStatusCode, allow |-> n.allow]
      BY <3>1, Operations
    <3>3. restReply(n).treat = n.treat
      BY <3>2 DEF Changes, CiFields
    <3>4. Changes(ci, restReply(n), {"httpStatusCode", "allow", "treat", "reply"})
      BY <2>1, <3>2, TwoChanges
    <3> QED BY <3>2, <3>3, <3>4
  <2> QED BY <2>1, <1>1
<1>3. "badRequest" \notin DOMAIN Allow /\ "badNgsi9Request" \notin DOMAIN Allow /\ "badNgsi10Request" \notin DOMAIN Allow
  BY DEF Allow
<1>4. CASE treat \in DOMAIN Allow
  <2>1. PICK x : x = [ci EXCEPT !.allow = Allow[treat]]
    OBVIOUS
  <2>2. Changes(ci, x, {"allow"}) /\ x.allow = Allow[treat]
    BY <2>1, OneField DEF CiFields
  <2>3. n = Status(x, "SccBadVerb")
    BY <1>1, <1>3, <1>4, <2>1 DEF Treat
  <2>4. IsCi(x) /\ x.treat = ci.treat
    BY <2>2 DEF Changes, CiFields
  <2>5. Changes(x, n, {"httpStatusCode"}) /\ n.httpStatusCode = "SccBadVerb"
    BY <2>3, <2>4, StatusSet
  <2>6. n.allow = x.allow /\ n.treat = x.treat
    BY <2>5 DEF Changes, CiFields
  <2>7. Changes(ci, n, {"httpStatusCode", "allow", "treat"})
    BY <2>2, <2>5, TwoChanges
  <2> QED BY <1>3, <1>4, <2>2, <2>4, <2>5, <2>6, <2>7
<1>5. CASE treat \in {"badRequest", "badNgsi9Request", "badNgsi10Request"}
  <2>1. n = restErrorReplyGet(ci)
    BY <1>1, <1>3, <1>5 DEF Treat
  <2>2. Changes(ci, n, {"httpStatusCode"}) /\ n.httpStatusCode = IF ci.apiVersion = "v2" THEN "SccBadRequest" ELSE "SccOk"
    BY <2>1, ErrorReply
  <2>3. Changes(ci, n, {"httpStatusCode", "allow", "treat"}) /\ n.treat = ci.treat
    BY <2>2 DEF Changes, CiFields
  <2> QED BY <1>3, <1>5, <2>2, <2>3
<1>6. CASE treat \notin DOMAIN Allow \cup {"badRequest", "badNgsi9Request", "badNgsi10Request"}
  <2>1. PICK x : x = [ci EXCEPT !.treat = treat]
    OBVIOUS
  <2>2. Changes(ci, x, {"treat"}) /\ x.treat = treat
    BY <2>1, OneField DEF CiFields
  <2>3. n = Status(x, "routine")
    BY <1>1, <1>6, <2>1 DEF Treat
  <2>4. IsCi(x)
    BY <2>2 DEF Changes
  <2>5. Changes(x, n, {"httpStatusCode"}) /\ n.httpStatusCode = "routine"
    BY <2>3, <2>4, StatusSet
  <2>6. n.treat = x.treat
    BY <2>5 DEF Changes, CiFields
  <2>7. Changes(ci, n, {"httpStatusCode", "allow", "treat"})
    BY <2>2, <2>5, TwoChanges
  <2> QED BY <1>6, <2>2, <2>5, <2>6, <2>7
<1> QED BY <1>4, <1>5, <1>6

\* A tenant that is refused.
LEMMA TenantReply ==
  ASSUME NEW ci, IsCi(ci), ci.httpStatusCode = "SccOk", ci.reply.status = "none"
  PROVE  /\ Changes(ci, restReply(TenantRefused(ci)), {"httpStatusCode", "reply"})
         /\ restReply(TenantRefused(ci)).reply.status \in {"SccOk", "SccBadRequest"}
         /\ ci.apiVersion = "v2" => restReply(TenantRefused(ci)).reply.status # "SccOk"
<1>1. PICK x : x = render(ci)
  OBVIOUS
<1>2. Changes(ci, x, {"httpStatusCode"}) /\ x.httpStatusCode \in {"SccOk", "SccBadRequest"}
  BY <1>1, Operations
<1>3. IsCi(x)
  BY <1>2 DEF Changes
<1>4. PICK n : n = TenantRefused(ci)
  OBVIOUS
<1>5. n = IF ci.apiVersion # "v1" THEN Status(x, "SccBadRequest") ELSE x
  BY <1>1, <1>4 DEF TenantRefused
<1>6. /\ Changes(ci, n, {"httpStatusCode"}) /\ n.httpStatusCode \in {"SccOk", "SccBadRequest"}
      /\ ci.apiVersion = "v2" => n.httpStatusCode # "SccOk"
  <2>1. Changes(x, Status(x, "SccBadRequest"), {"httpStatusCode"}) /\ Status(x, "SccBadRequest").httpStatusCode = "SccBadRequest"
    BY <1>3, StatusSet
  <2>2. Changes(ci, Status(x, "SccBadRequest"), {"httpStatusCode"})
    BY <1>2, <2>1, TwoChanges
  <2> QED BY <1>2, <1>5, <2>1, <2>2
<1>7. IsCi(n) /\ n.reply = ci.reply
  BY <1>6 DEF Changes, CiFields
<1>8. Changes(n, restReply(n), {"reply"}) /\ restReply(n).reply = [status |-> n.httpStatusCode, allow |-> n.allow]
  BY <1>7, Operations
<1>9. restReply(n).reply.status = n.httpStatusCode
  BY <1>8
<1>10. Changes(ci, restReply(n), {"httpStatusCode", "reply"})
  BY <1>6, <1>8, TwoChanges
<1> QED BY <1>4, <1>6, <1>9, <1>10

-----------------------------------------------------------------------------
(* The service vector: the first entry that matches.                       *)

\* The verbs that find a routine at a URL.
AllowedAt(url) == {v \in Verbs : restServiceV[serviceIx(v, url)].verb = v}

\* The URL of an entry fits a URL as long.
Fits(compV, url) == Len(compV) = Len(url) /\ \A i \in DOMAIN compV : compV[i] \in {"*", url[i]}

\* A nonempty set of numbers has a least element, which Min() finds.
LEMMA LeastOf ==
  ASSUME NEW S \in SUBSET Nat, S # {}
  PROVE  Min(S) \in S /\ \A y \in S : Min(S) <= y
<1> DEFINE R == OpToRel(<, Nat)
<1>1. \E x \in S : \A y \in S : ~ (<<y, x>> \in R)
  <2> HIDE DEF R
  <2>1. IsWellFoundedOn(R, Nat)
    BY NatLessThanWellFounded DEF R
  <2> QED BY <2>1, WFMin
<1>2. \A x, y \in Nat : <<y, x>> \in R <=> y < x
  BY DEF OpToRel
<1> HIDE DEF R
<1>3. PICK x \in S : \A y \in S : ~ (<<y, x>> \in R)
  BY <1>1
<1>4. \A y \in S : ~ (y < x)
  BY <1>2, <1>3
<1>5. \A y \in S : x <= y
  BY <1>4
<1>6. Min(S) \in S /\ \A y \in S : Min(S) <= y
  BY <1>5 DEF Min
<1> QED BY <1>6

\* serviceIx() finds the first entry of the vector that matches, if there is one.
LEMMA FirstMatch ==
  ASSUME NEW method, NEW url
  PROVE  /\ serviceIx(method, url) # 0 =>
              /\ serviceIx(method, url) \in DOMAIN restServiceV
              /\ serviceIx(method, url) \in Nat
              /\ Matches(restServiceV[serviceIx(method, url)], method, url)
         /\ \A jx \in DOMAIN restServiceV : Matches(restServiceV[jx], method, url) =>
              jx \in Nat /\ serviceIx(method, url) # 0 /\ serviceIx(method, url) <= jx
<1>1. PICK found : found = {ix \in DOMAIN restServiceV : Matches(restServiceV[ix], method, url)}
  OBVIOUS
<1>2. found \in SUBSET Nat /\ 0 \notin found
  BY <1>1, EntriesAssumption
<1>3. serviceIx(method, url) = IF found = {} THEN 0 ELSE Min(found)
  BY <1>1 DEF serviceIx
<1>4. CASE found = {}
  BY <1>1, <1>3, <1>4
<1>5. CASE found # {}
  <2>1. Min(found) \in found /\ \A y \in found : Min(found) <= y
    BY <1>2, <1>5, LeastOf
  <2>2. serviceIx(method, url) = Min(found)
    BY <1>3, <1>5
  <2> QED BY <1>1, <1>2, <2>1, <2>2
<1> QED BY <1>4, <1>5

\* Two entries that match one URL overlap, and what they have in common fits it.
LEMMA BothMatch ==
  ASSUME NEW p \in Seq(STRING), NEW q \in Seq(STRING), NEW url \in Seq(STRING),
         Fits(p, url), Fits(q, url)
  PROVE  /\ Overlap(p, q)
         /\ DOMAIN Common(p, q) = 1 .. Len(url)
         /\ Fits(Common(p, q), url)
<1>1. DOMAIN p = 1 .. Len(url) /\ DOMAIN q = 1 .. Len(url)
  BY DEF Fits
<1>2. Overlap(p, q)
  BY <1>1 DEF Overlap, Fits
<1>3. PICK r : r = Common(p, q)
  OBVIOUS
<1>4. r = [i \in 1 .. Len(url) |-> IF p[i] = "*" THEN q[i] ELSE p[i]]
  BY <1>1, <1>3 DEF Common
<1>5. Len(r) = Len(url) /\ DOMAIN r = 1 .. Len(url)
  BY <1>4
<1>6. \A i \in DOMAIN r : r[i] \in {"*", url[i]}
  BY <1>1, <1>4, <1>5 DEF Fits
<1> QED BY <1>2, <1>3, <1>5, <1>6 DEF Fits

\* What the URL of an entry begins with, unless it is a "*", the URL begins with.
LEMMA BeginsToo ==
  ASSUME NEW r, NEW url \in Seq(STRING), DOMAIN r = 1 .. Len(url), Fits(r, url)
  PROVE  /\ PayloadOptional(r) => PayloadOptional(url)
         /\ \A verb : Unreachable(verb, r) => Unreachable(verb, url)
<1>1. ASSUME NEW lit, Len(lit) \in Nat, DOMAIN lit = 1 .. Len(lit), \A i \in 1 .. Len(lit) : lit[i] # "*", Begins(r, lit)
      PROVE  Begins(url, lit)
  BY <1>1 DEF Begins, Fits
<1>2. Begins(r, <<"log">>) => Begins(url, <<"log">>)
  <2>1. PICK lit : lit = <<"log">>
    OBVIOUS
  <2>2. Len(lit) = 1 /\ DOMAIN lit = 1 .. 1 /\ lit[1] = "log"
    BY <2>1
  <2>3. \A i \in 1 .. Len(lit) : lit[i] # "*"
    BY <2>2
  <2> QED BY <1>1, <2>1, <2>2, <2>3
<1>3. Begins(r, <<"admin", "log">>) => Begins(url, <<"admin", "log">>)
  <2>1. PICK lit : lit = <<"admin", "log">>
    OBVIOUS
  <2>2. Len(lit) = 2 /\ DOMAIN lit = 1 .. 2 /\ lit[1] = "admin" /\ lit[2] = "log"
    BY <2>1
  <2>3. \A i \in 1 .. Len(lit) : lit[i] # "*"
    BY <2>2
  <2> QED BY <1>1, <2>1, <2>2, <2>3
<1>4. Begins(r, <<"v1", "admin", "log">>) => Begins(url, <<"v1", "admin", "log">>)
  <2>1. PICK lit : lit = <<"v1", "admin", "log">>
    OBVIOUS
  <2>2. Len(lit) = 3 /\ DOMAIN lit = 1 .. 3 /\ lit[1] = "v1" /\ lit[2] = "admin" /\ lit[3] = "log"
    BY <2>1
  <2>3. \A i \in 1 .. Len(lit) : lit[i] # "*"
    BY <2>2
  <2> QED BY <1>1, <2>1, <2>2, <2>3
<1>5. Begins(r, <<"v1", "contextEntities", "type", "attributes">>) => Begins(url, <<"v1", "contextEntities", "type", "attributes">>)
  <2>1. PICK lit : lit = <<"v1", "contextEntities", "type", "attributes">>
    OBVIOUS
  <2>2. Len(lit) = 4 /\ DOMAIN lit = 1 .. 4 /\ lit[1] = "v1" /\ lit[2] = "contextEntities" /\ lit[3] = "type" /\ lit[4] = "attributes"
    BY <2>1
  <2>3. \A i \in 1 .. Len(lit) : lit[i] # "*"
    BY <2>2
  <2> QED BY <1>1, <2>1, <2>2, <2>3
<1>6. PayloadOptional(r) => PayloadOptional(url)
  BY <1>2, <1>3 DEF PayloadOptional, Fits
<1>7. \A verb : Unreachable(verb, r) => Unreachable(verb, url)
  BY <1>4, <1>5 DEF Unreachable, Fits
<1> QED BY <1>6, <1>7

\* What the vector assumes of one entry, and of two.
LEMMA Entry ==
  ASSUME NEW ix \in DOMAIN restServiceV
  PROVE  /\ ix \in Nat /\ restServiceV[ix].treat # "none" /\ restServiceV[ix].compV \in Seq(STRING)
         /\ restServiceV[ix].verb \in Verbs \cup {"*"}
         /\ restServiceV[ix].verb = "*" <=>
              restServiceV[ix].treat \in DOMAIN Allow \cup {"badRequest", "badNgsi9Request", "badNgsi10Request"}
         /\ restServiceV[ix].verb # "*" => restServiceV[ix].compV # <<>> /\ restServiceV[ix].compV[1] # "*"
         /\ restServiceV[ix].request = "SubscriptionsRequest" => restServiceV[ix].compV = <<"v2", "subscriptions">>
BY EntriesAssumption

\* A refusal before a service that matches the same URL announces the service's
\* verb, and then an entry before the refusal serves it; or the URL is one of the
\* few that are not reached.
LEMMA RefusalBefore ==
  ASSUME NEW url \in Seq(STRING), NEW method \in Verbs,
         NEW jx \in DOMAIN restServiceV, restServiceV[jx].verb = "*", Matches(restServiceV[jx], method, url),
         NEW ix \in DOMAIN restServiceV, restServiceV[ix].verb = method, Matches(restServiceV[ix], method, url),
         jx < ix
  PROVE  \/ Unreachable(method, url)
         \/ \E kx \in DOMAIN restServiceV : kx < jx /\ Matches(restServiceV[kx], method, url)
<1>1. method # "*"
  BY DEF Verbs
<1>2. PICK p, q, verbs :
        /\ p = restServiceV[jx].compV /\ q = restServiceV[ix].compV
        /\ verbs = IF restServiceV[jx].treat \in DOMAIN Allow THEN Allow[restServiceV[jx].treat] ELSE {}
  OBVIOUS
<1>3. /\ p # <<>>
      /\ Overlap(p, q) => method \in verbs \/ Unreachable(method, Common(p, q))
      /\ \A verb \in verbs :
            \E kx \in DOMAIN restServiceV : kx < jx /\ restServiceV[kx].verb = verb /\ restServiceV[kx].compV = p
  <2>1. jx < ix => p # <<>>
    BY <1>1, <1>2, OrderAssumption
  <2>2. jx < ix /\ Overlap(p, q) => method \in verbs \/ Unreachable(method, Common(p, q))
    BY <1>1, <1>2, OrderAssumption
  <2>3. \A verb \in verbs :
          \E kx \in DOMAIN restServiceV : kx < jx /\ restServiceV[kx].verb = verb /\ restServiceV[kx].compV = p
    BY <1>2, OrderAssumption
  <2> QED BY <2>1, <2>2, <2>3
<1>4. p \in Seq(STRING) /\ q \in Seq(STRING) /\ q # <<>>
  BY <1>1, <1>2, Entry
<1>5. Fits(p, url) /\ Fits(q, url)
  BY <1>2, <1>3, <1>4 DEF Matches, Fits
<1>6. Overlap(p, q) /\ DOMAIN Common(p, q) = 1 .. Len(url) /\ Fits(Common(p, q), url)
  BY <1>4, <1>5, BothMatch
<1>7. CASE method \in verbs
  <2>1. PICK kx \in DOMAIN restServiceV : kx < jx /\ restServiceV[kx].verb = method /\ restServiceV[kx].compV = p
    BY <1>3, <1>7
  <2>2. Matches(restServiceV[kx], method, url)
    BY <1>3, <1>5, <2>1 DEF Matches, Fits
  <2> QED BY <2>1, <2>2
<1>8. CASE Unreachable(method, Common(p, q))
  BY <1>6, <1>8, BeginsToo
<1> QED BY <1>3, <1>6, <1>7, <1>8

\* The first match of a verb for which the vector lists a routine is a service of
\* this verb.
LEMMA Listed ==
  ASSUME NEW url \in Seq(STRING), NEW method \in Verbs,
         Routines(method, url) # {}, ~ Unreachable(method, url)
  PROVE  /\ serviceIx(method, url) # 0
         /\ restServiceV[serviceIx(method, url)].verb = method
<1>1. PICK jx \in DOMAIN restServiceV : restServiceV[jx].verb = method /\ Matches(restServiceV[jx], method, url)
  BY DEF Routines
<1>2. PICK ix : ix = serviceIx(method, url)
  OBVIOUS
<1>3. /\ ix # 0 /\ ix <= jx /\ ix \in DOMAIN restServiceV /\ ix \in Nat /\ jx \in Nat
      /\ Matches(restServiceV[ix], method, url)
      /\ \A kx \in DOMAIN restServiceV : Matches(restServiceV[kx], method, url) => kx \in Nat /\ ix <= kx
  BY <1>1, <1>2, FirstMatch
<1>4. restServiceV[ix].verb \in {method, "*"}
  BY <1>3 DEF Matches
<1>5. ASSUME restServiceV[ix].verb = "*"
      PROVE  FALSE
  <2>1. ix < jx
    BY <1>1, <1>3, <1>5 DEF Verbs
  <2>2. \E kx \in DOMAIN restServiceV : kx < ix /\ Matches(restServiceV[kx], method, url)
    BY <1>1, <1>3, <1>5, <2>1, RefusalBefore
  <2> QED BY <1>3, <2>2
<1> QED BY <1>2, <1>3, <1>4, <1>5

\* A badVerb entry that is the first match of some verb announces the verbs that
\* find a routine.
LEMMA Announced ==
  ASSUME NEW url \in Seq(STRING), NEW method,
         serviceIx(method, url) # 0, restServiceV[serviceIx(method, url)].treat \in DOMAIN Allow
  PROVE  Allow[restServiceV[serviceIx(method, url)].treat] = AllowedAt(url)
<1>1. PICK ix : ix = serviceIx(method, url)
  OBVIOUS
<1>2. /\ ix \in DOMAIN restServiceV /\ ix \in Nat /\ Matches(restServiceV[ix], method, url)
      /\ \A kx \in DOMAIN restServiceV : Matches(restServiceV[kx], method, url) => kx \in Nat /\ ix <= kx
  BY <1>1, FirstMatch
<1>3. PICK p, verbs : p = restServiceV[ix].compV /\ verbs = Allow[restServiceV[ix].treat]
  OBVIOUS
<1>4. restServiceV[ix].verb = "*" /\ p \in Seq(STRING)
  BY <1>1, <1>2, <1>3, Entry
<1>5. /\ p # <<>>
      /\ \A jx \in DOMAIN restServiceV :
           restServiceV[jx].verb # "*" /\ jx < ix /\ Overlap(p, restServiceV[jx].compV) => restServiceV[jx].verb \in verbs
      /\ \A verb \in verbs :
            \E kx \in DOMAIN restServiceV : kx < ix /\ restServiceV[kx].verb = verb /\ restServiceV[kx].compV = p
  BY <1>1, <1>2, <1>3, <1>4, OrderAssumption
<1>6. Fits(p, url)
  BY <1>2, <1>3, <1>5 DEF Matches, Fits
<1>7. verbs \subseteq Verbs
  BY <1>1, <1>3, EntriesAssumption
<1>8. \A v \in Verbs : Matches(restServiceV[ix], v, url)
  BY <1>2, <1>4 DEF Matches
<1>9. ASSUME NEW v \in Verbs, restServiceV[serviceIx(v, url)].verb = v
      PROVE  v \in verbs
  <2>1. PICK iv : iv = serviceIx(v, url)
    OBVIOUS
  <2>2. iv # 0 /\ iv <= ix /\ iv \in DOMAIN restServiceV /\ iv \in Nat /\ Matches(restServiceV[iv], v, url)
    BY <1>2, <1>8, <2>1, FirstMatch
  <2>3. v # "*"
    BY DEF Verbs
  <2>4. iv < ix
    BY <1>2, <1>4, <1>9, <2>1, <2>2, <2>3
  <2>5. restServiceV[iv].compV \in Seq(STRING) /\ restServiceV[iv].compV # <<>>
    BY <1>9, <2>1, <2>2, <2>3, Entry
  <2>6. Fits(restServiceV[iv].compV, url)
    BY <2>2, <2>5 DEF Matches, Fits
  <2>7. Overlap(p, restServiceV[iv].compV)
    BY <1>4, <1>6, <2>5, <2>6, BothMatch
  <2> QED BY <1>5, <1>9, <2>1, <2>2, <2>3, <2>4, <2>7
<1>10. ASSUME NEW v \in verbs
       PROVE  v \in Verbs /\ restServiceV[serviceIx(v, url)].verb = v
  <2>1. v \in Verbs
    BY <1>7
  <2>2. PICK kx \in DOMAIN restServiceV : kx < ix /\ restServiceV[kx].verb = v /\ restServiceV[kx].compV = p
    BY <1>5
  <2>3. Matches(restServiceV[kx], v, url)
    BY <1>5, <1>6, <2>2 DEF Matches, Fits
  <2>4. PICK iv : iv = serviceIx(v, url)
    OBVIOUS
  <2>5. /\ iv # 0 /\ iv <= kx /\ iv \in DOMAIN restServiceV /\ iv \in Nat /\ kx \in Nat
        /\ Matches(restServiceV[iv], v, url)
    BY <2>2, <2>3, <2>4, FirstMatch
  <2>6. ASSUME restServiceV[iv].verb = "*"
        PROVE  FALSE
    <3>1. Matches(restServiceV[iv], method, url)
      BY <2>5, <2>6 DEF Matches
    <3> QED BY <1>2, <2>2, <2>5, <3>1
  <2> QED BY <2>1, <2>4, <2>5, <2>6 DEF Matches
<1>11. verbs = AllowedAt(url)
  BY <1>7, <1>9, <1>10 DEF AllowedAt
<1> QED BY <1>1, <1>3, <1>11

-----------------------------------------------------------------------------
(* restService().                                                          *)

\* A subscription that only SubscribeContextRequest::check() refuses.
InvalidSubscription(req) == req.url = <<"v2", "subscriptions">> /\ req.kind = "invalid"

\* What restService() makes of a request that the checks have approved: a reply
\* is queued; a routine is the one listed, and gets a payload that is understood;
\* a refusal fits.
ServiceOutcome(ci, new, text) ==
  /\ Changes(ci, new, ServiceFields)
  /\ new.parsed \in {ci.parsed, text}
  /\ new.reply.status # "none"
  /\ new.treat # "none" =>
       /\ ci.req.tenant # "bad"
       /\ new.treat \in Routines(ci.req.method, ci.req.url)
       /\ text = <<>> \/ ci.payloadSize = 0 \/ ci.req.kind = "good"
  /\ ci.apiVersion = "v2" /\ new.treat = "none" =>
       \/ new.reply.status \notin {"SccOk", "routine"}
       \/ InvalidSubscription(ci.req)
  /\ new.reply.status = "SccBadVerb" => new.reply.allow = AllowedAt(ci.req.url)

\* An outcome without a routine.
LEMMA NotServed ==
  ASSUME NEW ci, NEW new, NEW text, ci.treat = "none",
         Changes(ci, new, {"httpStatusCode", "parsed", "reply"}), new.parsed \in {ci.parsed, text},
         new.reply.status \in ParseCodes,
         ci.apiVersion = "v2" => \/ new.reply.status # "SccOk"
                                \/ InvalidSubscription(ci.req)
  PROVE  ServiceOutcome(ci, new, text)
<1>1. new.treat = "none"
  BY DEF Changes, CiFields
<1>2. new.reply.status \notin {"none", "routine", "SccBadVerb"}
  BY DEF ParseCodes
<1>3. Changes(ci, new, ServiceFields)
  BY DEF Changes, ServiceFields, CheckFields
<1> QED BY <1>1, <1>2, <1>3 DEF ServiceOutcome

\* The URL of the service of POST /v2/subscriptions.
LEMMA SubscriptionUrl ==
  ASSUME NEW url \in Seq(STRING), Fits(<<"v2", "subscriptions">>, url)
  PROVE  url = <<"v2", "subscriptions">>
<1>1. PICK lit : lit = <<"v2", "subscriptions">>
  OBVIOUS
<1>2. Len(lit) = 2 /\ DOMAIN lit = 1 .. 2 /\ lit[1] = "v2" /\ lit[2] = "subscriptions"
  BY <1>1
<1>3. Len(url) = 2 /\ url[1] = "v2" /\ url[2] = "subscriptions"
  BY <1>1, <1>2 DEF Fits
<1> QED BY <1>3

\* restService() replies to a request that the checks have approved.
LEMMA ServiceReply ==
  ASSUME NEW ci, IsCi(ci), ci.reply.status = "none", ci.treat = "none", NEW text,
         ci.req.url \in Seq(STRING), ci.req.method \in Verbs
  PROVE  ServiceOutcome(ci, restService(ci, text), text)
<1>1. PICK ix, x, service, new :
        /\ ix = serviceIx(ci.req.method, ci.req.url) /\ x = Status(ci, "SccOk") /\ service = restServiceV[ix]
        /\ new = restService(ci, text)
  OBVIOUS
<1>2. Changes(ci, x, {"httpStatusCode"}) /\ x.httpStatusCode = "SccOk" /\ IsCi(x)
  BY <1>1, StatusSet
<1>3. /\ x.reply = ci.reply /\ x.treat = ci.treat /\ x.parsed = ci.parsed /\ x.payloadSize = ci.payloadSize
      /\ x.req = ci.req /\ x.apiVersion = ci.apiVersion
  BY <1>2 DEF Changes, CiFields
<1>3a. PICK ok \in BOOLEAN : \E y :
        /\ Parse(x, service, text) = [ok |-> ok, ci |-> y]
        /\ ok => /\ Changes(x, y, {"parsed"}) /\ y.parsed \in {x.parsed, text}
                 /\ text = <<>> \/ x.payloadSize = 0 \/ service.verb = "*" \/ x.req.kind = "good"
        /\ ~ ok => /\ Changes(x, y, {"httpStatusCode", "reply"})
                   /\ y.reply.status \in ParseCodes
                   /\ x.apiVersion = "v2" => y.reply.status # "SccOk" \/ SubscriptionRefused(x, service.request)
  BY <1>2, <1>3, Parsed
<1>4. PICK y :
        /\ Parse(x, service, text) = [ok |-> ok, ci |-> y]
        /\ ok => /\ Changes(x, y, {"parsed"}) /\ y.parsed \in {x.parsed, text}
                 /\ text = <<>> \/ x.payloadSize = 0 \/ service.verb = "*" \/ x.req.kind = "good"
        /\ ~ ok => /\ Changes(x, y, {"httpStatusCode", "reply"})
                   /\ y.reply.status \in ParseCodes
                   /\ x.apiVersion = "v2" => y.reply.status # "SccOk" \/ SubscriptionRefused(x, service.request)
  BY <1>3a
<1>5. Parse(x, service, text).ok = ok /\ Parse(x, service, text).ci = y
  BY <1>4
<1>6. new = IF ix = 0 THEN restReply(restErrorReplyGet(ci))
            ELSE IF ~ ok THEN restReply(y)
            ELSE IF ci.req.tenant = "bad" THEN restReply(TenantRefused(y))
            ELSE restReply(Treat(y, service.treat))
  BY <1>1, <1>5 DEF restService
<1>7. CASE ix = 0
  <2>1. PICK e : e = restErrorReplyGet(ci)
    OBVIOUS
  <2>2. /\ Changes(ci, e, {"httpStatusCode"})
        /\ e.httpStatusCode = IF ci.apiVersion = "v2" THEN "SccBadRequest" ELSE "SccOk"
    BY <2>1, ErrorReply
  <2>3. IsCi(e) /\ e.reply = ci.reply /\ e.parsed = ci.parsed
    BY <2>2 DEF Changes, CiFields
  <2>4. Changes(e, restReply(e), {"reply"}) /\ restReply(e).reply = [status |-> e.httpStatusCode, allow |-> e.allow]
    BY <2>3, Operations
  <2>5. new = restReply(e)
    BY <1>6, <1>7, <2>1
  <2>6. new.reply.status = e.httpStatusCode
    BY <2>4, <2>5
  <2>7. new.parsed = ci.parsed
    BY <2>3, <2>4, <2>5 DEF Changes, CiFields
  <2>8. Changes(ci, new, {"httpStatusCode", "parsed", "reply"})
    BY <2>2, <2>4, <2>5, TwoChanges
  <2>9. new.reply.status \in ParseCodes
    BY <2>2, <2>6 DEF ParseCodes
  <2>10. new.parsed \in {ci.parsed, text}
    BY <2>7
  <2>11. ci.apiVersion = "v2" => \/ new.reply.status # "SccOk"
                                \/ InvalidSubscription(ci.req)
    BY <2>2, <2>6
  <2>12. ServiceOutcome(ci, new, text)
    BY <2>8, <2>9, <2>10, <2>11, NotServed
  <2> QED BY <1>1, <2>12
<1>8. ASSUME ix # 0
      PROVE  /\ ix \in DOMAIN restServiceV /\ Matches(service, ci.req.method, ci.req.url)
             /\ service.verb # "*" => Fits(service.compV, ci.req.url)
  <2>1. ix \in DOMAIN restServiceV /\ Matches(service, ci.req.method, ci.req.url)
    BY <1>1, <1>8, FirstMatch
  <2>2. service.verb # "*" => service.compV # <<>>
    BY <1>1, <2>1, Entry
  <2> QED BY <2>1, <2>2 DEF Matches, Fits
<1>9. CASE ix # 0 /\ ~ ok
  <2>1. IsCi(y) /\ y.reply.status # "none" /\ y.parsed = x.parsed
    BY <1>4, <1>9 DEF Changes, CiFields, ParseCodes
  <2>2. new = y
    BY <1>6, <1>9, <2>1, Operations
  <2>3. Changes(x, y, {"httpStatusCode", "reply"})
    BY <1>4, <1>9
  <2>4. Changes(ci, new, {"httpStatusCode", "parsed", "reply"})
    BY <1>2, <2>2, <2>3, TwoChanges
  <2>5. SubscriptionRefused(x, service.request) => InvalidSubscription(ci.req)
    <3>1. ASSUME service.request = "SubscriptionsRequest"
          PROVE  ci.req.url = <<"v2", "subscriptions">>
      <4>1. service.compV = <<"v2", "subscriptions">>
        BY <1>1, <1>8, <1>9, <3>1, Entry
      <4>2. service.compV # <<>>
        BY <4>1
      <4>3. Fits(service.compV, ci.req.url)
        BY <1>8, <1>9, <4>2 DEF Matches, Fits
      <4> QED BY <4>1, <4>3, SubscriptionUrl
    <3> QED BY <1>3, <3>1 DEF SubscriptionRefused, InvalidSubscription
  <2>6. new.reply.status \in ParseCodes /\ new.parsed = ci.parsed
    BY <1>3, <1>4, <1>9, <2>1, <2>2
  <2>7. ci.apiVersion = "v2" => \/ new.reply.status # "SccOk"
                               \/ InvalidSubscription(ci.req)
    <3>1. x.apiVersion = "v2" => y.reply.status # "SccOk" \/ SubscriptionRefused(x, service.request)
      BY <1>4, <1>9
    <3> QED BY <1>3, <2>2, <2>5, <3>1
  <2>8. ServiceOutcome(ci, new, text)
    BY <2>4, <2>6, <2>7, NotServed
  <2> QED BY <1>1, <2>8
<1>10. ASSUME ok
       PROVE  /\ Changes(ci, y, {"httpStatusCode", "parsed"}) /\ IsCi(y) /\ y.parsed \in {ci.parsed, text}
              /\ y.httpStatusCode = "SccOk" /\ y.reply.status = "none" /\ y.treat = "none"
              /\ y.req = ci.req /\ y.apiVersion = ci.apiVersion
  <2>1. Changes(x, y, {"parsed"}) /\ y.parsed \in {x.parsed, text}
    BY <1>4, <1>10
  <2>2. Changes(ci, y, {"httpStatusCode", "parsed"})
    BY <1>2, <2>1, TwoChanges
  <2>3. y.httpStatusCode = x.httpStatusCode /\ y.reply = x.reply /\ y.treat = x.treat /\ y.req = x.req /\ y.apiVersion = x.apiVersion
    BY <2>1 DEF Changes, CiFields
  <2>4. IsCi(y)
    BY <2>1 DEF Changes
  <2> QED BY <1>2, <1>3, <2>1, <2>2, <2>3, <2>4
<1>11. CASE ix # 0 /\ ok /\ ci.req.tenant = "bad"
  <2>1. new = restReply(TenantRefused(y))
    BY <1>6, <1>11
  <2>2. /\ Changes(y, new, {"httpStatusCode", "reply"}) /\ new.reply.status \in {"SccOk", "SccBadRequest"}
        /\ y.apiVersion = "v2" => new.reply.status # "SccOk"
    BY <1>10, <1>11, <2>1, TenantReply
  <2>3. Changes(ci, new, {"httpStatusCode", "parsed", "reply"})
    BY <1>10, <1>11, <2>2, TwoChanges
  <2>4. new.parsed = y.parsed
    BY <2>2 DEF Changes, CiFields
  <2>5. new.reply.status \in ParseCodes
    BY <2>2 DEF ParseCodes
  <2>6. new.parsed \in {ci.parsed, text}
    BY <1>10, <1>11, <2>4
  <2>7. ci.apiVersion = "v2" => \/ new.reply.status # "SccOk"
                                \/ InvalidSubscription(ci.req)
    BY <1>10, <1>11, <2>2
  <2>8. ServiceOutcome(ci, new, text)
    BY <2>3, <2>5, <2>6, <2>7, NotServed
  <2> QED BY <1>1, <2>8
<1>12. CASE ix # 0 /\ ok /\ ci.req.tenant # "bad"
  <2> DEFINE Bad == {"badRequest", "badNgsi9Request", "badNgsi10Request"}
  <2>1. new = restReply(Treat(y, service.treat))
    BY <1>6, <1>12
  <2>2. /\ Changes(y, new, {"httpStatusCode", "allow", "treat", "reply"})
        /\ service.treat \in DOMAIN Allow =>
             new.treat = y.treat /\ new.reply = [status |-> "SccBadVerb", allow |-> Allow[service.treat]]
        /\ service.treat \in Bad =>
             new.treat = y.treat /\ new.reply.status = IF y.apiVersion = "v2" THEN "SccBadRequest" ELSE "SccOk"
        /\ service.treat \notin DOMAIN Allow \cup Bad => new.treat = service.treat /\ new.reply.status = "routine"
    BY <1>10, <1>12, <2>1, Treated
  <2>3. Changes(ci, new, ServiceFields)
    BY <1>10, <1>12, <2>2, TwoChanges DEF ServiceFields, CheckFields
  <2>4. new.parsed \in {ci.parsed, text}
    BY <1>10, <1>12, <2>2 DEF Changes, CiFields
  <2>5. CASE service.treat \in DOMAIN Allow
    <3>1. new.treat = "none" /\ new.reply.status = "SccBadVerb" /\ new.reply.allow = Allow[service.treat]
      BY <1>10, <1>12, <2>2, <2>5
    <3>2. Allow[service.treat] = AllowedAt(ci.req.url)
      BY <1>1, <1>12, <2>5, Announced
    <3> QED BY <1>1, <2>3, <2>4, <3>1, <3>2 DEF ServiceOutcome
  <2>6. CASE service.treat \in Bad
    <3>1. new.treat = "none" /\ new.reply.status = IF ci.apiVersion = "v2" THEN "SccBadRequest" ELSE "SccOk"
      BY <1>10, <1>12, <2>2, <2>6
    <3> QED BY <1>1, <2>3, <2>4, <3>1 DEF ServiceOutcome
  <2>7. CASE service.treat \notin DOMAIN Allow \cup Bad
    <3>1. new.treat = service.treat /\ new.reply.status = "routine"
      BY <2>2, <2>7
    <3>2. service.verb # "*" /\ service.treat # "none"
      BY <1>1, <1>8, <1>12, <2>7, Entry
    <3>3. service.verb = ci.req.method
      BY <1>8, <1>12, <3>2 DEF Matches
    <3>4. service.treat \in Routines(ci.req.method, ci.req.url)
      BY <1>1, <1>8, <1>12, <3>3 DEF Routines
    <3>5. text = <<>> \/ ci.payloadSize = 0 \/ ci.req.kind = "good"
      BY <1>3, <1>4, <1>12, <3>2
    <3> QED BY <1>1, <1>12, <2>3, <2>4, <3>1, <3>2, <3>4, <3>5 DEF ServiceOutcome
  <2> QED BY <2>5, <2>6, <2>7
<1> QED BY <1>7, <1>9, <1>11, <1>12

\* The parsers take a payload that is good, when it is JSON and of a verb that
\* brings one.
LEMMA ParserTakes ==
  ASSUME NEW ci, NEW ix \in DOMAIN restServiceV,
         restServiceV[ix].verb = ci.req.method, Fits(restServiceV[ix].compV, ci.req.url),
         ci.req.url \in Seq(STRING), ci.req.method \in {"POST", "PUT", "PATCH"},
         ~ PayloadOptional(ci.req.url), ~ Unreachable(ci.req.method, ci.req.url),
         ci.req.kind = "good", ci.inMimeType = "JSON"
  PROVE  payloadParse(ci, restServiceV[ix].request).ok = TRUE
<1>1. PICK service : service = restServiceV[ix]
  OBVIOUS
<1>2. service.verb # "*"
  BY <1>1
<1>3. service.compV \in Seq(STRING) /\ service.compV # <<>> /\ service.compV[1] # "*"
  BY <1>1, <1>2, Entry
<1>4. DOMAIN service.compV = 1 .. Len(ci.req.url) /\ Len(service.compV) # 0
  BY <1>1, <1>3 DEF Fits
<1>5. service.compV[1] = ci.req.url[1]
  BY <1>1, <1>3, <1>4 DEF Fits
<1>6. ~ PayloadOptional(service.compV) /\ ~ Unreachable(ci.req.method, service.compV)
  BY <1>1, <1>4, BeginsToo
<1>7. IF ci.req.url[1] = "v2" THEN service.request \in JsonRequestTypes
      ELSE <<service.request, ci.req.method>> \in jsonRequest
  BY <1>1, <1>5, <1>6, EntriesAssumption
<1>8. payloadParse(ci, service.request) =
        IF ci.req.url[1] = "v2" THEN jsonRequestTreat(ci, service.request) ELSE jsonTreat(ci, service.request)
  BY DEF payloadParse
<1>9. CASE ci.req.url[1] = "v2"
  <2>1. service.request \in JsonRequestTypes
    BY <1>7, <1>9
  <2>2. jsonRequestTreat(ci, service.request).ok = TRUE
    BY <2>1 DEF jsonRequestTreat
  <2> QED BY <1>1, <1>8, <1>9, <2>2
<1>10. CASE ci.req.url[1] # "v2"
  <2>1. <<service.request, ci.req.method>> \in jsonRequest
    BY <1>7, <1>10
  <2>2. jsonTreat(ci, service.request).ok = TRUE
    BY <2>1 DEF jsonTreat
  <2> QED BY <1>1, <1>8, <1>10, <2>2
<1> QED BY <1>9, <1>10

\* restService() calls the routine that is listed.
LEMMA ServedWhenListed ==
  ASSUME NEW ci, IsCi(ci), ci.reply.status = "none", ci.treat = "none", NEW text,
         ci.req.url \in Seq(STRING), ci.req.method \in Verbs, ci.req.tenant # "bad",
         Routines(ci.req.method, ci.req.url) # {}, ~ Unreachable(ci.req.method, ci.req.url),
         \/ text = <<>> \/ ci.payloadSize = 0
         \/ /\ ci.req.method \in {"POST", "PUT", "PATCH"} /\ ~ PayloadOptional(ci.req.url)
            /\ ci.req.kind = "good" /\ ci.inMimeType = "JSON"
  PROVE  restService(ci, text).treat # "none"
<1>1. PICK ix, x, service :
        /\ ix = serviceIx(ci.req.method, ci.req.url) /\ x = Status(ci, "SccOk") /\ service = restServiceV[ix]
  OBVIOUS
<1>2. ix # 0 /\ service.verb = ci.req.method
  BY <1>1, Listed
<1>3. ix \in DOMAIN restServiceV /\ Matches(service, ci.req.method, ci.req.url)
  BY <1>1, <1>2, FirstMatch
<1>4. service.verb # "*"
  BY <1>2 DEF Verbs
<1>5. /\ service.compV # <<>> /\ service.treat # "none"
      /\ service.treat \notin DOMAIN Allow \cup {"badRequest", "badNgsi9Request", "badNgsi10Request"}
  BY <1>1, <1>3, <1>4, Entry
<1>6. Fits(service.compV, ci.req.url)
  BY <1>3, <1>5 DEF Matches, Fits
<1>7. Changes(ci, x, {"httpStatusCode"}) /\ x.httpStatusCode = "SccOk" /\ IsCi(x)
  BY <1>1, StatusSet
<1>8. x.reply = ci.reply /\ x.req = ci.req /\ x.payloadSize = ci.payloadSize /\ x.inMimeType = ci.inMimeType
  BY <1>7 DEF Changes, CiFields
<1>8a. PICK ok \in BOOLEAN : \E y : Parse(x, service, text) = [ok |-> ok, ci |-> y] /\ (ok => Changes(x, y, {"parsed"}))
  BY <1>7, <1>8, Parsed
<1>9. PICK y : Parse(x, service, text) = [ok |-> ok, ci |-> y] /\ (ok => Changes(x, y, {"parsed"}))
  BY <1>8a
<1>10. Parse(x, service, text).ok = ok /\ Parse(x, service, text).ci = y
  BY <1>9
<1>11. ok = TRUE
  <2>1. CASE text = <<>> \/ ci.payloadSize = 0
    <3>1. Parse(x, service, text) = [ok |-> TRUE, ci |-> x]
      BY <1>8, <2>1 DEF Parse
    <3>2. Parse(x, service, text).ok = TRUE
      BY <3>1
    <3> QED BY <1>10, <3>2
  <2>2. CASE ~ (text = <<>> \/ ci.payloadSize = 0)
    <3>1. PICK parse : parse = payloadParse(x, service.request)
      OBVIOUS
    <3>2. parse.ok = TRUE
      <4>1. /\ x.req.method \in {"POST", "PUT", "PATCH"} /\ ~ PayloadOptional(x.req.url)
            /\ x.req.kind = "good" /\ x.inMimeType = "JSON"
        BY <1>8, <2>2
      <4>2. /\ x.req.url \in Seq(STRING) /\ ~ Unreachable(x.req.method, x.req.url)
            /\ service.verb = x.req.method /\ Fits(service.compV, x.req.url)
        BY <1>2, <1>6, <1>8
      <4> QED BY <1>1, <1>3, <3>1, <4>1, <4>2, ParserTakes
    <3>2a. PICK k \in BOOLEAN : \E q :
            /\ payloadParse(x, service.request) = [ok |-> k, ci |-> q]
            /\ k => x.req.kind = "good"
            /\ Changes(x, q, {"httpStatusCode"}) /\ q.httpStatusCode \in ParseCodes
            /\ x.apiVersion = "v2" => q.httpStatusCode # "SccOk" \/ SubscriptionRefused(x, service.request)
      BY <1>7, PayloadParsed
    <3>3. PICK q :
            /\ payloadParse(x, service.request) = [ok |-> k, ci |-> q]
            /\ k => x.req.kind = "good"
            /\ Changes(x, q, {"httpStatusCode"}) /\ q.httpStatusCode \in ParseCodes
            /\ x.apiVersion = "v2" => q.httpStatusCode # "SccOk" \/ SubscriptionRefused(x, service.request)
      BY <3>2a
    <3>4. PICK r : Parse(x, service, text) = [parse EXCEPT !.ci = r]
      BY <1>4, <1>8, <2>2, <3>1 DEF Parse
    <3>5. Parse(x, service, text).ok = parse.ok
      BY <3>1, <3>3, <3>4
    <3> QED BY <1>10, <3>2, <3>5
  <2> QED BY <2>1, <2>2
<1>12. Changes(x, y, {"parsed"})
  BY <1>9, <1>11
<1>13. IsCi(y) /\ y.reply.status = "none"
  BY <1>8, <1>12 DEF Changes, CiFields
<1>14. restService(ci, text) = restReply(Treat(y, service.treat))
  BY <1>1, <1>2, <1>10, <1>11 DEF restService
<1>15. restReply(Treat(y, service.treat)).treat = service.treat
  <2> DEFINE Bad == {"badRequest", "badNgsi9Request", "badNgsi10Request"}
  <2>1. PICK new : new = restReply(Treat(y, service.treat))
    OBVIOUS
  <2>2. /\ Changes(y, new, {"httpStatusCode", "allow", "treat", "reply"})
        /\ service.treat \in DOMAIN Allow =>
             new.treat = y.treat /\ new.reply = [status |-> "SccBadVerb", allow |-> Allow[service.treat]]
        /\ service.treat \in Bad =>
             new.treat = y.treat /\ new.reply.status = IF y.apiVersion = "v2" THEN "SccBadRequest" ELSE "SccOk"
        /\ service.treat \notin DOMAIN Allow \cup Bad => new.treat = service.treat /\ new.reply.status = "routine"
    BY <1>13, <2>1, Treated
  <2> QED BY <1>5, <2>1, <2>2
<1> QED BY <1>5, <1>14, <1>15

-----------------------------------------------------------------------------
(* The last call of connectionTreat().                                     *)

\* A ConnectionInfo before the last call.
Begun(ci) ==
  /\ IsCi(ci) /\ ci.req \in Request /\ ci.apiVersion = apiVersionGet(ci.req.url)
  /\ IF ci.req.params = "bad" THEN ci.answer = TRUE /\ ci.httpStatusCode = "SccBadRequest"
     ELSE ci.answer = FALSE /\ ci.httpStatusCode = "SccOk"
  /\ ci.reply.status = "none" /\ ci.treat = "none" /\ ci.parsed = <<>>

\* What the checks have approved of when a routine is called.
Approved(req) ==
  /\ req.charsOk /\ req.params # "bad" /\ req.servicePath # "bad" /\ Len(req.body) <= PAYLOAD_MAX_SIZE

Outcome(ci, new, text) == ServiceOutcome(ci, new, text) /\ (new.treat # "none" => Approved(ci.req))

\* A reply of the checks, the first of which is sent.
LEMMA CheckReply ==
  ASSUME NEW ci, ci.treat = "none", NEW old, Checked(ci, old), NEW new, NEW text,
         Changes(old, new, {"httpStatusCode"}), new.httpStatusCode \in Codes \cup {"SccLengthRequired"},
         old.reply.status = "none" => new.httpStatusCode # "SccOk"
  PROVE  Outcome(ci, restReply(new), text)
<1>1. PICK r : r = restReply(new)
  OBVIOUS
<1>2. Changes(ci, old, CheckFields) /\ IsCi(new) /\ new.reply = old.reply
  BY DEF Checked, Changes, CiFields
<1>3. old.treat = "none" /\ old.parsed = ci.parsed /\ old.apiVersion = ci.apiVersion
  BY <1>2 DEF Changes, CheckFields, CiFields
<1>4. new.treat = "none" /\ new.parsed = ci.parsed
  BY <1>3 DEF Changes, CiFields
<1>5. Changes(new, r, {"reply"})
  BY <1>1, <1>2, Operations
<1>6. r.treat = "none" /\ r.parsed = ci.parsed
  BY <1>4, <1>5 DEF Changes, CiFields
<1>7. Changes(ci, new, ServiceFields)
  BY <1>2, TwoChanges DEF CheckFields, ServiceFields
<1>8. Changes(ci, r, ServiceFields)
  BY <1>5, <1>7, TwoChanges DEF CheckFields, ServiceFields
<1>9. r.reply.status \in Codes \cup {"SccLengthRequired"} /\ (ci.apiVersion = "v2" => r.reply.status # "SccOk")
  <2>1. CASE old.reply.status # "none"
    <3>1. r = new
      BY <1>1, <1>2, <2>1, Operations
    <3> QED BY <1>2, <1>3, <2>1, <3>1 DEF Checked
  <2>2. CASE old.reply.status = "none"
    <3>1. r.reply = [status |-> new.httpStatusCode, allow |-> new.allow]
      BY <1>1, <1>2, <2>2, Operations
    <3>2. r.reply.status = new.httpStatusCode
      BY <3>1
    <3> QED BY <2>2, <3>2
  <2> QED BY <2>1, <2>2
<1>10. r.reply.status \notin {"none", "routine", "SccBadVerb"}
  BY <1>9 DEF Codes
<1>11. ServiceOutcome(ci, r, text)
  BY <1>6, <1>8, <1>9, <1>10 DEF ServiceOutcome
<1> QED BY <1>1, <1>6, <1>11 DEF Outcome

\* The last call replies, and calls a routine only if the checks approve.
LEMMA LastReply ==
  ASSUME NEW ci, Begun(ci), NEW text
  PROVE  Outcome(ci, LastCall(ci, text), text)
<1>1. PICK u, s, m, z, new :
        /\ u = urlCheck(ci) /\ s = servicePathSplit(u) /\ m = mediaTypeChecks(s) /\ z = sizeCheck(m)
        /\ new = LastCall(ci, text)
  OBVIOUS
<1>2. new = IF m.httpStatusCode # "SccOk" THEN restReply(m)
            ELSE IF PayloadMissing(z) THEN restReply(Status(restErrorReplyGet(z), "SccLengthRequired"))
            ELSE IF z.answer THEN restReply(z)
            ELSE restService(z, text)
  BY <1>1 DEF LastCall
<1>3. Checked(ci, ci)
  <2>1. Changes(ci, ci, CheckFields)
    BY DEF Begun, Changes
  <2>2. ci.httpStatusCode \in Codes /\ ci.answer \in BOOLEAN
    BY DEF Begun, Codes
  <2>3. ci.answer = TRUE => ci.httpStatusCode # "SccOk"
    BY DEF Begun
  <2> QED BY <2>1, <2>2, <2>3 DEF Checked, Begun
<1>4. Checked(ci, u) /\ (ci.answer = TRUE => u.answer = TRUE) /\ (ci.req.charsOk \/ u.answer = TRUE)
  BY <1>1, <1>3, PathChecks
<1>5. Checked(ci, s) /\ (u.answer = TRUE => s.answer = TRUE) /\ (ci.req.servicePath = "bad" => s.answer = TRUE)
  BY <1>1, <1>4, PathChecks
<1>6. Checked(ci, m) /\ (s.answer = TRUE => m.answer = TRUE)
  BY <1>1, <1>5, PayloadChecks
<1>7. Checked(ci, z) /\ (m.answer = TRUE => z.answer = TRUE) /\ (contentLength(ci) > PAYLOAD_MAX_SIZE => z.answer = TRUE)
  BY <1>1, <1>6, PayloadChecks
<1>8. ci.treat = "none"
  BY DEF Begun
<1>9. CASE m.httpStatusCode # "SccOk"
  <2>1. Changes(m, m, {"httpStatusCode"}) /\ m.httpStatusCode \in Codes
    BY <1>6 DEF Checked, Changes
  <2>2. Outcome(ci, restReply(m), text)
    BY <1>6, <1>8, <1>9, <2>1, CheckReply
  <2> QED BY <1>1, <1>2, <1>9, <2>2
<1>10. CASE m.httpStatusCode = "SccOk" /\ PayloadMissing(z)
  <2>1. PICK e, f : e = restErrorReplyGet(z) /\ f = Status(e, "SccLengthRequired")
    OBVIOUS
  <2>2. IsCi(z)
    BY <1>7 DEF Checked, Changes
  <2>3. Changes(z, e, {"httpStatusCode"}) /\ IsCi(e)
    BY <2>1, <2>2, ErrorReply DEF Changes
  <2>4. Changes(e, f, {"httpStatusCode"}) /\ f.httpStatusCode = "SccLengthRequired"
    BY <2>1, <2>3, StatusSet
  <2>5. Changes(z, f, {"httpStatusCode"})
    BY <2>3, <2>4, TwoChanges
  <2>6. f.httpStatusCode \in Codes \cup {"SccLengthRequired"} /\ f.httpStatusCode # "SccOk"
    BY <2>4
  <2>7. Outcome(ci, restReply(f), text)
    BY <1>7, <1>8, <2>5, <2>6, CheckReply
  <2> QED BY <1>1, <1>2, <1>10, <2>1, <2>7
<1>11. CASE m.httpStatusCode = "SccOk" /\ ~ PayloadMissing(z) /\ z.answer = TRUE
  <2>1. Changes(z, z, {"httpStatusCode"}) /\ z.httpStatusCode \in Codes
    BY <1>7 DEF Checked, Changes
  <2>2. z.reply.status = "none" => z.httpStatusCode # "SccOk"
    BY <1>7, <1>11 DEF Checked
  <2>3. Outcome(ci, restReply(z), text)
    BY <1>7, <1>8, <2>1, <2>2, CheckReply
  <2> QED BY <1>1, <1>2, <1>11, <2>3
<1>12. CASE m.httpStatusCode = "SccOk" /\ ~ PayloadMissing(z) /\ z.answer = FALSE
  <2>1. new = restService(z, text)
    BY <1>2, <1>12
  <2>2. Changes(ci, z, CheckFields) /\ IsCi(z) /\ z.reply.status = "none"
    BY <1>7, <1>12 DEF Checked, Changes
  <2>3. /\ z.treat = ci.treat /\ z.req = ci.req /\ z.parsed = ci.parsed /\ z.apiVersion = ci.apiVersion
        /\ z.payloadSize = ci.payloadSize
    BY <2>2 DEF Changes, CheckFields, CiFields
  <2>4. ci.req.url \in Seq(STRING) /\ ci.req.method \in Verbs /\ Len(ci.req.body) \in Nat
    BY DEF Begun, Request
  <2>5. ServiceOutcome(z, new, text)
    BY <1>8, <2>1, <2>2, <2>3, <2>4, ServiceReply
  <2>6. Changes(z, new, ServiceFields)
    BY <2>5 DEF ServiceOutcome
  <2>7. Changes(ci, new, ServiceFields)
    BY <2>2, <2>6, TwoChanges DEF ServiceFields
  <2>8. ServiceOutcome(ci, new, text)
    BY <2>3, <2>5, <2>7 DEF ServiceOutcome
  <2>9. ci.req.charsOk /\ ci.req.servicePath # "bad" /\ ~ (contentLength(ci) > PAYLOAD_MAX_SIZE) /\ ci.answer # TRUE
    BY <1>4, <1>5, <1>6, <1>7, <1>12
  <2>10. ci.req.params # "bad"
    BY <2>9 DEF Begun
  <2>11. Len(ci.req.body) <= PAYLOAD_MAX_SIZE
    BY <2>4, <2>9, RestAssumption DEF contentLength
  <2> QED BY <1>1, <2>8, <2>9, <2>10, <2>11 DEF Outcome, Approved
<1>13. z.answer \in BOOLEAN
  BY <1>7 DEF Checked
<1> QED BY <1>9, <1>10, <1>11, <1>12, <1>13

\* The last call serves what is well-formed and has a routine.
LEMMA WellFormedServed ==
  ASSUME NEW ci, Begun(ci), NEW text, ci.req.body = <<>> => ci.payloadSize = 0,
         WellFormed(ci.req), Routines(ci.req.method, ci.req.url) # {}, ~ Unreachable(ci.req.method, ci.req.url)
  PROVE  LastCall(ci, text).treat # "none"
<1>1. PICK req, m : req = ci.req /\ m = [ci EXCEPT !.inMimeType = mimeTypeParse(req.contentType)]
  OBVIOUS
<1>2. /\ req.url \in Seq(STRING) /\ req.method \in Verbs /\ req.body \in Seq(Int \ {Terminator})
  BY <1>1 DEF Begun, Request
<1>3. Len(req.body) \in Nat /\ (Len(req.body) = 0 <=> req.body = <<>>)
  BY <1>2
<1>4. req.charsOk /\ req.params # "bad" /\ req.servicePath # "bad" /\ req.tenant # "bad" /\ Len(req.body) <= PAYLOAD_MAX_SIZE
  BY <1>1 DEF WellFormed
<1>5. Changes(ci, m, {"inMimeType"}) /\ m.inMimeType = mimeTypeParse(req.contentType)
  BY <1>1, OneField DEF Begun, CiFields
<1>6. /\ IsCi(m) /\ m.req = req /\ m.httpStatusCode = ci.httpStatusCode /\ m.answer = ci.answer /\ m.reply = ci.reply
      /\ m.treat = ci.treat /\ m.payloadSize = ci.payloadSize
  BY <1>1, <1>5 DEF Changes, CiFields
<1>7. urlCheck(ci) = ci /\ servicePathSplit(ci) = ci
  BY <1>1, <1>4 DEF urlCheck, servicePathSplit
<1>8. mediaTypeChecks(ci) = m
  <2>1. ContentTypeOk(ci)
    <3>1. req.body = <<>> \/ req.contentType = "application/json"
      BY <1>1 DEF WellFormed
    <3> QED BY <1>1, <1>3, <3>1 DEF ContentTypeOk, contentLength
  <2>2. wantedOutputSupported(ci) = "JSON"
    BY <1>1 DEF wantedOutputSupported, WellFormed
  <2> QED BY <1>1, <2>1, <2>2 DEF mediaTypeChecks
<1>9. sizeCheck(m) = m
  BY <1>3, <1>4, <1>6, RestAssumption DEF sizeCheck, contentLength
<1>10. ~ PayloadMissing(m)
  BY <1>1, <1>3, <1>6 DEF PayloadMissing, contentLength, WellFormed
<1>11. ci.answer = FALSE /\ ci.httpStatusCode = "SccOk" /\ ci.reply.status = "none" /\ ci.treat = "none"
  BY <1>1, <1>4 DEF Begun
<1>12. LastCall(ci, text) = restService(m, text)
  BY <1>6, <1>7, <1>8, <1>9, <1>10, <1>11 DEF LastCall
<1>13. \/ text = <<>> \/ m.payloadSize = 0
       \/ /\ m.req.method \in {"POST", "PUT", "PATCH"} /\ ~ PayloadOptional(m.req.url)
          /\ m.req.kind = "good" /\ m.inMimeType = "JSON"
  BY <1>1, <1>5, <1>6 DEF WellFormed, mimeTypeParse
<1>14. /\ m.reply.status = "none" /\ m.treat = "none" /\ m.req.url \in Seq(STRING) /\ m.req.method \in Verbs
       /\ m.req.tenant # "bad" /\ Routines(m.req.method, m.req.url) # {} /\ ~ Unreachable(m.req.method, m.req.url)
  BY <1>1, <1>2, <1>4, <1>6, <1>11
<1>15. restService(m, text).treat # "none"
  BY <1>6, <1>13, <1>14, ServedWhenListed
<1> QED BY <1>12, <1>15

-----------------------------------------------------------------------------
(* The buffers.                                                            *)

Buffers(size) == [1 .. size -> Int]
Body == Seq(Int \ {Terminator})

\* The buffer holds the first n units of the body, and a terminator.
Holds(buffer, body, n) == (\A i \in 1 .. n : buffer[i] = body[i]) /\ buffer[n + 1] = Terminator

\* What a buffer that holds the body has for a text.
LEMMA TextIsBody ==
  ASSUME NEW size \in Nat, NEW buffer \in Buffers(size), NEW body \in Body, Len(body) < size,
         Holds(buffer, body, Len(body))
  PROVE  Text(buffer) = body
<1>1. PICK ends, n : ends = {i \in DOMAIN buffer : buffer[i] = Terminator} /\ n = Len(body)
  OBVIOUS
<1>2. n \in Nat /\ DOMAIN buffer = 1 .. size /\ DOMAIN body = 1 .. n
  BY <1>1 DEF Buffers, Body
<1>3. \A i \in 1 .. n : body[i] # Terminator /\ body[i] \in Int
  BY <1>1 DEF Body
<1>4. n + 1 \in ends /\ ends \in SUBSET Nat
  BY <1>1, <1>2 DEF Holds
<1>5. \A i \in ends : n + 1 <= i
  BY <1>1, <1>2, <1>3 DEF Holds
<1>6. Min(ends) \in ends /\ \A y \in ends : Min(ends) <= y
  BY <1>4, LeastOf
<1>7. Min(ends) = n + 1
  <2>1. PICK least : least = Min(ends)
    OBVIOUS
  <2>2. least \in Nat /\ least <= n + 1 /\ n + 1 <= least
    BY <1>4, <1>5, <1>6, <2>1
  <2>3. least = n + 1
    BY <1>2, <2>2
  <2> QED BY <2>1, <2>3
<1>8. Text(buffer) = SubSeq(buffer, 1, n)
  <2>1. Text(buffer) = SubSeq(buffer, 1, Min(ends) - 1)
    BY <1>1, <1>4 DEF Text
  <2>2. Min(ends) - 1 = n
    BY <1>2, <1>7
  <2> QED BY <2>1, <2>2
<1>9. PICK text : text = SubSeq(buffer, 1, n)
  OBVIOUS
<1>10. \A i \in 1 .. n : buffer[i] \in Int /\ buffer[i] = body[i]
  BY <1>1, <1>3 DEF Holds
<1>11. /\ text \in Seq(Int)
       /\ Len(text) = IF 1 <= n THEN n - 1 + 1 ELSE 0
       /\ \A i \in 1 .. n - 1 + 1 : text[i] = buffer[1 + i - 1]
  BY <1>2, <1>9, <1>10, SubSeqProperties
<1>12. Len(text) = Len(body) /\ \A i \in 1 .. Len(text) : text[i] = body[i]
  BY <1>1, <1>2, <1>10, <1>11
<1>13. body \in Seq(Int)
  BY SeqMonotonic DEF Body
<1>14. text = body
  BY <1>11, <1>12, <1>13, SeqEqual
<1> QED BY <1>8, <1>9, <1>14

\* A buffer that begins with something has a text.
LEMMA TextNotEmpty ==
  ASSUME NEW size \in Nat \ {0}, NEW buffer \in Buffers(size), buffer[1] # Terminator
  PROVE  Text(buffer) # <<>>
<1>1. PICK ends : ends = {i \in DOMAIN buffer : buffer[i] = Terminator}
  OBVIOUS
<1>2. DOMAIN buffer = 1 .. size /\ ends \in SUBSET Nat /\ \A i \in ends : i \in Nat /\ i > 1 /\ i <= size
  BY <1>1 DEF Buffers
<1>3. CASE ends = {}
  <2>1. Text(buffer) = buffer
    BY <1>1, <1>3 DEF Text
  <2>2. 1 \in DOMAIN buffer
    BY <1>2
  <2>3. buffer # <<>>
    BY <2>2
  <2> QED BY <2>1, <2>3
<1>4. CASE ends # {}
  <2>1. PICK n : n = Min(ends) - 1
    OBVIOUS
  <2>2. Min(ends) \in ends
    BY <1>2, <1>4, LeastOf
  <2>3. n \in Nat /\ n >= 1 /\ n <= size
    <3>1. PICK least : least = Min(ends)
      OBVIOUS
    <3>2. least \in Nat /\ least > 1 /\ least <= size
      BY <1>2, <2>2, <3>1
    <3> QED BY <2>1, <3>1, <3>2
  <2>4. Text(buffer) = SubSeq(buffer, 1, n)
    BY <1>1, <1>4, <2>1 DEF Text
  <2>5. \A i \in 1 .. n : buffer[i] \in Int
    BY <2>3 DEF Buffers
  <2>6. Len(SubSeq(buffer, 1, n)) = IF 1 <= n THEN n - 1 + 1 ELSE 0
    BY <2>3, <2>5, SubSeqProperties
  <2>7. Len(Text(buffer)) = n
    BY <2>3, <2>4, <2>6
  <2> QED BY <2>3, <2>7
<1> QED BY <1>3, <1>4

\* What copying the next units of the body into the buffer leaves there.
LEMMA Copied ==
  ASSUME NEW size \in Nat, NEW buffer \in Buffers(size), NEW body \in Body,
         NEW at \in Nat, NEW n \in Nat \ {0}, at + n <= Len(body), at + n < size,
         NEW new, new = Copy(buffer, at, SubSeq(body, at + 1, at + n))
  PROVE  /\ new \in Buffers(size)
         /\ at = 0 => new[1] # Terminator
         /\ at # 0 => new[1] = buffer[1]
         /\ at = 0 \/ Holds(buffer, body, at) => Holds(new, body, at + n)
<1>1. PICK units : units = SubSeq(body, at + 1, at + n)
  OBVIOUS
<1>2. body \in Seq(Int \ {Terminator}) /\ Len(body) \in Nat
  BY DEF Body
<1>3. Len(units) = n /\ \A i \in 1 .. n : units[i] = body[at + i]
  BY <1>1, <1>2
<1>4. \A i \in 1 .. Len(body) : body[i] \in Int /\ body[i] # Terminator
  BY <1>2
<1>5. PICK copy : copy = [i \in 1 .. size |-> IF i \in at + 1 .. at + n THEN units[i - at] ELSE buffer[i]]
  OBVIOUS
<1>6. new = [copy EXCEPT ![at + n + 1] = Terminator]
  <2>1. DOMAIN buffer = 1 .. size
    BY DEF Buffers
  <2> QED BY <1>1, <1>3, <1>5, <2>1 DEF Copy, CopyUnterminated
<1>7. /\ \A i \in at + 1 .. at + n : copy[i] = body[i]
      /\ \A i \in 1 .. size : i \notin at + 1 .. at + n => copy[i] = buffer[i]
  <2>1. \A i \in at + 1 .. at + n : i - at \in 1 .. n /\ at + (i - at) = i
    OBVIOUS
  <2>2. \A i \in at + 1 .. at + n : units[i - at] = body[i]
    BY <1>3, <2>1
  <2>3. \A i \in at + 1 .. at + n : i \in 1 .. size
    OBVIOUS
  <2>4. ASSUME NEW i \in at + 1 .. at + n
        PROVE  copy[i] = body[i]
    BY <1>5, <2>2, <2>3
  <2>5. \A i \in 1 .. size : i \notin at + 1 .. at + n => copy[i] = buffer[i]
    BY <1>5
  <2> QED BY <2>4, <2>5
<1>8. copy \in Buffers(size)
  <2>1. \A i \in 1 .. size : copy[i] \in Int
    <3>1. \A i \in 1 .. size : i \in at + 1 .. at + n => i \in 1 .. Len(body)
      BY <1>2
    <3>2. \A i \in 1 .. size : buffer[i] \in Int
      BY DEF Buffers
    <3>3. ASSUME NEW i \in 1 .. size
          PROVE  copy[i] \in Int
      <4>1. CASE i \in at + 1 .. at + n
        BY <1>4, <1>7, <3>1, <4>1
      <4>2. CASE i \notin at + 1 .. at + n
        BY <1>7, <3>2, <4>2
      <4> QED BY <4>1, <4>2
    <3> QED BY <3>3
  <2> QED BY <1>5, <2>1 DEF Buffers
<1>9. new \in Buffers(size)
  <2>1. Terminator \in Int
    BY DEF Terminator
  <2> QED BY <1>6, <1>8, <2>1 DEF Buffers
<1>10. /\ new[at + n + 1] = Terminator
       /\ \A i \in 1 .. size : i # at + n + 1 => new[i] = copy[i]
  BY <1>6, <1>8 DEF Buffers
<1>11. new[1] = copy[1] /\ 1 \in 1 .. size
  BY <1>10
<1>12. at = 0 => new[1] # Terminator
  <2>1. ASSUME at = 0
        PROVE  1 \in at + 1 .. at + n /\ 1 \in 1 .. Len(body)
    BY <1>2, <2>1
  <2>2. ASSUME at = 0
        PROVE  new[1] # Terminator
    <3>1. copy[1] = body[1]
      BY <1>7, <1>11, <2>1, <2>2
    <3>2. body[1] # Terminator
      BY <1>4, <2>1, <2>2
    <3> QED BY <1>11, <3>1, <3>2
  <2> QED BY <2>2
<1>13. at # 0 => new[1] = buffer[1]
  BY <1>7, <1>11
<1>14. ASSUME at = 0 \/ Holds(buffer, body, at)
       PROVE  Holds(new, body, at + n)
  <2>1. \A i \in 1 .. at : buffer[i] = body[i]
    BY <1>14 DEF Holds
  <2>2. \A i \in 1 .. at + n : copy[i] = body[i]
    <3>1. ASSUME NEW i \in 1 .. at + n
          PROVE  copy[i] = body[i]
      <4>1. i \in 1 .. size /\ (i \in 1 .. at \/ i \in at + 1 .. at + n)
        OBVIOUS
      <4>2. i \in 1 .. at => i \notin at + 1 .. at + n
        OBVIOUS
      <4>3. CASE i \in 1 .. at
        BY <1>7, <2>1, <4>1, <4>2, <4>3
      <4>4. CASE i \in at + 1 .. at + n
        BY <1>7, <4>1, <4>4
      <4> QED BY <4>1, <4>3, <4>4
    <3> QED BY <3>1
  <2>3. \A i \in 1 .. at + n : new[i] = copy[i]
    BY <1>10
  <2> QED BY <1>10, <2>2, <2>3 DEF Holds
<1> QED BY <1>9, <1>12, <1>13, <1>14

-----------------------------------------------------------------------------
(* The inductive invariant, for one connection: its ConnectionInfo, its    *)
(* buffer of the heap, the buffer of its thread, and whether it is the     *)
(* only connection of the thread.                                          *)

\* A request that has its reply.
Replied(ci) ==
  /\ ci.received = Len(ci.req.body)
  /\ ci.treat # "none" =>
       /\ ci.treat \in Routines(ci.req.method, ci.req.url)
       /\ Approved(ci.req) /\ ci.req.tenant # "bad"
       /\ ci.req.body # <<>> => ci.req.kind = "good"
  /\ WellFormed(ci.req) /\ Routines(ci.req.method, ci.req.url) # {} /\ ~ Unreachable(ci.req.method, ci.req.url) =>
       ci.treat # "none"
  /\ ci.apiVersion = "v2" /\ ci.treat = "none" =>
       ci.reply.status \notin {"SccOk", "routine"} \/ InvalidSubscription(ci.req)
  /\ ci.reply.status = "SccBadVerb" => ci.reply.allow = AllowedAt(ci.req.url)

\* What connectionTreat() has gathered, and where: not a unit of a body that is
\* too large.
Gathered(ci) ==
  /\ IsCi(ci) /\ ci.req \in Request /\ ci.received \in 0 .. Len(ci.req.body)
  /\ ci.payloadSize = IF Len(ci.req.body) > PAYLOAD_MAX_SIZE THEN 0 ELSE ci.received
  /\ ci.payload = IF ci.payloadSize = 0 THEN "NULL"
                  ELSE IF Len(ci.req.body) > STATIC_BUFFER_SIZE THEN "malloc" ELSE "static_buffer"

OnHeap(ci, mine) ==
  IF ci # NoCi /\ ci.payload = "malloc"
  THEN mine \in Buffers(Len(ci.req.body) + 1) /\ Holds(mine, ci.req.body, ci.payloadSize)
  ELSE mine = <<>>

\* The thread's buffer begins with a unit of some body, and holds this one's if
\* the connection is alone.
InBuffer(ci, buffer, alone) ==
  ci.payload = "static_buffer" =>
    buffer[1] # Terminator /\ (alone => Holds(buffer, ci.req.body, ci.payloadSize))

GotIts(ci, alone) == ci.parsed # <<>> /\ (ci.payload = "malloc" \/ alone) => ci.parsed = ci.req.body

ConnInv(ci, mine, buffer, alone) ==
  /\ OnHeap(ci, mine)
  /\ ci # NoCi =>
       /\ Gathered(ci) /\ InBuffer(ci, buffer, alone)
       /\ ci.reply.status = "none" => Begun(ci)
       /\ ci.reply.status # "none" => Replied(ci) /\ GotIts(ci, alone)

\* A ConnectionInfo is not NULL.
LEMMA NotNoCi ==
  ASSUME NEW ci, IsCi(ci)
  PROVE  ci # NoCi
<1>1. "req" \in DOMAIN ci
  BY DEF IsCi, CiFields
<1> QED BY <1>1 DEF NoCi

\* The first call.
LEMMA ConnBegun ==
  ASSUME NEW req \in Request, NEW buffer, NEW alone
  PROVE  ConnInv(ConnectionInfo(req), <<>>, buffer, alone)
<1>1. PICK ci, new :
        /\ ci = [req |-> req, apiVersion |-> apiVersionGet(req.url), httpStatusCode |-> "SccOk", answer |-> FALSE,
                 payload |-> "NULL", payloadSize |-> 0, inMimeType |-> "JSON", received |-> 0,
                 reply |-> [status |-> "none", allow |-> {}], allow |-> {}, parsed |-> <<>>, treat |-> "none"]
        /\ new = ConnectionInfo(req)
  OBVIOUS
<1>2. new = uriArgumentGet(ci)
  BY <1>1 DEF ConnectionInfo
<1>3. /\ IsCi(ci)
      /\ ci.req = req /\ ci.apiVersion = apiVersionGet(req.url) /\ ci.httpStatusCode = "SccOk" /\ ci.answer = FALSE
      /\ ci.payload = "NULL" /\ ci.payloadSize = 0 /\ ci.received = 0
      /\ ci.reply.status = "none" /\ ci.parsed = <<>> /\ ci.treat = "none"
  BY <1>1 DEF IsCi, CiFields
<1>4. Changes(ci, new, {"httpStatusCode", "answer"})
      /\ IF req.params = "bad" THEN new.answer = TRUE /\ new.httpStatusCode = "SccBadRequest"
         ELSE new.answer = FALSE /\ new.httpStatusCode = "SccOk"
  <2>1. CASE req.params = "bad"
    <3>1. new = Answer(render(Status(ci, "SccBadRequest")))
      BY <1>2, <1>3, <2>1 DEF uriArgumentGet
    <3>2. /\ Changes(ci, new, {"httpStatusCode", "answer"})
          /\ new.answer = TRUE /\ new.httpStatusCode = "SccBadRequest"
      <4>1. PICK code : code = "SccBadRequest"
        OBVIOUS
      <4>2. code # "SccOk"
        BY <4>1
      <4>3. /\ Changes(ci, Answer(render(Status(ci, code))), {"httpStatusCode", "answer"})
            /\ Answer(render(Status(ci, code))).answer = TRUE
            /\ Answer(render(Status(ci, code))).httpStatusCode = code
        BY <1>3, <4>2, RenderedWithCode
      <4> QED BY <3>1, <4>1, <4>3
    <3> QED BY <2>1, <3>2
  <2>2. CASE req.params # "bad"
    <3>1. new = ci
      BY <1>2, <1>3, <2>2 DEF uriArgumentGet
    <3>2. Changes(ci, ci, {"httpStatusCode", "answer"})
      BY <1>3 DEF Changes
    <3> QED BY <1>3, <2>2, <3>1, <3>2
  <2> QED BY <2>1, <2>2
<1>5. /\ IsCi(new)
      /\ new.req = ci.req /\ new.apiVersion = ci.apiVersion /\ new.payload = ci.payload /\ new.payloadSize = ci.payloadSize
      /\ new.received = ci.received /\ new.reply = ci.reply /\ new.parsed = ci.parsed /\ new.treat = ci.treat
  BY <1>4 DEF Changes, CiFields
<1>6. Begun(new)
  BY <1>3, <1>4, <1>5 DEF Begun
<1>7. Len(req.body) \in Nat
  BY DEF Request
<1>8. Gathered(new)
  BY <1>3, <1>5, <1>7, RestAssumption DEF Gathered
<1>9. new.payload = "NULL" /\ new.reply.status = "none"
  BY <1>3, <1>5
<1>10. OnHeap(new, <<>>) /\ InBuffer(new, buffer, alone)
  BY <1>9 DEF OnHeap, InBuffer
<1> QED BY <1>1, <1>6, <1>8, <1>9, <1>10 DEF ConnInv

\* A piece of a body changes nothing that the last call looks at first.
LEMMA BegunKept ==
  ASSUME NEW ci, Begun(ci), NEW new, Changes(ci, new, {"received", "payload", "payloadSize"})
  PROVE  Begun(new)
<1>1. /\ IsCi(new)
      /\ new.req = ci.req /\ new.apiVersion = ci.apiVersion /\ new.httpStatusCode = ci.httpStatusCode
      /\ new.answer = ci.answer /\ new.reply = ci.reply /\ new.parsed = ci.parsed /\ new.treat = ci.treat
  BY DEF Changes, CiFields
<1> QED BY <1>1 DEF Begun

\* The last call.
LEMMA ConnServed ==
  ASSUME NEW ci, NEW mine, NEW buffer \in Buffers(STATIC_BUFFER_SIZE + 1), NEW alone \in BOOLEAN,
         ConnInv(ci, mine, buffer, alone), ci # NoCi, ci.received = Len(ci.req.body), ci.reply.status = "none",
         NEW text,
         text = IF ci.payload = "NULL" THEN <<>> ELSE Text(IF ci.payload = "static_buffer" THEN buffer ELSE mine)
  PROVE  ConnInv(LastCall(ci, text), mine, buffer, alone)
<1>1. Gathered(ci) /\ Begun(ci) /\ OnHeap(ci, mine) /\ InBuffer(ci, buffer, alone)
  BY DEF ConnInv
<1>2. PICK new, body : new = LastCall(ci, text) /\ body = ci.req.body
  OBVIOUS
<1>3. body \in Body /\ Len(body) \in Nat /\ (Len(body) = 0 <=> body = <<>>)
  BY <1>1, <1>2 DEF Gathered, Request, Body
<1>4. /\ Changes(ci, new, ServiceFields) /\ new.parsed \in {<<>>, text} /\ new.reply.status # "none"
      /\ new.treat # "none" =>
           /\ ci.req.tenant # "bad" /\ Approved(ci.req)
           /\ new.treat \in Routines(ci.req.method, ci.req.url)
           /\ text = <<>> \/ ci.payloadSize = 0 \/ ci.req.kind = "good"
      /\ ci.apiVersion = "v2" /\ new.treat = "none" =>
           new.reply.status \notin {"SccOk", "routine"} \/ InvalidSubscription(ci.req)
      /\ new.reply.status = "SccBadVerb" => new.reply.allow = AllowedAt(ci.req.url)
  <2>1. Outcome(ci, new, text)
    BY <1>1, <1>2, LastReply
  <2>2. ci.parsed = <<>>
    BY <1>1 DEF Begun
  <2> QED BY <2>1, <2>2 DEF Outcome, ServiceOutcome
<1>5. /\ IsCi(new) /\ new.req = ci.req /\ new.apiVersion = ci.apiVersion /\ new.payload = ci.payload
      /\ new.payloadSize = ci.payloadSize /\ new.received = ci.received
  BY <1>4 DEF Changes, CiFields, ServiceFields, CheckFields
<1>6. body = <<>> => ci.payloadSize = 0
  BY <1>1, <1>2, <1>3 DEF Gathered
<1>7. ci.payload # "NULL" => ci.payloadSize = Len(body)
  BY <1>1, <1>2 DEF Gathered
<1>8. ci.payload = "malloc" => text = body
  <2>1. ASSUME ci.payload = "malloc"
        PROVE  mine \in Buffers(Len(body) + 1) /\ Holds(mine, body, Len(body)) /\ text = Text(mine)
    BY <1>1, <1>2, <1>7, <2>1 DEF OnHeap
  <2>2. Len(body) + 1 \in Nat /\ Len(body) < Len(body) + 1
    BY <1>3
  <2> QED BY <1>3, <2>1, <2>2, TextIsBody
<1>9. STATIC_BUFFER_SIZE + 1 \in Nat \ {0}
  BY RestAssumption
<1>10. ci.payload = "static_buffer" => text # <<>> /\ (alone => text = body)
  <2>1. ASSUME ci.payload = "static_buffer"
        PROVE  /\ text = Text(buffer) /\ buffer[1] # Terminator /\ Len(body) < STATIC_BUFFER_SIZE + 1
               /\ alone => Holds(buffer, body, Len(body))
    <3>1. ~ (Len(body) > STATIC_BUFFER_SIZE)
      BY <1>1, <1>2, <2>1 DEF Gathered
    <3>2. Len(body) < STATIC_BUFFER_SIZE + 1
      BY <1>3, <3>1, RestAssumption
    <3> QED BY <1>1, <1>2, <1>7, <2>1, <3>2 DEF InBuffer
  <2>2. ci.payload = "static_buffer" => text # <<>>
    BY <1>9, <2>1, TextNotEmpty
  <2>3. ci.payload = "static_buffer" /\ alone => text = body
    BY <1>3, <1>9, <2>1, TextIsBody
  <2> QED BY <2>2, <2>3
<1>11. ci.payload = "NULL" => text = <<>>
  OBVIOUS
<1>12. ci.payload \in {"NULL", "malloc", "static_buffer"}
  BY <1>1 DEF Gathered
<1>13. GotIts(new, alone)
  BY <1>2, <1>4, <1>5, <1>8, <1>10, <1>11, <1>12 DEF GotIts
<1>14. ASSUME Approved(ci.req), text = <<>> \/ ci.payloadSize = 0, body # <<>>
       PROVE  FALSE
  <2>1. ci.payloadSize # 0 /\ ci.payload # "NULL"
    BY <1>1, <1>2, <1>3, <1>14, RestAssumption DEF Approved, Gathered
  <2> QED BY <1>8, <1>10, <1>12, <1>14, <2>1
<1>15. WellFormed(ci.req) /\ Routines(ci.req.method, ci.req.url) # {} /\ ~ Unreachable(ci.req.method, ci.req.url) =>
         new.treat # "none"
  BY <1>1, <1>2, <1>6, WellFormedServed
<1>16. Replied(new)
  BY <1>2, <1>4, <1>5, <1>14, <1>15 DEF Replied
<1>17. Gathered(new)
  BY <1>1, <1>5 DEF Gathered
<1>18. OnHeap(new, mine) /\ InBuffer(new, buffer, alone)
  <2>1. new # NoCi
    BY <1>5, NotNoCi
  <2> QED BY <1>1, <1>5, <2>1 DEF OnHeap, InBuffer
<1> QED BY <1>2, <1>4, <1>13, <1>16, <1>17, <1>18 DEF ConnInv

\* A piece of a body that is too large.
LEMMA ConnTooLarge ==
  ASSUME NEW ci, NEW mine, NEW buffer, NEW alone,
         ConnInv(ci, mine, buffer, alone), ci # NoCi, NEW n \in 1 .. Len(ci.req.body) - ci.received,
         Len(ci.req.body) > PAYLOAD_MAX_SIZE,
         NEW new, new = [ci EXCEPT !.received = @ + n]
  PROVE  ConnInv(new, mine, buffer, alone)
<1>1. Gathered(ci) /\ OnHeap(ci, mine)
  BY DEF ConnInv
<1>2. IsCi(ci) /\ Len(ci.req.body) \in Nat /\ ci.received \in 0 .. Len(ci.req.body)
  BY <1>1 DEF Gathered, Request
<1>3. ci.received # Len(ci.req.body) /\ ci.received + n \in 0 .. Len(ci.req.body)
  BY <1>2
<1>4. ci.reply.status = "none" /\ Begun(ci)
  BY <1>3 DEF ConnInv, Replied
<1>5. Changes(ci, new, {"received"}) /\ new.received = ci.received + n
  BY <1>2, OneField DEF CiFields
<1>6. /\ IsCi(new) /\ new.req = ci.req /\ new.payload = ci.payload /\ new.payloadSize = ci.payloadSize /\ new.reply = ci.reply
      /\ Changes(ci, new, {"received", "payload", "payloadSize"})
  BY <1>5 DEF Changes, CiFields
<1>7. Begun(new)
  BY <1>4, <1>6, BegunKept
<1>8. ci.payloadSize = 0 /\ ci.payload = "NULL"
  BY <1>1 DEF Gathered
<1>9. Gathered(new)
  BY <1>1, <1>3, <1>5, <1>6, <1>8 DEF Gathered
<1>10. OnHeap(new, mine) /\ InBuffer(new, buffer, alone)
  BY <1>1, <1>6, <1>8 DEF OnHeap, InBuffer
<1> QED BY <1>4, <1>6, <1>7, <1>9, <1>10 DEF ConnInv

\* A piece of a body that is gathered, and what it makes of the ConnectionInfo.
Piece(ci, n, payload, new) ==
  /\ ~ (Len(ci.req.body) > PAYLOAD_MAX_SIZE)
  /\ payload = IF ci.payloadSize # 0 THEN ci.payload
               ELSE IF Len(ci.req.body) > STATIC_BUFFER_SIZE THEN "malloc" ELSE "static_buffer"
  /\ new = [ci EXCEPT !.received = @ + n, !.payload = payload, !.payloadSize = @ + n]

AfterPiece(ci, n, payload, new) ==
  /\ Gathered(new) /\ Begun(new) /\ new # NoCi /\ new.reply.status = "none"
  /\ new.req = ci.req /\ new.payload = payload /\ new.payloadSize = ci.payloadSize + n
  /\ payload = IF Len(ci.req.body) > STATIC_BUFFER_SIZE THEN "malloc" ELSE "static_buffer"
  /\ ci.payload = IF ci.payloadSize = 0 THEN "NULL" ELSE payload
  /\ ci.payloadSize \in Nat /\ ci.payloadSize + n \in Nat \ {0} /\ ci.payloadSize + n <= Len(ci.req.body)
  /\ ci.req.body \in Body /\ Len(ci.req.body) \in Nat

\* A piece of a body that is gathered: the ConnectionInfo.
LEMMA PieceGathered ==
  ASSUME NEW ci, Gathered(ci), ci.reply.status = "none" => Begun(ci),
         ci.reply.status # "none" => Replied(ci),
         NEW n \in 1 .. Len(ci.req.body) - ci.received, NEW payload, NEW new, Piece(ci, n, payload, new)
  PROVE  AfterPiece(ci, n, payload, new)
<1>1. IsCi(ci) /\ ci.req.body \in Body /\ Len(ci.req.body) \in Nat /\ ci.received \in 0 .. Len(ci.req.body)
  BY DEF Gathered, Request, Body
<1>2. ci.received # Len(ci.req.body) /\ ci.received + n \in 0 .. Len(ci.req.body) /\ ci.received + n # 0
  BY <1>1
<1>3. ci.reply.status = "none" /\ Begun(ci)
  BY <1>2 DEF Replied
<1>4. ci.payloadSize = ci.received
  BY DEF Gathered, Piece
<1>5. /\ Changes(ci, new, {"received", "payload", "payloadSize"})
      /\ new.received = ci.received + n /\ new.payload = payload /\ new.payloadSize = ci.payloadSize + n
  BY <1>1 DEF IsCi, Changes, CiFields, Piece
<1>6. IsCi(new) /\ new.req = ci.req /\ new.reply = ci.reply
  BY <1>5 DEF Changes, CiFields
<1>7. payload = IF Len(ci.req.body) > STATIC_BUFFER_SIZE THEN "malloc" ELSE "static_buffer"
  BY DEF Gathered, Piece
<1>8. ci.payload = IF ci.payloadSize = 0 THEN "NULL" ELSE payload
  BY DEF Gathered, Piece
<1>9. new.payloadSize = new.received /\ new.payloadSize # 0
  BY <1>2, <1>4, <1>5
<1>10. Gathered(new)
  BY <1>2, <1>5, <1>6, <1>7, <1>9 DEF Gathered, Piece
<1>11. Begun(new) /\ new # NoCi
  BY <1>3, <1>5, <1>6, BegunKept, NotNoCi
<1>12. ci.payloadSize \in Nat /\ ci.payloadSize + n \in Nat \ {0} /\ ci.payloadSize + n <= Len(ci.req.body)
  BY <1>1, <1>2, <1>4
<1> QED BY <1>1, <1>3, <1>5, <1>6, <1>7, <1>8, <1>10, <1>11, <1>12 DEF AfterPiece

\* A piece of a body that is gathered on the heap.
LEMMA ConnOnHeap ==
  ASSUME NEW ci, NEW mine, NEW buffer, NEW alone,
         ConnInv(ci, mine, buffer, alone), ci # NoCi,
         NEW n \in 1 .. Len(ci.req.body) - ci.received, NEW payload, NEW new, Piece(ci, n, payload, new),
         payload = "malloc",
         NEW copy,
         copy = Copy(IF ci.payloadSize = 0 THEN malloc(Len(ci.req.body) + 1) ELSE mine, ci.payloadSize,
                     SubSeq(ci.req.body, ci.received + 1, ci.received + n))
  PROVE  ConnInv(new, copy, buffer, alone)
<1>1. /\ Gathered(ci) /\ OnHeap(ci, mine) /\ (ci.reply.status = "none" => Begun(ci))
      /\ (ci.reply.status # "none" => Replied(ci))
  BY DEF ConnInv
<1>2. /\ Gathered(new) /\ Begun(new) /\ new # NoCi /\ new.reply.status = "none"
      /\ new.req = ci.req /\ new.payload = payload /\ new.payloadSize = ci.payloadSize + n
      /\ payload = IF Len(ci.req.body) > STATIC_BUFFER_SIZE THEN "malloc" ELSE "static_buffer"
      /\ ci.payload = IF ci.payloadSize = 0 THEN "NULL" ELSE payload
      /\ ci.payloadSize \in Nat /\ ci.payloadSize + n \in Nat \ {0} /\ ci.payloadSize + n <= Len(ci.req.body)
      /\ ci.req.body \in Body /\ Len(ci.req.body) \in Nat
  BY <1>1, PieceGathered DEF AfterPiece
<1>3. PICK at, size, body, old :
        /\ at = ci.payloadSize /\ size = Len(ci.req.body) + 1 /\ body = ci.req.body
        /\ old = IF ci.payloadSize = 0 THEN malloc(Len(ci.req.body) + 1) ELSE mine
  OBVIOUS
<1>4. ci.received = at
  BY <1>1, <1>3 DEF Gathered, Piece
<1>5. size \in Nat /\ at \in Nat /\ n \in Nat \ {0} /\ at + n <= Len(body) /\ at + n < size /\ body \in Body
  BY <1>2, <1>3
<1>6. old \in Buffers(size) /\ (at = 0 \/ Holds(old, body, at))
  <2>1. CASE at = 0
    <3>1. old = [i \in 1 .. size |-> Junk]
      BY <1>3, <2>1 DEF malloc
    <3>2. Junk \in Int
      BY DEF Junk
    <3> QED BY <2>1, <3>1, <3>2 DEF Buffers
  <2>2. CASE at # 0
    <3>1. old = mine /\ ci.payload = "malloc"
      BY <1>2, <1>3, <2>2
    <3> QED BY <1>1, <1>3, <3>1 DEF OnHeap
  <2> QED BY <2>1, <2>2
<1>7. copy = Copy(old, at, SubSeq(body, at + 1, at + n))
  BY <1>3, <1>4
<1>8. /\ copy \in Buffers(size)
      /\ at = 0 => copy[1] # Terminator
      /\ at # 0 => copy[1] = old[1]
      /\ at = 0 \/ Holds(old, body, at) => Holds(copy, body, at + n)
  BY <1>5, <1>6, <1>7, Copied
<1>9. OnHeap(new, copy)
  BY <1>2, <1>3, <1>6, <1>8 DEF OnHeap
<1>10. InBuffer(new, buffer, alone)
  BY <1>2 DEF InBuffer
<1> QED BY <1>2, <1>9, <1>10 DEF ConnInv

\* A piece of a body that is gathered in the thread's buffer.
LEMMA ConnInStaticBuffer ==
  ASSUME NEW ci, NEW mine, NEW buffer \in Buffers(STATIC_BUFFER_SIZE + 1), NEW alone \in BOOLEAN,
         ConnInv(ci, mine, buffer, alone), ci # NoCi,
         NEW n \in 1 .. Len(ci.req.body) - ci.received, NEW payload, NEW new, Piece(ci, n, payload, new),
         payload # "malloc",
         NEW copy,
         copy = Copy(buffer, ci.payloadSize, SubSeq(ci.req.body, ci.received + 1, ci.received + n))
  PROVE  /\ ConnInv(new, mine, copy, alone)
         /\ copy \in Buffers(STATIC_BUFFER_SIZE + 1)
         /\ copy[1] # Terminator
<1>1. /\ Gathered(ci) /\ OnHeap(ci, mine) /\ InBuffer(ci, buffer, alone) /\ (ci.reply.status = "none" => Begun(ci))
      /\ (ci.reply.status # "none" => Replied(ci))
  BY DEF ConnInv
<1>2. /\ Gathered(new) /\ Begun(new) /\ new # NoCi /\ new.reply.status = "none"
      /\ new.req = ci.req /\ new.payload = payload /\ new.payloadSize = ci.payloadSize + n
      /\ payload = IF Len(ci.req.body) > STATIC_BUFFER_SIZE THEN "malloc" ELSE "static_buffer"
      /\ ci.payload = IF ci.payloadSize = 0 THEN "NULL" ELSE payload
      /\ ci.payloadSize \in Nat /\ ci.payloadSize + n \in Nat \ {0} /\ ci.payloadSize + n <= Len(ci.req.body)
      /\ ci.req.body \in Body /\ Len(ci.req.body) \in Nat
  BY <1>1, PieceGathered DEF AfterPiece
<1>3. PICK at, size, body : at = ci.payloadSize /\ size = STATIC_BUFFER_SIZE + 1 /\ body = ci.req.body
  OBVIOUS
<1>4. ci.received = at
  BY <1>1, <1>3 DEF Gathered, Piece
<1>5. payload = "static_buffer" /\ ~ (Len(body) > STATIC_BUFFER_SIZE)
  BY <1>2, <1>3
<1>6. size \in Nat /\ at \in Nat /\ n \in Nat \ {0} /\ at + n <= Len(body) /\ at + n < size /\ body \in Body
  BY <1>2, <1>3, <1>5, RestAssumption
<1>7. copy = Copy(buffer, at, SubSeq(body, at + 1, at + n))
  BY <1>3, <1>4
<1>8. /\ copy \in Buffers(size)
      /\ at = 0 => copy[1] # Terminator
      /\ at # 0 => copy[1] = buffer[1]
      /\ at = 0 \/ Holds(buffer, body, at) => Holds(copy, body, at + n)
  BY <1>3, <1>6, <1>7, Copied
<1>9. at # 0 => ci.payload = "static_buffer"
  BY <1>2, <1>3, <1>5
<1>10. at = 0 \/ (buffer[1] # Terminator /\ (alone => Holds(buffer, body, at)))
  BY <1>1, <1>3, <1>9 DEF InBuffer
<1>11. copy[1] # Terminator
  BY <1>8, <1>10
<1>12. alone => Holds(copy, body, at + n)
  BY <1>8, <1>10
<1>13. InBuffer(new, copy, alone)
  BY <1>2, <1>3, <1>11, <1>12 DEF InBuffer
<1>14. OnHeap(new, mine)
  <2>1. ci.payload # "malloc"
    BY <1>2, <1>5
  <2> QED BY <1>1, <1>2, <1>5, <2>1 DEF OnHeap
<1> QED BY <1>2, <1>3, <1>8, <1>11, <1>13, <1>14 DEF ConnInv

-----------------------------------------------------------------------------
(* The inductive invariant, and every step.                                *)

Alone(c) == \A d \in Connections \ {c} : thread[d] # thread[c]

Shapes ==
  /\ queue \in [Connections -> Seq(Request)] /\ thread \in [Connections -> Threads]
  /\ ciP = [c \in Connections |-> ciP[c]] /\ heap = [c \in Connections |-> heap[c]]
  /\ static_buffer \in [Threads -> Buffers(STATIC_BUFFER_SIZE + 1)]

RestInv ==
  /\ Shapes
  /\ \A c \in Connections : ConnInv(ciP[c], heap[c], static_buffer[thread[c]], Alone(c))

\* It holds at first.
LEMMA RestInit == Init => RestInv
<1> SUFFICES ASSUME Init
             PROVE  RestInv
  OBVIOUS
<1>1. queue \in [Connections -> Seq(Request)]
  BY RestAssumption DEF Init
<1>2. static_buffer \in [Threads -> Buffers(STATIC_BUFFER_SIZE + 1)]
  <2>1. Terminator \in Int
    BY DEF Terminator
  <2>2. [i \in 1 .. STATIC_BUFFER_SIZE + 1 |-> Terminator] \in Buffers(STATIC_BUFFER_SIZE + 1)
    BY <2>1 DEF Buffers
  <2> QED BY <2>2 DEF Init
<1>3. Shapes
  BY <1>1, <1>2 DEF Init, Shapes
<1>4. ASSUME NEW c \in Connections
      PROVE  ConnInv(ciP[c], heap[c], static_buffer[thread[c]], Alone(c))
  <2>1. ciP[c] = NoCi /\ heap[c] = <<>>
    BY DEF Init
  <2> QED BY <2>1 DEF ConnInv, OnHeap
<1> QED BY <1>3, <1>4 DEF RestInv

\* A step of one connection that leaves the threads' buffers alone.
LEMMA OneConnection ==
  ASSUME RestInv, NEW c \in Connections, NEW new, NEW mine,
         ciP' = [ciP EXCEPT ![c] = new], heap' = [heap EXCEPT ![c] = mine], UNCHANGED <<thread, static_buffer>>,
         queue' \in [Connections -> Seq(Request)],
         ConnInv(new, mine, static_buffer[thread[c]], Alone(c))
  PROVE  RestInv'
<1>1. Shapes
  BY DEF RestInv
<1>2. Shapes'
  BY <1>1 DEF Shapes
<1>3. ASSUME NEW d \in Connections
      PROVE  ConnInv(ciP[d], heap[d], static_buffer[thread[d]], Alone(d))'
  <2>1. Alone(d)' = Alone(d) /\ static_buffer'[thread'[d]] = static_buffer[thread[d]]
    BY DEF Alone
  <2>2. ConnInv(ciP'[d], heap'[d], static_buffer[thread[d]], Alone(d))
    <3>1. CASE d = c
      <4>1. ciP'[d] = new /\ heap'[d] = mine
        BY <1>1, <3>1 DEF Shapes
      <4> QED BY <3>1, <4>1
    <3>2. CASE d # c
      <4>1. ciP'[d] = ciP[d] /\ heap'[d] = heap[d]
        BY <1>1, <3>2 DEF Shapes
      <4>2. ConnInv(ciP[d], heap[d], static_buffer[thread[d]], Alone(d))
        BY DEF RestInv
      <4> QED BY <4>1, <4>2
    <3> QED BY <3>1, <3>2
  <2> QED BY <2>1, <2>2
<1> QED BY <1>2, <1>3 DEF RestInv

\* A step that writes the buffer of the connection's thread.
LEMMA OneBuffer ==
  ASSUME RestInv, NEW c \in Connections, NEW new, NEW copy \in Buffers(STATIC_BUFFER_SIZE + 1),
         ciP' = [ciP EXCEPT ![c] = new], static_buffer' = [static_buffer EXCEPT ![thread[c]] = copy],
         UNCHANGED <<queue, thread, heap>>,
         ConnInv(new, heap[c], copy, Alone(c)), copy[1] # Terminator
  PROVE  RestInv'
<1>1. Shapes
  BY DEF RestInv
<1>2. Shapes'
  BY <1>1 DEF Shapes
<1>3. ASSUME NEW d \in Connections
      PROVE  ConnInv(ciP[d], heap[d], static_buffer[thread[d]], Alone(d))'
  <2>1. Alone(d)' = Alone(d) /\ thread'[d] = thread[d] /\ heap'[d] = heap[d] /\ thread[c] \in Threads /\ thread[d] \in Threads
    BY <1>1 DEF Alone, Shapes
  <2>2. ConnInv(ciP[d], heap[d], static_buffer[thread[d]], Alone(d))
    BY DEF RestInv
  <2>3. CASE d = c
    <3>1. ciP'[d] = new /\ static_buffer'[thread[d]] = copy
      BY <1>1, <2>1, <2>3 DEF Shapes
    <3> QED BY <2>1, <2>3, <3>1
  <2>4. CASE d # c /\ thread[d] # thread[c]
    <3>1. ciP'[d] = ciP[d] /\ static_buffer'[thread[d]] = static_buffer[thread[d]]
      BY <1>1, <2>1, <2>4 DEF Shapes
    <3> QED BY <2>1, <2>2, <3>1
  <2>5. CASE d # c /\ thread[d] = thread[c]
    <3>1. ciP'[d] = ciP[d] /\ static_buffer'[thread[d]] = copy
      BY <1>1, <2>1, <2>5 DEF Shapes
    <3>2. ~ Alone(d)
      BY <2>5 DEF Alone
    <3>3. ciP[d] # NoCi => InBuffer(ciP[d], copy, Alone(d))
      BY <3>2 DEF InBuffer
    <3>4. ConnInv(ciP[d], heap[d], copy, Alone(d))
      BY <2>2, <3>3 DEF ConnInv
    <3> QED BY <2>1, <3>1, <3>4
  <2> QED BY <2>3, <2>4, <2>5
<1> QED BY <1>2, <1>3 DEF RestInv

\* A call with a piece of the body keeps it.
LEMMA RestData ==
  ASSUME RestInv, NEW c \in Connections, DataGathering(c)
  PROVE  RestInv'
<1>1. Shapes
  BY DEF RestInv
<1>2. PICK ci, mine, buffer : ci = ciP[c] /\ mine = heap[c] /\ buffer = static_buffer[thread[c]]
  OBVIOUS
<1>3. ConnInv(ci, mine, buffer, Alone(c)) /\ ci # NoCi /\ Alone(c) \in BOOLEAN
  BY <1>2 DEF RestInv, DataGathering, Alone
<1>4. buffer \in Buffers(STATIC_BUFFER_SIZE + 1)
  BY <1>1, <1>2 DEF Shapes
<1>5. PICK n \in 1 .. Len(ci.req.body) - ci.received : DataCall(c, n)
  BY <1>2 DEF DataGathering, contentLength
<1>6. queue' = queue /\ thread' = thread
  BY DEF DataGathering
<1>7. CASE Len(ci.req.body) > PAYLOAD_MAX_SIZE
  <2>1. PICK new : new = [ci EXCEPT !.received = @ + n]
    OBVIOUS
  <2>2. ciP' = [ciP EXCEPT ![c].received = @ + n] /\ static_buffer' = static_buffer /\ heap' = heap
    BY <1>2, <1>5, <1>7 DEF DataCall, contentLength
  <2>3. ciP' = [ciP EXCEPT ![c] = new]
    BY <1>2, <2>1, <2>2
  <2>4. heap' = [heap EXCEPT ![c] = mine]
    BY <1>1, <1>2, <2>2 DEF Shapes
  <2>5. ConnInv(new, mine, buffer, Alone(c))
    BY <1>3, <1>5, <1>7, <2>1, ConnTooLarge
  <2>6. queue' \in [Connections -> Seq(Request)]
    BY <1>1, <1>6 DEF Shapes
  <2> QED BY <1>2, <1>6, <2>2, <2>3, <2>4, <2>5, <2>6, OneConnection
<1>8. CASE ~ (Len(ci.req.body) > PAYLOAD_MAX_SIZE)
  <2>1. PICK payload, units, new :
          /\ payload = IF ci.payloadSize # 0 THEN ci.payload
                       ELSE IF Len(ci.req.body) > STATIC_BUFFER_SIZE THEN "malloc" ELSE "static_buffer"
          /\ units = SubSeq(ci.req.body, ci.received + 1, ci.received + n)
          /\ new = [ci EXCEPT !.received = @ + n, !.payload = payload, !.payloadSize = @ + n]
    OBVIOUS
  <2>2. /\ ciP' = [ciP EXCEPT ![c].received = @ + n, ![c].payload = payload, ![c].payloadSize = @ + n]
        /\ IF payload = "malloc"
           THEN /\ heap' = [heap EXCEPT ![c] = Copy(IF ci.payloadSize = 0 THEN malloc(contentLength(ci) + 1) ELSE @,
                                                    ci.payloadSize, units)]
                /\ UNCHANGED static_buffer
           ELSE /\ static_buffer' = [static_buffer EXCEPT ![thread[c]] = Copy(@, ci.payloadSize, units)]
                /\ UNCHANGED heap
    BY <1>2, <1>5, <1>8, <2>1 DEF DataCall, contentLength
  <2>3. ciP' = [ciP EXCEPT ![c] = new]
    <3>1. c \in DOMAIN ciP
      BY <1>1 DEF Shapes
    <3> QED BY <1>2, <2>1, <2>2, <3>1
  <2>4. Piece(ci, n, payload, new)
    BY <1>8, <2>1 DEF Piece
  <2>5. queue' \in [Connections -> Seq(Request)]
    BY <1>1, <1>6 DEF Shapes
  <2>6. CASE payload = "malloc"
    <3>1. PICK copy : copy = Copy(IF ci.payloadSize = 0 THEN malloc(Len(ci.req.body) + 1) ELSE mine, ci.payloadSize,
                                  SubSeq(ci.req.body, ci.received + 1, ci.received + n))
      OBVIOUS
    <3>2. ConnInv(new, copy, buffer, Alone(c))
      BY <1>3, <1>5, <2>4, <2>6, <3>1, ConnOnHeap
    <3>3. heap' = [heap EXCEPT ![c] = copy] /\ static_buffer' = static_buffer
      BY <1>2, <2>1, <2>2, <2>6, <3>1 DEF contentLength
    <3> QED BY <1>2, <1>6, <2>3, <2>5, <3>2, <3>3, OneConnection
  <2>7. CASE payload # "malloc"
    <3>1. PICK copy : copy = Copy(buffer, ci.payloadSize, SubSeq(ci.req.body, ci.received + 1, ci.received + n))
      OBVIOUS
    <3>2. /\ ConnInv(new, mine, copy, Alone(c))
          /\ copy \in Buffers(STATIC_BUFFER_SIZE + 1)
          /\ copy[1] # Terminator
      BY <1>3, <1>4, <1>5, <2>4, <2>7, <3>1, ConnInStaticBuffer
    <3>3. static_buffer' = [static_buffer EXCEPT ![thread[c]] = copy] /\ heap' = heap
      BY <1>2, <2>1, <2>2, <2>7, <3>1
    <3> QED BY <1>2, <1>6, <2>3, <3>2, <3>3, OneBuffer
  <2> QED BY <2>6, <2>7
<1> QED BY <1>7, <1>8

\* Every step keeps it.
LEMMA RestNext == RestInv /\ [Next]_vars => RestInv'
<1> SUFFICES ASSUME RestInv, [Next]_vars
             PROVE  RestInv'
  OBVIOUS
<1>1. Shapes
  BY DEF RestInv
<1>2. ASSUME NEW c \in Connections, FirstCall(c)
      PROVE  RestInv'
  <2>1. PICK req, new : req = Head(queue[c]) /\ new = ConnectionInfo(req)
    OBVIOUS
  <2>2. queue[c] \in Seq(Request) /\ queue[c] # <<>>
    BY <1>1, <1>2 DEF FirstCall, Shapes
  <2>3. req \in Request /\ Tail(queue[c]) \in Seq(Request)
    BY <2>1, <2>2, HeadTailProperties
  <2>4. ConnInv(new, <<>>, static_buffer[thread[c]], Alone(c))
    BY <2>1, <2>3, ConnBegun
  <2>5. ciP' = [ciP EXCEPT ![c] = new] /\ thread' = thread /\ static_buffer' = static_buffer /\ heap' = heap
    BY <1>2, <2>1 DEF FirstCall
  <2>6. ciP[c] = NoCi /\ OnHeap(ciP[c], heap[c])
    BY <1>2 DEF FirstCall, RestInv, ConnInv
  <2>7. heap[c] = <<>>
    BY <2>6 DEF OnHeap
  <2>8. heap' = [heap EXCEPT ![c] = <<>>]
    BY <1>1, <2>5, <2>7 DEF Shapes
  <2>9. queue' \in [Connections -> Seq(Request)]
    BY <1>1, <1>2, <2>3 DEF FirstCall, Shapes
  <2> QED BY <2>4, <2>5, <2>8, <2>9, OneConnection
<1>3. ASSUME NEW c \in Connections, DataGathering(c)
      PROVE  RestInv'
  BY <1>3, RestData
<1>4. ASSUME NEW c \in Connections, Serve(c)
      PROVE  RestInv'
  <2>1. PICK ci, mine, buffer : ci = ciP[c] /\ mine = heap[c] /\ buffer = static_buffer[thread[c]]
    OBVIOUS
  <2>2. PICK text : text = IF ci.payload = "NULL" THEN <<>>
                           ELSE Text(IF ci.payload = "static_buffer" THEN buffer ELSE mine)
    OBVIOUS
  <2>3. ConnInv(ci, mine, buffer, Alone(c)) /\ Alone(c) \in BOOLEAN /\ buffer \in Buffers(STATIC_BUFFER_SIZE + 1)
    BY <1>1, <2>1 DEF RestInv, Alone, Shapes
  <2>4. ci # NoCi /\ ci.received = Len(ci.req.body) /\ ci.reply.status = "none"
    BY <1>4, <2>1 DEF Serve, contentLength
  <2>5. ConnInv(LastCall(ci, text), mine, buffer, Alone(c))
    BY <2>2, <2>3, <2>4, ConnServed
  <2>6. ciP' = [ciP EXCEPT ![c] = LastCall(ci, text)]
    <3>1. ciP' = [ciP EXCEPT ![c] = LastCall(ciP[c], IF ciP[c].payload = "NULL" THEN <<>> ELSE Text(Buffer(c)))]
      BY <1>4 DEF Serve
    <3>2. Buffer(c) = IF ci.payload = "static_buffer" THEN buffer ELSE mine
      BY <2>1 DEF Buffer
    <3> QED BY <2>1, <2>2, <3>1, <3>2
  <2>7. queue' = queue /\ thread' = thread /\ static_buffer' = static_buffer /\ heap' = heap
    BY <1>4 DEF Serve
  <2>8. heap' = [heap EXCEPT ![c] = mine] /\ queue' \in [Connections -> Seq(Request)]
    BY <1>1, <2>1, <2>7 DEF Shapes
  <2> QED BY <2>1, <2>5, <2>6, <2>7, <2>8, OneConnection
<1>5. ASSUME NEW c \in Connections, requestCompleted(c), ciP[c] # NoCi, queue' \in [Connections -> Seq(Request)]
      PROVE  RestInv'
  <2>1. ConnInv(NoCi, <<>>, static_buffer[thread[c]], Alone(c))
    BY DEF ConnInv, OnHeap
  <2>2. OnHeap(ciP[c], heap[c])
    BY DEF RestInv, ConnInv
  <2>3. ciP[c].payload = "malloc" \/ heap[c] = <<>>
    BY <1>5, <2>2 DEF OnHeap
  <2>4. ciP' = [ciP EXCEPT ![c] = NoCi] /\ thread' = thread /\ static_buffer' = static_buffer
    BY <1>5 DEF requestCompleted
  <2>5. heap' = [heap EXCEPT ![c] = <<>>]
    BY <1>5, <2>3 DEF requestCompleted
  <2> QED BY <1>5, <2>1, <2>4, <2>5, OneConnection
<1>6. ASSUME NEW c \in Connections, Completed(c)
      PROVE  RestInv'
  <2>1. requestCompleted(c) /\ ciP[c] # NoCi /\ queue' \in [Connections -> Seq(Request)]
    BY <1>1, <1>6 DEF Completed, Shapes
  <2> QED BY <1>5, <2>1
<1>7. ASSUME NEW c \in Connections, ClientGone(c)
      PROVE  RestInv'
  <2>1. requestCompleted(c) /\ ciP[c] # NoCi
    BY <1>7 DEF ClientGone
  <2>2. <<>> \in Seq(Request)
    BY EmptySeq
  <2>3. queue' \in [Connections -> Seq(Request)]
    BY <1>1, <1>7, <2>2 DEF ClientGone, Shapes
  <2> QED BY <1>5, <2>1, <2>3
<1>8. CASE UNCHANGED vars
  <2>1. queue' = queue /\ thread' = thread /\ ciP' = ciP /\ static_buffer' = static_buffer /\ heap' = heap
    BY <1>8 DEF vars
  <2> QED BY <2>1 DEF RestInv, Shapes, Alone
<1> QED BY <1>2, <1>3, <1>4, <1>6, <1>7, <1>8 DEF Next

\* The invariant holds always.
LEMMA RestAlways == Spec => []RestInv
BY RestInit, RestNext, PTL DEF Spec

-----------------------------------------------------------------------------
(* What follows.                                                           *)

\* A routine works on the body of its own client, for any connections, threads,
\* bodies and sizes of the buffers, and however a body is cut into pieces: always
\* when connectionTreat() gathers it on the heap, and when it gathers it in the
\* thread's static_buffer if the connection is alone on the thread.  And
\* requestCompleted() frees every buffer of the heap.
THEOREM RestPayloadIntact == Spec => []PayloadIntact
<1>1. RestInv => PayloadIntact
  <2> SUFFICES ASSUME RestInv, NEW c \in Connections
               PROVE  /\ (/\ Answered(c)
                          /\ ciP[c].parsed # <<>>
                          /\ ciP[c].payload = "malloc" \/ \A d \in Connections \ {c} : thread[d] # thread[c]) =>
                           ciP[c].parsed = ciP[c].req.body
                      /\ (heap[c] # <<>>) <=> (ciP[c] # NoCi /\ ciP[c].payload = "malloc")
    BY DEF PayloadIntact
  <2>1. ConnInv(ciP[c], heap[c], static_buffer[thread[c]], Alone(c))
    BY DEF RestInv
  <2>2. Answered(c) => GotIts(ciP[c], Alone(c))
    BY <2>1 DEF ConnInv, Answered
  <2>3. (/\ Answered(c)
         /\ ciP[c].parsed # <<>>
         /\ ciP[c].payload = "malloc" \/ \A d \in Connections \ {c} : thread[d] # thread[c]) =>
          ciP[c].parsed = ciP[c].req.body
    BY <2>2 DEF GotIts, Alone
  <2>4. OnHeap(ciP[c], heap[c]) /\ (ciP[c] # NoCi => Gathered(ciP[c]))
    BY <2>1 DEF ConnInv
  <2>5. ASSUME ciP[c] # NoCi, ciP[c].payload = "malloc"
        PROVE  heap[c] # <<>>
    <3>1. PICK size : size = Len(ciP[c].req.body) + 1
      OBVIOUS
    <3>2. heap[c] \in Buffers(size)
      BY <2>4, <2>5, <3>1 DEF OnHeap
    <3>3. size \in Nat \ {0}
      BY <2>4, <2>5, <3>1 DEF Gathered, Request
    <3>4. 1 \in DOMAIN heap[c]
      BY <3>2, <3>3 DEF Buffers
    <3> QED BY <3>4
  <2>6. ~ (ciP[c] # NoCi /\ ciP[c].payload = "malloc") => heap[c] = <<>>
    BY <2>4 DEF OnHeap
  <2> QED BY <2>3, <2>5, <2>6
<1> QED BY <1>1, RestAlways, PTL

\* A request reaches the routine that restServiceV lists for its verb and URL if
\* the checks of connectionTreat(), the parser and the tenant are content with it,
\* for any verb, URL, headers and body; and no other request reaches a routine.
\* What the argument uses of the vector is EntriesAssumption and OrderAssumption.
THEOREM RestServedIfWellFormed == Spec => []ServedIfWellFormed
<1>1. RestInv => ServedIfWellFormed
  <2> SUFFICES ASSUME RestInv, NEW c \in Connections, Answered(c), NEW req, req = ciP[c].req
               PROVE  /\ Served(ciP[c]) => ciP[c].treat \in Routines(req.method, req.url)
                      /\ WellFormed(req) /\ Routines(req.method, req.url) # {} /\ ~ Unreachable(req.method, req.url) =>
                           Served(ciP[c])
                      /\ Served(ciP[c]) =>
                           /\ req.charsOk /\ "bad" \notin {req.params, req.servicePath, req.tenant}
                           /\ Len(req.body) <= PAYLOAD_MAX_SIZE
                           /\ req.body # <<>> => req.kind = "good"
    BY DEF ServedIfWellFormed
  <2>1. ConnInv(ciP[c], heap[c], static_buffer[thread[c]], Alone(c))
    BY DEF RestInv
  <2>2. Replied(ciP[c])
    BY <2>1 DEF ConnInv, Answered
  <2> QED BY <2>2 DEF Replied, Served, Approved
<1> QED BY <1>1, RestAlways, PTL

\* An NGSIv2 request that no routine serves is not answered with 200 OK, but for
\* the subscriptions that SubscribeContextRequest::check() refuses; and the Allow
\* header of a 405 lists the verbs that find a routine at the URL, for any URL.
THEOREM RestRefusalsFit == Spec => []RefusalsFit
<1>1. RestInv => RefusalsFit
  <2> SUFFICES ASSUME RestInv, NEW c \in Connections, Answered(c)
               PROVE  /\ ciP[c].apiVersion = "v2" /\ ~ Served(ciP[c]) =>
                           \/ ciP[c].reply.status \notin {"SccOk", "routine"}
                           \/ ciP[c].req.url = <<"v2", "subscriptions">> /\ ciP[c].req.kind = "invalid"
                      /\ ciP[c].reply.status = "SccBadVerb" =>
                           ciP[c].reply.allow = {v \in Verbs : restServiceV[serviceIx(v, ciP[c].req.url)].verb = v}
    BY DEF RefusalsFit
  <2>1. ConnInv(ciP[c], heap[c], static_buffer[thread[c]], Alone(c))
    BY DEF RestInv
  <2>2. Replied(ciP[c])
    BY <2>1 DEF ConnInv, Answered
  <2>3. ciP[c].apiVersion = "v2" /\ ~ Served(ciP[c]) =>
          ciP[c].reply.status \notin {"SccOk", "routine"} \/ InvalidSubscription(ciP[c].req)
    BY <2>2 DEF Replied, Served
  <2>4. ciP[c].reply.status = "SccBadVerb" => ciP[c].reply.allow = AllowedAt(ciP[c].req.url)
    BY <2>2 DEF Replied
  <2> QED BY <2>3, <2>4 DEF InvalidSubscription, AllowedAt
<1> QED BY <1>1, RestAlways, PTL
=============================================================================
