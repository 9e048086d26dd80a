---------------------------- MODULE Availability ----------------------------
(***************************************************************************)
(* NGSI9: the registrations of context providers and the subscriptions to  *)
(* their availability.  MongoCommonRegister.cpp, mongoRegisterContext.cpp, *)
(* mongoDiscoverContextAvailability.cpp, the three operations on           *)
(* availability subscriptions, mongoNotifyContextAvailability.cpp and the  *)
(* notification part of MongoGlobal.cpp.  Every operation on the database  *)
(* is a step of its own; the clock moves on its own.                       *)
(*                                                                         *)
(* A registration document is [parts, expiration, path], its parts a       *)
(* sequence of [entities, attrs, app] (see Registrations).  A              *)
(* subscription document is [entities, attrs, expiration, count]: entities *)
(* is a sequence of [id, type, isPattern], attrs a set of names.           *)
(***************************************************************************)
EXTENDS Registrations

CONSTANTS
  Threads,          \* the request threads
  Configurations,   \* sets of [policy, dbFails], see Init
  Requests,         \* what clients ask for
  DEFAULT_DURATION, \* the duration of what is registered without one
  MaxRequests,      \* bound: requests received
  MaxTime           \* bound: where the clock stops

\* Requests with what the parsers let through: a registration has at least one
\* part, and only updates and unsubscriptions name a subscription.
ASSUME AvailabilityAssumption ==
  /\ IsFiniteSet(Threads) /\ "nobody" \notin Threads
  /\ MaxRequests \in Nat /\ MaxTime \in Nat /\ DEFAULT_DURATION \in Nat
  /\ \A c \in Configurations : c.dbFails \in BOOLEAN
  /\ \A r \in Requests :
       /\ r.kind \in {"register", "notify", "subscribe", "updateSubscription", "unsubscribe"}
       /\ r.id \in Nat
       /\ r.kind \in {"register", "notify"} => r.duration \in Nat /\ Len(r.parts) \in Nat \ {0} /\ DOMAIN r.parts = 1 .. Len(r.parts)
       /\ r.kind \in {"subscribe", "updateSubscription"} => r.duration \in Nat
       /\ r.kind \in {"notify", "subscribe"} => r.id = 0

VARIABLES
  inst,       \* the configuration of this behaviour
  regs,       \* the registrations collection: a function from ids to documents
  casubs,     \* the availability subscriptions: a function from ids to documents
  now,        \* getCurrentTime()
  semaphore,  \* the thread that holds the request semaphore, or Nobody
  pc,         \* where each thread is
  op,         \* the local variables of each thread
  requests,   \* how many requests have been received: the ids come from here
  told,       \* <<subscription, registration, parts>> of the notifications sent
  notices     \* the number of notifications sent for each id

vars == <<inst, regs, casubs, now, semaphore, pc, op, requests, told, notices>>

Nobody == "nobody"
Idle == [req |-> [kind |-> "none"]]
Ids == 1..MaxRequests
Outcomes == IF inst.dbFails THEN BOOLEAN ELSE {TRUE}
Goto(t, from, to) == pc[t] = from /\ pc' = [pc EXCEPT ![t] = to]
With(f, id, doc) == [i \in DOMAIN f \cup {id} |-> IF i = id THEN doc ELSE f[i]]
Without(f, id) == [i \in DOMAIN f \ {id} |-> f[i]]

\* Mutant: the operations do not take the semaphore.
SerialisedNever == FALSE

\* The operations that write take the semaphore; under "read" and "none" they do not.
Serialised == inst.policy \in {"all", "write"}

Give(t) == semaphore' = IF semaphore = t THEN Nobody ELSE semaphore

Init ==
  /\ inst \in Configurations
  /\ regs = <<>>
  /\ casubs = <<>>
  /\ now = 0
  /\ semaphore = Nobody
  /\ pc = [t \in Threads |-> "idle"]
  /\ op = [t \in Threads |-> Idle]
  /\ requests = 0
  /\ told = {}
  /\ notices = [i \in Ids |-> 0]

-----------------------------------------------------------------------------
(* The query for registrations, and the one for subscriptions              *)

Live(doc) == doc.expiration > now
Given(duration) == IF duration = 0 THEN DEFAULT_DURATION ELSE duration

\* The query of registrationsQuery(): one part has an entity, and one an attribute.
queried(reg, path, ens, attrL) ==
  /\ Live(reg)
  /\ path \in {"", reg.path}
  /\ selected(UNION {reg.parts[i].entities : i \in DOMAIN reg.parts},
              UNION {reg.parts[i].attrs : i \in DOMAIN reg.parts}, ens, attrL)

\* The parts of a registration that registrationsQuery() returns: their order is
\* of no importance to anybody.
PartsFound(reg, path, ens, attrL) ==
  LET crrV == {processContextRegistrationElement(reg.parts[i], ens, attrL) : i \in DOMAIN reg.parts}
  IN  {c \in crrV : queried(reg, path, ens, attrL) /\ c.entities # {} /\ (attrL = {} \/ c.attrs # {})}

\* Mutant: only the subscriptions to a known id are looked for.
TriggersById(sub, part) ==
  /\ Live(sub)
  /\ sub.attrs = {} \/ sub.attrs \cap part.attrs # {}
  /\ \E re \in part.entities : \E en \in Elements(sub.entities) :
       ~en.isPattern /\ en.id = re.id /\ en.type = re.type /\ en.type # ""

\* addTriggeredSubscriptions(): the subscription names the entity and its type,
\* or has a pattern for it, which JavaScript matches with its id; it has one of
\* the attributes, or names none.  An entity without a type never matches, and a
\* pattern is not asked about attributes.
triggers(sub, part) ==
  /\ Live(sub)
  /\ \E re \in part.entities : \E en \in Elements(sub.entities) :
       /\ en.type = re.type /\ en.type # ""
       /\ \/ en.isPattern /\ idMatches("js", en, re.id)
          \/ ~en.isPattern /\ en.id = re.id /\ (sub.attrs = {} \/ sub.attrs \cap part.attrs # {})

-----------------------------------------------------------------------------
(* Every request: the semaphore is taken, then the operation goes on.      *)

FirstStep(r) ==
  CASE r.kind = "register" -> IF r.id = 0 THEN "triggered" ELSE "findRegistration"
    [] r.kind = "notify" -> "triggered"
    [] r.kind = "subscribe" -> "insert"
    [] OTHER -> "findSubscription"

\* A new document gets the number of the request as its id.
receive(t) ==
  \E r \in Requests :
    /\ requests < MaxRequests
    /\ Goto(t, "idle", FirstStep(r))
    /\ IF Serialised THEN semaphore = Nobody /\ semaphore' = t ELSE UNCHANGED semaphore
    /\ requests' = requests + 1
    /\ op' = [op EXCEPT ![t] = [req |-> r, id |-> IF r.id = 0 THEN requests + 1 ELSE r.id, ix |-> 1,
                                ens |-> {}, subs |-> <<>>, read |-> <<>>]]
    /\ UNCHANGED <<inst, regs, casubs, now, told, notices>>

\* Whatever is left to do is left: the answer is an error, or nothing was found.
Answer(t) ==
  /\ Give(t)
  /\ pc' = [pc EXCEPT ![t] = "idle"]
  /\ op' = [op EXCEPT ![t] = Idle]

\* What was to be done has been done, and the subscriptions are to be notified.
Notify(t, from, subs, ens) ==
  /\ Goto(t, from, "registrations")
  /\ op' = [op EXCEPT ![t].subs = subs, ![t].ens = ens]
  /\ UNCHANGED semaphore

clock ==
  /\ now < MaxTime
  /\ now' = now + 1
  /\ UNCHANGED <<inst, regs, casubs, semaphore, pc, op, requests, told, notices>>

-----------------------------------------------------------------------------
(* registerContext, and notifyContextAvailability, which registers anew    *)

findRegistration(t) ==
  /\ pc[t] = "findRegistration"
  /\ \E ok \in Outcomes :
       LET id == op[t].id
       IN  IF ok /\ id \in DOMAIN regs /\ regs[id].path = op[t].req.path
           THEN Goto(t, "findRegistration", "triggered") /\ UNCHANGED <<op, semaphore>>
           ELSE Answer(t)
  /\ UNCHANGED <<inst, regs, casubs, now, requests, told, notices>>

\* The subscriptions that each part concerns, with their attributes, are
\* gathered before the registration is stored.
triggered(t) ==
  /\ pc[t] = "triggered"
  /\ \E ok \in Outcomes :
       LET part == op[t].req.parts[op[t].ix]
           more == {s \in DOMAIN casubs : triggers(casubs[s], part)} \ DOMAIN op[t].subs
       IN  IF ~ok THEN Answer(t)
           ELSE /\ op' = [op EXCEPT ![t].ix = @ + 1,
                             ![t].subs = [s \in DOMAIN @ \cup more |->
                                            IF s \in more THEN casubs[s].attrs ELSE @[s]]]
                /\ Goto(t, "triggered", IF op[t].ix < Len(op[t].req.parts) THEN "triggered" ELSE "store")
                /\ UNCHANGED semaphore
  /\ UNCHANGED <<inst, regs, casubs, now, requests, told, notices>>

RegisteredEntities(parts) ==
  {[id |-> re.id, type |-> re.type, isPattern |-> FALSE] : re \in UNION {parts[i].entities : i \in DOMAIN parts}}

\* processRegisterContext(), from the upsert on
store(t) ==
  /\ pc[t] = "store"
  /\ \E ok \in Outcomes :
       LET r == op[t].req
       IN  IF ~ok THEN Answer(t) /\ UNCHANGED regs
           ELSE /\ regs' = With(regs, op[t].id,
                                [parts |-> r.parts, expiration |-> now + Given(r.duration), path |-> r.path])
                /\ Notify(t, "store", op[t].subs, RegisteredEntities(r.parts))
  /\ UNCHANGED <<inst, casubs, now, requests, told, notices>>

-----------------------------------------------------------------------------
(* The operations on availability subscriptions                            *)

insert(t) ==
  /\ pc[t] = "insert"
  /\ \E ok \in Outcomes :
       LET r == op[t].req
       IN  IF ~ok THEN Answer(t) /\ UNCHANGED casubs
           ELSE /\ casubs' = With(casubs, op[t].id,
                                  [entities |-> r.entities, attrs |-> r.attrs,
                                   expiration |-> now + Given(r.duration), count |-> 0])
                /\ Notify(t, "insert", [s \in {op[t].id} |-> r.attrs], Elements(r.entities))
  /\ UNCHANGED <<inst, regs, now, requests, told, notices>>

findSubscription(t) ==
  /\ pc[t] = "findSubscription"
  /\ \E ok \in Outcomes :
       LET id == op[t].id
       IN  IF ok /\ id \in DOMAIN casubs
           THEN /\ op' = [op EXCEPT ![t].read = casubs[id]]
                /\ Goto(t, "findSubscription", op[t].req.kind)
                /\ UNCHANGED semaphore
           ELSE Answer(t)
  /\ UNCHANGED <<inst, regs, casubs, now, requests, told, notices>>

\* Mutant: the new document starts with no notifications.
UpdatedWithoutCount(read, r) ==
  [entities |-> r.entities, attrs |-> r.attrs, count |-> 0,
   expiration |-> IF r.duration = 0 THEN read.expiration ELSE now + r.duration]

\* The document that replaces the one that was read
Updated(read, r) ==
  [entities |-> r.entities, attrs |-> r.attrs, count |-> read.count,
   expiration |-> IF r.duration = 0 THEN read.expiration ELSE now + r.duration]

updateSubscription(t) ==
  /\ pc[t] = "updateSubscription"
  /\ \E ok \in Outcomes :
       LET r == op[t].req
           id == op[t].id
       IN  IF ~ok THEN Answer(t) /\ UNCHANGED casubs
           ELSE /\ casubs' = IF id \in DOMAIN casubs THEN With(casubs, id, Updated(op[t].read, r)) ELSE casubs
                /\ Notify(t, "updateSubscription", [s \in {id} |-> r.attrs], Elements(r.entities))
  /\ UNCHANGED <<inst, regs, now, requests, told, notices>>

unsubscribe(t) ==
  /\ pc[t] = "unsubscribe"
  /\ \E ok \in Outcomes : casubs' = IF ok THEN Without(casubs, op[t].id) ELSE casubs
  /\ Answer(t)
  /\ UNCHANGED <<inst, regs, now, requests, told, notices>>

-----------------------------------------------------------------------------
(* processAvailabilitySubscription(), for one subscription after the other *)

First(S) == CHOOSE s \in S : \A u \in S : s <= u
CurrentSub(t) == First(DOMAIN op[t].subs)

registrations(t) ==
  /\ pc[t] = "registrations"
  /\ DOMAIN op[t].subs # {}
  /\ \E ok \in Outcomes :
       LET s == CurrentSub(t)
           parts(r) == PartsFound(regs[r], "", op[t].ens, op[t].subs[s])
           found == IF ok THEN {r \in DOMAIN regs : parts(r) # {}} ELSE {}
       IN  /\ told' = told \cup {<<s, r, parts(r)>> : r \in found}
           /\ notices' = [notices EXCEPT ![s] = @ + (IF found = {} THEN 0 ELSE 1)]
           /\ IF found = {}
              THEN op' = [op EXCEPT ![t].subs = Without(@, s)] /\ UNCHANGED pc
              ELSE Goto(t, "registrations", "count") /\ UNCHANGED op
  /\ UNCHANGED <<inst, regs, casubs, now, semaphore, requests>>

\* mongoUpdateCasubNewNotification()
count(t) ==
  /\ pc[t] = "count"
  /\ \E ok \in Outcomes :
       LET s == CurrentSub(t)
       IN  /\ casubs' = IF ok /\ s \in DOMAIN casubs THEN [casubs EXCEPT ![s].count = @ + 1] ELSE casubs
           /\ op' = [op EXCEPT ![t].subs = Without(@, s)]
  /\ Goto(t, "count", "registrations")
  /\ UNCHANGED <<inst, regs, now, semaphore, requests, told, notices>>

allNotified(t) ==
  /\ pc[t] = "registrations"
  /\ DOMAIN op[t].subs = {}
  /\ Answer(t)
  /\ UNCHANGED <<inst, regs, casubs, now, requests, told, notices>>

-----------------------------------------------------------------------------
(* discoverContextAvailability changes nothing: its answer is a function   *)
(* of the registrations.                                                   *)

\* The registrations found, in the order of their ids, from offset on
Page(found, offset, limit) ==
  {r \in found : LET before == Cardinality({q \in found : q < r}) IN offset <= before /\ before < offset + limit}

\* The count is the number of documents that the query finds, whatever the page
\* and whether they have a part to show.
processDiscoverContextAvailability(path, enV, attrL, offset, limit) ==
  LET parts(r) == PartsFound(regs[r], path, Elements(enV), attrL)
      found == {r \in DOMAIN regs : queried(regs[r], path, Elements(enV), attrL)}
      responses == {<<r, parts(r)>> : r \in {q \in Page(found, offset, limit) : parts(q) # {}}}
  IN  [status |-> IF responses = {} THEN "ContextElementNotFound" ELSE "Ok",
       count |-> Cardinality(found),
       responses |-> responses]

-----------------------------------------------------------------------------
Step(t) ==
  \/ findRegistration(t)
  \/ triggered(t)
  \/ store(t)
  \/ insert(t)
  \/ findSubscription(t)
  \/ updateSubscription(t)
  \/ unsubscribe(t)
  \/ registrations(t)
  \/ count(t)
  \/ allNotified(t)

Next == clock \/ \E t \in Threads : receive(t) \/ Step(t)

Spec == Init /\ [][Next]_vars

-----------------------------------------------------------------------------
Exclusive == inst.policy \in {"all", "write"}
Quiet == \A t \in Threads : pc[t] = "idle"

\* To JavaScript the pattern means at least what it means to matchEntity().
ReadAlike(en) ==
  en.isPattern => \A m \in Regexps : m[1] = "posix" /\ m[2] = en.id => <<"js", en.id, m[3]>> \in Regexps

\* addTriggeredSubscriptions() knows the subscription by what a discovery goes by.
Findable(enV) == \A en \in Elements(enV) : en.type # "" /\ ReadAlike(en)

\* A subscriber has been told of every provider that a discovery for the
\* entities and attributes of the subscription would find now: by the initial
\* notification, or by the registration that came later.  Exceptions are what
\* addTriggeredSubscriptions() does not find: subscriptions that have an entity
\* without a type, or a pattern that regcomp() matches with an id and JavaScript
\* does not, such as "[[:alpha:]]"; and registered entities without a type.
SubscribersKnow ==
  Exclusive /\ ~inst.dbFails /\ Quiet =>
    \A s \in {i \in DOMAIN casubs : Live(casubs[i]) /\ Findable(casubs[i].entities)} :
      \A d \in processDiscoverContextAvailability("", casubs[s].entities, casubs[s].attrs, 0, MaxRequests).responses :
        \A part \in {p \in d[2] : \E re \in p.entities : re.type # ""} :
          \E n \in told : /\ n[1] = s /\ n[2] = d[1]
                         /\ \E p \in n[3] : p.app = part.app /\ p.attrs = part.attrs /\ part.entities \subseteq p.entities

\* The counter of a subscription is the number of its notifications, also when
\* the subscription was rewritten in between.  A failing database, or updates
\* that are not serialised, may lose notifications from the count, but never
\* add to it.
CountsItsNotifications ==
  \A s \in DOMAIN casubs :
    /\ casubs[s].count <= notices[s]
    /\ Exclusive /\ ~inst.dbFails /\ Quiet => casubs[s].count = notices[s]

\* Nothing is sent for a subscription that has been removed, although the
\* notifications follow the lookup and the update in steps of their own.
NotifiedAreSubscribed ==
  [][Exclusive => \A s \in Ids : notices'[s] > notices[s] => s \in DOMAIN casubs]_vars
=============================================================================
