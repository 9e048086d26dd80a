------------------------------ MODULE SubCache ------------------------------
(***************************************************************************)
(* The subscription cache at work: the request threads that subscribe,     *)
(* unsubscribe, update subscriptions and update context, the thread that   *)
(* synchronises the cache with the database, and a restart of the broker.  *)
(*                                                                         *)
(* A request thread is modelled from the moment it has the request         *)
(* semaphore (or does without it, depending on -reqMutexPolicy). One       *)
(* action is what a thread does between two points where another thread    *)
(* can make a difference: a database operation, or a critical section of   *)
(* the cache semaphore. Only the refresher keeps that semaphore while it   *)
(* talks to the database, so only its steps leave the semaphore taken.     *)
(***************************************************************************)
EXTENDS SubCacheList, FiniteSetsExt, Functions

CONSTANTS
  Subs,           \* subscription ids
  Stored,         \* the ones that are in the database when the broker starts
  Threads,        \* request threads
  NULL,
  ReqPolicy,      \* -reqMutexPolicy: "none", "read", "write" or "all"
  SubCacheIval,   \* -subCacheIval # 0: the refresher thread runs
  DbMayFail,      \* a database operation may fail
  Requests,       \* the subscription requests of the workload
  Patches,        \* the subscription-update requests of the workload
  Outcomes,       \* whether an update passes a string filter: subset of BOOLEAN
  StartTime, MaxTime,        \* bounds of the clock, in seconds
  MaxRequests, MaxRestarts   \* bounds of the workload

ASSUME SubCacheAssumption ==
  /\ Stored \subseteq Subs
  /\ NULL \notin Threads /\ NULL \notin Fields
  /\ ReqPolicy \in {"none", "read", "write", "all"}
  /\ SubCacheIval \in BOOLEAN /\ DbMayFail \in BOOLEAN
  /\ Requests \subseteq Request /\ Patches \subseteq Request
  /\ Outcomes \subseteq BOOLEAN
  /\ StartTime \in Nat /\ MaxTime \in Nat
  /\ MaxRequests \in Nat /\ MaxRestarts \in Nat
  /\ \A r \in Requests \cup Patches : r.throttling =< StartTime  \* it is seconds since 1970

VARIABLES
  db,        \* db[s]: the document of s in the csubs collection, or NULL
  cache,     \* cache[s]: the items of s in the list subCache
  reqSem,    \* the thread that has the request semaphore, or NULL
  cacheSem,  \* value of the cache semaphore
  now,       \* getCurrentTime()
  pc,        \* where each request thread is
  sub,       \* the subscription its request is about
  req,       \* the subscription-update request
  doc,       \* the document it read or is going to write
  cSubP,     \* its pointer into the cache: NULL, "item" or "freed"
  lnt,       \* its lastNotificationTime (or rightNow)
  trigs,     \* its TriggeredSubscriptions: function on the ones left
  spc,       \* where the refresher is
  saved,     \* its savedSubV: function on the ids saved
  todo,      \* the subscriptions its loop has yet to visit
  requests, restarts,   \* how much of the workload was used
  sent,      \* history: notifications sent for s
  lastSent,  \* history: time of the last one, 0 if none
  created,   \* history: the subscription ids given out
  removed    \* history: the subscriptions whose unsubscription has returned

threadVars == <<pc, sub, req, doc, cSubP, lnt, trigs>>
syncVars   == <<spc, saved, todo>>
history    == <<sent, lastSent, created, removed>>
bounds     == <<requests, restarts>>
vars == <<db, cache, reqSem, cacheSem, now, threadVars, syncVars, bounds, history>>

EmptyFcn == [s \in {} |-> NULL]

Goto(t, from, to) == pc[t] = from /\ pc' = [pc EXCEPT ![t] = to]

-----------------------------------------------------------------------------
(* Semaphores. All the requests modelled here are of type SemWriteOp.      *)

ReqSemUsed == ReqPolicy \in {"write", "all"}

\* Mutant: the request semaphore is not taken.
reqSemNotTaken(t) == UNCHANGED reqSem

reqSemTake(t) ==
  IF ReqSemUsed THEN reqSem = NULL /\ reqSem' = t ELSE UNCHANGED reqSem

reqSemGive(t) == reqSem' = IF reqSem = t THEN NULL ELSE reqSem

\* A critical section of the cache semaphore that is one step: it is taken and
\* given back, and the step waits for the refresher.
CacheSection(t, from) == pc[t] = from /\ cacheSem = 1 /\ UNCHANGED cacheSem

-----------------------------------------------------------------------------
(* Startup: the cache is populated from the database before any thread     *)
(* runs (main() calls subCacheStart() or subCacheRefresh() before the      *)
(* REST service is started).                                               *)

StoredDoc == [count : {Absent}, lnt : {Absent}, throttling : {r.throttling : r \in Requests},
              status : {"active"}, filter : {x \in BOOLEAN : \E r \in Requests : x <=> r.filter = "set"}]

CacheOf(d) == [s \in Subs |-> IF d[s] = NULL THEN <<>> ELSE <<RefreshedItem(d[s])>>]

Init ==
  /\ db \in {d \in [Subs -> StoredDoc \cup {NULL}] : \A s \in Subs : d[s] # NULL <=> s \in Stored}
  /\ cache = CacheOf(db)
  /\ reqSem = NULL /\ cacheSem = 1
  /\ now = StartTime
  /\ pc = [t \in Threads |-> "idle"]
  /\ sub = [t \in Threads |-> NULL] /\ req = [t \in Threads |-> NULL] /\ doc = [t \in Threads |-> NULL]
  /\ cSubP = [t \in Threads |-> NULL] /\ lnt = [t \in Threads |-> 0]
  /\ trigs = [t \in Threads |-> EmptyFcn]
  /\ spc = "sleep" /\ saved = EmptyFcn /\ todo = {}
  /\ requests = 0 /\ restarts = 0
  /\ sent = [s \in Subs |-> 0] /\ lastSent = [s \in Subs |-> 0]
  /\ created = Stored /\ removed = {}
-----------------------------------------------------------------------------
(* What the handlers have in common.                                       *)

Begin(t) ==
  /\ requests < MaxRequests
  /\ requests' = requests + 1
  /\ reqSemTake(t)
  /\ UNCHANGED restarts

\* The handler returns; the items of the subscriptions in S were deleted.
Finish(t, from, S) ==
  /\ Goto(t, from, "idle")
  /\ reqSemGive(t)
  /\ sub' = [sub EXCEPT ![t] = NULL]
  /\ req' = [req EXCEPT ![t] = NULL]
  /\ doc' = [doc EXCEPT ![t] = NULL]
  /\ cSubP' = [u \in Threads |-> IF u = t THEN NULL
                                 ELSE IF cSubP[u] = "item" /\ sub[u] \in S THEN "freed" ELSE cSubP[u]]
  /\ lnt' = [lnt EXCEPT ![t] = 0]
  /\ trigs' = [trigs EXCEPT ![t] = EmptyFcn]

\* A database operation fails: the handler gives the semaphore and returns.
FailAndFinish(t, from) ==
  /\ DbMayFail
  /\ Finish(t, from, {})
  /\ UNCHANGED <<db, cache, cacheSem, now, syncVars, bounds, history>>

Send(s) ==
  /\ sent' = [sent EXCEPT ![s] = @ + 1]
  /\ lastSent' = [lastSent EXCEPT ![s] = now]

-----------------------------------------------------------------------------
(* mongoSubscribeContext().                                                *)

\* A new id, and the initial notification if an entity already matches.
SubscribeBegin(t) ==
  /\ Begin(t)
  /\ Goto(t, "idle", "insert")
  /\ \E s \in Subs \ created, r \in Requests :
       /\ sub' = [sub EXCEPT ![t] = s]
       /\ created' = created \cup {s}
       /\ doc' = [doc EXCEPT ![t] = SubscribedDoc(r, now)]
       /\ IF notificationDone(r, NewStatus(r)) THEN Send(s) ELSE UNCHANGED <<sent, lastSent>>
  /\ UNCHANGED <<db, cache, cacheSem, now, req, cSubP, lnt, trigs, syncVars, removed>>

SubscribeInsert(t) ==
  \/ FailAndFinish(t, "insert")
  \/ /\ Goto(t, "insert", "cacheInsert")
     /\ db' = [db EXCEPT ![sub[t]] = doc[t]]
     /\ UNCHANGED <<cache, reqSem, cacheSem, now, sub, req, doc, cSubP, lnt, trigs, syncVars, bounds, history>>

SubscribeCache(t) ==
  /\ CacheSection(t, "cacheInsert")
  /\ cache' = [cache EXCEPT ![sub[t]] = subCacheItemInsert(@, NewItem(doc[t]))]
  /\ Finish(t, "cacheInsert", {})
  /\ UNCHANGED <<db, now, syncVars, bounds, history>>

-----------------------------------------------------------------------------
(* mongoUnsubscribeContext().                                              *)

UnsubscribeBegin(t) ==
  /\ Begin(t)
  /\ Goto(t, "idle", "remove")
  /\ \E s \in Subs : db[s] # NULL /\ sub' = [sub EXCEPT ![t] = s]
  /\ UNCHANGED <<db, cache, cacheSem, now, req, doc, cSubP, lnt, trigs, syncVars, history>>

UnsubscribeRemove(t) ==
  \/ FailAndFinish(t, "remove")
  \/ /\ Goto(t, "remove", "cacheRemove")
     /\ db' = [db EXCEPT ![sub[t]] = NULL]
     /\ UNCHANGED <<cache, reqSem, cacheSem, now, sub, req, doc, cSubP, lnt, trigs, syncVars, bounds, history>>

UnsubscribeCache(t) ==
  /\ CacheSection(t, "cacheRemove")
  /\ cache' = [cache EXCEPT ![sub[t]] = subCacheItemRemove(@)]
  /\ Finish(t, "cacheRemove", {sub[t]})
  /\ removed' = removed \cup {sub[t]}
  /\ UNCHANGED <<db, now, syncVars, bounds, sent, lastSent, created>>

-----------------------------------------------------------------------------
(* mongoUpdateContext(), for one context element.                          *)

\* addTriggeredSubscriptions_withCache(): of the subscriptions that match the
\* entity and have not expired, the ones that are not blocked. A map keyed by
\* id: of two items with the same id the first one is taken.
TriggeredSubscription(items, passes) ==
  LET open == {i \in DOMAIN items : ~ Blocked(items[i], now)}
      item == items[Min(open)]
  IN  [lnt |-> item.lnt, throttling |-> item.throttling, filter |-> item.filter, passes |-> passes]

UpdateMatch(t) ==
  /\ Begin(t)
  /\ CacheSection(t, "idle")
  /\ Goto(t, "idle", "notify")
  /\ \E matching \in SUBSET Subs, passes \in Outcomes :
       LET hit == {s \in matching : \E i \in DOMAIN cache[s] : ~ Blocked(cache[s][i], now)}
       IN  /\ hit = matching /\ hit # {}   \* an update that triggers nothing changes nothing here
           /\ trigs' = [trigs EXCEPT ![t] = [s \in hit |-> TriggeredSubscription(cache[s], passes)]]
  /\ UNCHANGED <<db, cache, now, sub, req, doc, cSubP, lnt, syncVars, history>>

\* The loop of processSubscriptions() goes on with the next one, or ends.
DoneWith(t, from, s) ==
  IF DOMAIN trigs[t] = {s}
    THEN Finish(t, from, {})
    ELSE /\ Goto(t, from, "notify")
         /\ trigs' = [trigs EXCEPT ![t] = Restrict(@, DOMAIN @ \ {s})]
         /\ UNCHANGED <<reqSem, sub, req, doc, cSubP, lnt>>

\* Check 1 of processSubscriptions(), with the times read when matching.
Throttled(trig) ==
  trig.throttling # 1 /\ trig.lnt # 1 /\ trig.throttling > now - trig.lnt

\* A triggered subscription is dropped: too early, filtered out, or none of the
\* attributes it wants is in the entity.
UpdateSkip(t) ==
  /\ pc[t] = "notify"
  /\ \E s \in DOMAIN trigs[t] : DoneWith(t, "notify", s)
  /\ UNCHANGED <<db, cache, cacheSem, now, syncVars, bounds, history>>

UpdateNotify(t) ==
  /\ Goto(t, "notify", "record")
  /\ \E s \in DOMAIN trigs[t] :
       /\ ~ Throttled(trigs[t][s])
       /\ trigs[t][s].filter => trigs[t][s].passes
       /\ Send(s)
       /\ sub' = [sub EXCEPT ![t] = s]
  /\ lnt' = [lnt EXCEPT ![t] = now]
  /\ UNCHANGED <<db, cache, reqSem, cacheSem, now, req, doc, cSubP, trigs, syncVars, bounds, created, removed>>

\* The time and the count of the notification go to the cached item, if there
\* still is one.
UpdateRecord(t) ==
  /\ CacheSection(t, "record")
  /\ cache' = IF Cached(cache[sub[t]])
                THEN [cache EXCEPT ![sub[t]][1] = Noted(@, lnt[t])]
                ELSE cache
  /\ DoneWith(t, "record", sub[t])
  /\ UNCHANGED <<db, now, syncVars, bounds, history>>

-----------------------------------------------------------------------------
(* mongoUpdateContextSubscription().                                       *)

\* The document is read, and the conditions of the request may notify.
UpdateSubBegin(t) ==
  /\ Begin(t)
  /\ Goto(t, "idle", "read")
  /\ \E s \in Subs, r \in Patches :
       /\ db[s] # NULL
       /\ sub' = [sub EXCEPT ![t] = s]
       /\ req' = [req EXCEPT ![t] = r]
       /\ doc' = [doc EXCEPT ![t] = db[s]]
       /\ IF notificationDone(r, UpdatedStatus(db[s], r)) THEN Send(s) ELSE UNCHANGED <<sent, lastSent>>
  /\ UNCHANGED <<db, cache, cacheSem, now, cSubP, lnt, trigs, syncVars, created, removed>>

\* The cached item is looked up without the cache semaphore; the new document
\* is built, and a notification is noted in the item.
UpdateSubRead(t) ==
  /\ Goto(t, "read", "write")
  /\ LET s     == sub[t]
         hit   == Cached(cache[s])
         item  == subCacheItemLookup(cache[s])
         done  == notificationDone(req[t], UpdatedStatus(doc[t], req[t]))
         count == timesSent(doc[t], cache[s])
         time  == IF done THEN now ELSE IF hit THEN item.lnt ELSE 0
     IN  /\ doc' = [doc EXCEPT ![t] = UpdatedDoc(doc[t], req[t], count, time)]
         /\ lnt' = [lnt EXCEPT ![t] = time]
         /\ cSubP' = [cSubP EXCEPT ![t] = IF hit THEN "item" ELSE NULL]
         /\ cache' = IF done /\ hit
                       THEN [cache EXCEPT ![s][1] = Noted(@, now)]
                       ELSE cache
  /\ UNCHANGED <<db, reqSem, cacheSem, now, sub, req, trigs, syncVars, bounds, history>>

\* The document is replaced as a whole, if it is still there.
UpdateSubWrite(t) ==
  \/ FailAndFinish(t, "write")
  \/ /\ Goto(t, "write", "reset")
     /\ db' = [db EXCEPT ![sub[t]] = IF @ = NULL THEN NULL ELSE doc[t]]
     /\ UNCHANGED <<cache, reqSem, cacheSem, now, sub, req, doc, cSubP, lnt, trigs, syncVars, bounds, history>>

\* cSubP->count = 0, again without the cache semaphore. A write through a
\* pointer to a deleted item goes nowhere or hits an item allocated there since.
UpdateSubReset(t) ==
  /\ Goto(t, "reset", "cacheUpdate")
  /\ CASE cSubP[t] = NULL   -> UNCHANGED cache
       [] cSubP[t] = "item"  -> cache' = [cache EXCEPT ![sub[t]][1].count = 0]
       [] cSubP[t] = "freed" ->
            \/ UNCHANGED cache
            \/ \E s \in Subs : \E i \in DOMAIN cache[s] : cache' = [cache EXCEPT ![s][i].count = 0]
  /\ UNCHANGED <<db, reqSem, cacheSem, now, sub, req, doc, cSubP, lnt, trigs, syncVars, bounds, history>>

\* Mutant: the old item is not removed.
UpdateSubCacheKeepingOld(t) ==
  /\ CacheSection(t, "cacheUpdate")
  /\ cache' = [cache EXCEPT ![sub[t]] =
                 IF Cached(@) THEN subCacheItemInsert(@, UpdatedItem(doc[t], lnt[t], req[t].filter = "set")) ELSE @]
  /\ Finish(t, "cacheUpdate", {})
  /\ UNCHANGED <<db, now, syncVars, bounds, history>>

\* Mutant: the new item is inserted although the old one is gone.
UpdateSubCacheAlways(t) ==
  /\ CacheSection(t, "cacheUpdate")
  /\ cache' = [cache EXCEPT ![sub[t]] =
                 subCacheItemInsert(subCacheItemRemove(@), UpdatedItem(doc[t], lnt[t], req[t].filter = "set"))]
  /\ Finish(t, "cacheUpdate", {sub[t]})
  /\ UNCHANGED <<db, now, syncVars, bounds, history>>

\* The new item is inserted and the old one removed. Without an old one the
\* service path handed to mongoSubCacheItemInsert is empty and it refuses.
UpdateSubCache(t) ==
  /\ CacheSection(t, "cacheUpdate")
  /\ cache' = [cache EXCEPT ![sub[t]] =
                 IF Cached(@)
                   THEN subCacheItemRemove(subCacheItemInsert(@, UpdatedItem(doc[t], lnt[t], req[t].filter = "set")))
                   ELSE @]
  /\ Finish(t, "cacheUpdate", {sub[t]})
  /\ UNCHANGED <<db, now, syncVars, bounds, history>>

-----------------------------------------------------------------------------
(* subCacheSync(), run by the refresher thread. It has the cache semaphore *)
(* from SyncSave to SyncEnd.                                               *)

SyncGoto(from, to) == spc = from /\ spc' = to

\* Step 1. The loop that saves the items does not advance when it meets an id
\* for the second time ("continue"): it never ends.
SyncSave ==
  /\ SubCacheIval
  /\ cacheSem = 1 /\ cacheSem' = 0
  /\ IF \E s \in Subs : Len(cache[s]) > 1
       THEN SyncGoto("sleep", "spin") /\ UNCHANGED saved
       ELSE /\ SyncGoto("sleep", "destroy")
            /\ saved' = [s \in {x \in Subs : Cached(cache[x])} |->
                           [lnt |-> cache[s][1].lnt, count |-> cache[s][1].count]]
  /\ UNCHANGED <<db, cache, reqSem, now, threadVars, todo, bounds, history>>

\* Step 2: subCacheDestroy() deletes every item ...
SyncDestroy ==
  /\ SyncGoto("destroy", "refresh")
  /\ cache' = [s \in Subs |-> <<>>]
  /\ cSubP' = [t \in Threads |-> IF cSubP[t] = "item" THEN "freed" ELSE cSubP[t]]
  /\ UNCHANGED <<db, reqSem, cacheSem, now, pc, sub, req, doc, lnt, trigs, saved, todo, bounds, history>>

\* ... and mongoSubCacheRefresh() reads the documents of every database. What a
\* failed query or cursor does not deliver is missing.
SyncRefresh ==
  /\ SyncGoto("refresh", "compare")
  /\ \E read \in SUBSET {s \in Subs : db[s] # NULL} :
       /\ DbMayFail \/ read = {s \in Subs : db[s] # NULL}
       /\ cache' = [s \in Subs |-> IF s \in read THEN subCacheItemInsert(cache[s], RefreshedItem(db[s])) ELSE cache[s]]
  /\ UNCHANGED <<db, reqSem, cacheSem, now, threadVars, saved, todo, bounds, history>>

\* Step 3: a saved time that is not newer than the one read is forgotten.
SyncCompare ==
  /\ SyncGoto("compare", "flush")
  /\ todo' = {s \in DOMAIN saved : Cached(cache[s])}
  /\ saved' = [s \in DOMAIN saved |->
                 IF s \in todo' /\ saved[s].lnt =< cache[s][1].lnt THEN [saved[s] EXCEPT !.lnt = 0] ELSE saved[s]]
  /\ UNCHANGED <<db, cache, reqSem, cacheSem, now, threadVars, bounds, history>>

Visited == CHOOSE s \in todo : TRUE

\* Mutant: the count is set, not added.
SyncFlushCountSet ==
  /\ spc = "flush" /\ todo # {} /\ saved[Visited].count # 0
  /\ \/ DbMayFail /\ UNCHANGED db
     \/ db' = [db EXCEPT ![Visited] = IF @ = NULL THEN NULL ELSE [@ EXCEPT !.count = saved[Visited].count]]
  /\ saved' = [saved EXCEPT ![Visited].count = 0]
  /\ UNCHANGED <<cache, reqSem, cacheSem, now, threadVars, spc, todo, bounds, history>>

\* Step 4: mongoSubCacheUpdate() adds the count to the document ...
SyncFlushCount ==
  /\ spc = "flush" /\ todo # {} /\ saved[Visited].count # 0
  /\ \/ DbMayFail /\ UNCHANGED db
     \/ db' = [db EXCEPT ![Visited] = IF @ = NULL THEN NULL ELSE CountAdded(@, saved[Visited].count)]
  /\ saved' = [saved EXCEPT ![Visited].count = 0]
  /\ UNCHANGED <<cache, reqSem, cacheSem, now, threadVars, spc, todo, bounds, history>>

\* ... and step 5: it writes the time, unless the document has a newer one.
SyncFlushTime ==
  /\ spc = "flush" /\ todo # {} /\ saved[Visited].count = 0
  /\ \/ DbMayFail /\ UNCHANGED db
     \/ db' = [db EXCEPT ![Visited] =
                 IF @ = NULL \/ saved[Visited].lnt = 0 \/ (@.lnt # Absent /\ @.lnt >= saved[Visited].lnt)
                   THEN @ ELSE [@ EXCEPT !.lnt = saved[Visited].lnt]]
  /\ todo' = todo \ {Visited}
  /\ UNCHANGED <<cache, reqSem, cacheSem, now, threadVars, spc, saved, bounds, history>>

SyncEnd ==
  /\ todo = {}
  /\ SyncGoto("flush", "sleep")
  /\ cacheSem' = 1
  /\ saved' = EmptyFcn
  /\ UNCHANGED <<db, cache, reqSem, now, threadVars, todo, bounds, history>>

-----------------------------------------------------------------------------
Tick ==
  /\ now < MaxTime
  /\ now' = now + 1
  /\ UNCHANGED <<db, cache, reqSem, cacheSem, threadVars, syncVars, bounds, history>>

\* The broker dies and is started again: what was only in memory is lost.
Restart ==
  /\ restarts < MaxRestarts
  /\ restarts' = restarts + 1
  /\ cache' = CacheOf(db)
  /\ reqSem' = NULL /\ cacheSem' = 1
  /\ pc' = [t \in Threads |-> "idle"]
  /\ sub' = [t \in Threads |-> NULL] /\ req' = [t \in Threads |-> NULL] /\ doc' = [t \in Threads |-> NULL]
  /\ cSubP' = [t \in Threads |-> NULL] /\ lnt' = [t \in Threads |-> 0]
  /\ trigs' = [t \in Threads |-> EmptyFcn]
  /\ spc' = "sleep" /\ saved' = EmptyFcn /\ todo' = {}
  /\ UNCHANGED <<db, now, requests, history>>

\* No request is under way and the clients are silent: the system may rest.
Rest ==
  /\ \A t \in Threads : pc[t] = "idle"
  /\ spc \in {"sleep", "spin"}
  /\ UNCHANGED vars

RequestStep(t) ==
  \/ SubscribeInsert(t) \/ UnsubscribeRemove(t)
  \/ UpdateSkip(t) \/ UpdateNotify(t)
  \/ UpdateSubRead(t) \/ UpdateSubWrite(t) \/ UpdateSubReset(t)

CacheStep(t) ==
  SubscribeCache(t) \/ UnsubscribeCache(t) \/ UpdateRecord(t) \/ UpdateSubCache(t)

Sync ==
  SyncSave \/ SyncDestroy \/ SyncRefresh \/ SyncCompare \/ SyncFlushCount \/ SyncFlushTime \/ SyncEnd

Next ==
  \/ \E t \in Threads :
       \/ SubscribeBegin(t) \/ UnsubscribeBegin(t) \/ UpdateMatch(t) \/ UpdateSubBegin(t)
       \/ RequestStep(t) \/ CacheStep(t)
  \/ Sync
  \/ Tick \/ Restart \/ Rest

Spec == Init /\ [][Next]_vars

\* Threads keep running. The refresher sleeps between two synchronisations, so
\* a thread that waits for the cache semaphore is not overtaken for ever.
FairSpec ==
  /\ Spec
  /\ \A t \in Threads : WF_vars(RequestStep(t)) /\ SF_vars(CacheStep(t))
  /\ WF_vars(Sync)
-----------------------------------------------------------------------------
(* Properties.                                                             *)

Triggered == [lnt : Int, throttling : Int, filter : BOOLEAN, passes : BOOLEAN]

\* Type invariant: documents and items are records of the fields above, the
\* cache semaphore is 0 or 1, and it is 0 exactly while the refresher works.
TypeOK ==
  /\ db \in [Subs -> Fields \cup {NULL}]
  /\ cache \in [Subs -> Seq(Fields)]
  /\ reqSem \in Threads \cup {NULL}
  /\ cacheSem = IF spc = "sleep" THEN 1 ELSE 0
  /\ now \in Nat
  /\ pc \in [Threads -> {"idle", "insert", "cacheInsert", "remove", "cacheRemove", "notify", "record",
                         "read", "write", "reset", "cacheUpdate"}]
  /\ sub \in [Threads -> Subs \cup {NULL}]
  /\ req \in [Threads -> Patches \cup {NULL}]
  /\ doc \in [Threads -> Fields \cup {NULL}]
  /\ cSubP \in [Threads -> {NULL, "item", "freed"}]
  /\ lnt \in [Threads -> Int]
  /\ trigs = [t \in Threads |-> trigs[t]]
  /\ \A t \in Threads : DOMAIN trigs[t] \subseteq Subs /\ trigs[t] \in [DOMAIN trigs[t] -> Triggered]
  /\ spc \in {"sleep", "spin", "destroy", "refresh", "compare", "flush"}
  /\ DOMAIN saved \subseteq Subs /\ saved \in [DOMAIN saved -> [lnt : Int, count : Int]]
  /\ todo \subseteq DOMAIN saved
  /\ requests \in Nat /\ restarts \in Nat
  /\ sent \in [Subs -> Nat] /\ lastSent \in [Subs -> Nat]
  /\ created \subseteq Subs /\ removed \subseteq Subs

\* A request is between its change of the database and its change of the cache.
Halfway(s) == \E t \in Threads : sub[t] = s /\ pc[t] \in {"cacheInsert", "cacheRemove", "reset", "cacheUpdate"}

\* No period and a period of 0 mean the same to the throttling checks.
Period(throttling) == IF throttling = Absent THEN 0 ELSE throttling

\* The cache agrees with the database: outside the requests that are changing
\* it, a subscription has one item if it has a document and none otherwise, the
\* item has the status and the throttling of the document, and it does not
\* know of fewer notifications than the document does.
CacheMirrorsDb ==
  \A s \in Subs :
    Halfway(s) \/
      IF db[s] = NULL THEN cache[s] = <<>>
      ELSE /\ Len(cache[s]) = 1
           /\ cache[s][1].status = db[s].status
           /\ Period(cache[s][1].throttling) = Period(db[s].throttling)
           /\ cache[s][1].lnt >= db[s].lnt

\* The list never has two items with the same subscription id: subCacheSync()
\* relies on it, and the code that looks an item up stops at the first.
OneItemPerSub == \A s \in Subs : Len(cache[s]) =< 1

\* Once mongoUnsubscribeContext() has answered, no synchronisation and no
\* concurrent update of the subscription brings the item back.
RemovedNotCached == \A s \in removed : cache[s] = <<>>

\* An update of context (not a new or updated subscription) notifies s.
OnChangeSend(s) == sent'[s] # sent[s] /\ \E t \in Threads : pc[t] = "notify" /\ pc'[t] = "record"

\* processSubscriptions() notifies only subscriptions that the database has and
\* has as active, although it decides from the cache.
SendsOnlyStoredActive ==
  [][\A s \in Subs : OnChangeSend(s) => db[s] # NULL /\ db[s].status = "active"]_vars

\* A notification caused by an update comes at least the throttling period of
\* the subscription after the one before, as long as the broker runs.
ThrottlingRespected ==
  [][\A s \in Subs : OnChangeSend(s) /\ restarts = 0 /\ lastSent[s] # 0 /\ db[s] # NULL
                       => now - lastSent[s] >= Period(db[s].throttling)]_vars

\* What is known of the number of notifications of s, wherever it is kept: in
\* the document, in the item, in the refresher's savedSubV, or in a thread that
\* has sent one and not yet noted it.
Accounted(s) ==
  LET inCache == IF spc # "destroy" /\ Cached(cache[s]) THEN cache[s][1].count ELSE 0
      inSync  == IF s \in DOMAIN saved THEN saved[s].count ELSE 0
  IN  FieldOr(db[s].count, 0) + inCache + inSync
        + Cardinality({t \in Threads : pc[t] = "record" /\ sub[t] = s})

\* Every notification is counted once: none is lost or counted twice when the
\* refresher moves the counts of the cache to the database, and what a client
\* is told (timesSent) is the number sent when nothing is under way.
CountsConserved ==
  \A s \in Subs : db[s] # NULL =>
    /\ Accounted(s) = sent[s]
    /\ spc = "sleep" /\ (\A t \in Threads : pc[t] = "idle") => timesSent(db[s], cache[s]) = sent[s]

\* subCacheSync() ends.
SyncTerminates == spc = "destroy" \/ spc = "spin" ~> spc = "sleep"

\* The counts of the cache reach the database sooner or later.
CountReachesDb ==
  \A s \in Subs : \A n \in 1 .. MaxRequests :
    sent[s] >= n ~> db[s] = NULL \/ db[s].count >= n
=============================================================================
