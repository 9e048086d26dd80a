--------------------------- MODULE SubCacheProofs ---------------------------
(***************************************************************************)
(* Proofs about SubCache, for any sets of subscriptions, threads and       *)
(* requests.                                                               *)
(***************************************************************************)
EXTENDS SubCache, WellFoundedInduction, TLAPS

\* What a thread's local variables hold while it needs them.
LocalsOK ==
  \A t \in Threads :
    /\ pc[t] \notin {"idle", "notify"} => sub[t] \in Subs
    /\ pc[t] \in {"insert", "cacheInsert", "read", "write", "reset", "cacheUpdate"} => doc[t] \in Fields
    /\ pc[t] \in {"read", "write", "reset", "cacheUpdate"} => req[t] \in Patches

\* The refresher has subscriptions to visit only while it flushes.
TodoOK == spc # "flush" => todo = {}

PcSet == {"idle", "insert", "cacheInsert", "remove", "cacheRemove", "notify", "record",
          "read", "write", "reset", "cacheUpdate"}

TypeInv == TypeOK /\ LocalsOK /\ TodoOK

-----------------------------------------------------------------------------
(* What the operators of SubCacheList return.                              *)

\* The provers that try a step, in this order.
USE ZenonT(6), SMTT(15)

\* The items that the handlers and the refresher make are well formed.
LEMMA ItemTypes ==
  ASSUME NEW d \in Fields
  PROVE  /\ NewItem(d) \in Fields
         /\ RefreshedItem(d) \in Fields
         /\ \A time \in Int, filter \in BOOLEAN : UpdatedItem(d, time, filter) \in Fields
BY DEF Fields, NewItem, RefreshedItem, UpdatedItem, FieldOr

\* So are the document of a new and of an updated subscription.
LEMMA SubscribedDocType ==
  ASSUME NEW r \in Request, NEW time \in Int
  PROVE  SubscribedDoc(r, time) \in Fields
<1>1. r.throttling \in Int /\ r.status \in {"unset", "active", "inactive"} /\ r.notify \in BOOLEAN
  BY DEF Request
<1>2. NewStatus(r) \in {"active", "inactive"}
  BY <1>1 DEF NewStatus
<1> QED
  BY <1>1, <1>2 DEF SubscribedDoc, Fields, Absent, NotGiven, notificationDone

\* The document that mongoUpdateContextSubscription() writes is well formed.
LEMMA UpdatedDocType ==
  ASSUME NEW r \in Request, NEW d \in Fields, NEW count \in Int, NEW time \in Int
  PROVE  UpdatedDoc(d, r, count, time) \in Fields
<1>1. r.throttling \in Int /\ r.status \in {"unset", "active", "inactive"} /\ r.notify \in BOOLEAN
  BY DEF Request
<1>2. /\ d.count \in Int /\ d.lnt \in Int /\ d.throttling \in Int
      /\ d.status \in {"active", "inactive"} /\ d.filter \in BOOLEAN
  BY DEF Fields
<1>3. UpdatedStatus(d, r) \in {"active", "inactive"}
  BY <1>1, <1>2 DEF UpdatedStatus
<1> DEFINE done == notificationDone(r, UpdatedStatus(d, r))
           keptCount == IF d.count = Absent THEN Absent ELSE count
           keptTime  == IF d.lnt = Absent \/ time < d.lnt THEN d.lnt ELSE time
           c == IF done THEN count + 1 ELSE keptCount
           l == IF done THEN time ELSE keptTime
           th == CASE r.throttling = NotGiven -> d.throttling
                   [] r.throttling = 0        -> Absent
                   [] OTHER                   -> r.throttling
           f == IF r.filter = "keep" THEN d.filter ELSE r.filter = "set"
<1>4. UpdatedDoc(d, r, count, time) =
        [count |-> c, lnt |-> l, throttling |-> th, status |-> UpdatedStatus(d, r), filter |-> f]
  BY DEF UpdatedDoc
<1>5. c \in Int /\ l \in Int /\ th \in Int
  BY <1>1, <1>2 DEF Absent, NotGiven, notificationDone, UpdatedStatus
<1>6. f \in BOOLEAN
  BY <1>2
<1> HIDE DEF c, l, th, f
<1> QED BY <1>3, <1>4, <1>5, <1>6 DEF Fields

\* Operations on the items of a subscription keep them a sequence of items.
LEMMA ListTypes ==
  ASSUME NEW items \in Seq(Fields)
  PROVE  /\ \A item \in Fields : subCacheItemInsert(items, item) \in Seq(Fields)
         /\ subCacheItemRemove(items) \in Seq(Fields)
         /\ Cached(items) => 1 \in DOMAIN items /\ items[1] \in Fields
BY DEF subCacheItemInsert, subCacheItemRemove, Cached

\* The first of some items is one of them.
LEMMA MinInSet ==
  ASSUME NEW S \in SUBSET Nat, S # {}
  PROVE  Min(S) \in S
<1> DEFINE R == OpToRel(<, Nat)
<1>1. \E x \in S : \A y \in S : ~ (<<y, x>> \in R)
  <2> HIDE DEF R
  <2>1. IsWellFoundedOn(R, Nat)
    BY NatLessThanWellFounded DEF R
  <2> QED BY <2>1, WFMin
<1>2. \A x, y \in Nat : <<y, x>> \in R <=> y < x
  BY DEF OpToRel
<1> HIDE DEF R
<1>3. PICK x \in S : \A y \in S : ~ (<<y, x>> \in R)
  BY <1>1
<1>4. \A y \in S : ~ (y < x)
  BY <1>2, <1>3
<1>5. \E z \in S : \A y \in S : z =< y
  BY <1>4
<1> QED BY <1>5 DEF Min

\* Noting a notification changes only the time and the count.
LEMMA NotedTypes ==
  ASSUME NEW item \in Fields, NEW time \in Int
  PROVE  /\ Noted(item, time) \in Fields
         /\ Noted(item, time).lnt = time
         /\ Noted(item, time).status = item.status
         /\ Noted(item, time).throttling = item.throttling
<1> DEFINE timed == [item EXCEPT !.lnt = time]
<1>1. timed \in Fields
  BY DEF Fields
<1>2. timed.lnt = time /\ timed.status = item.status /\ timed.throttling = item.throttling
  BY DEF Fields
<1>3. Noted(item, time) = [timed EXCEPT !.count = @ + 1]
  BY DEF Noted
<1> HIDE DEF timed
<1> QED BY <1>1, <1>2, <1>3 DEF Fields

\* Setting the count of an item to 0 keeps it well formed.
LEMMA ResetTypes ==
  ASSUME NEW item \in Fields
  PROVE  [item EXCEPT !.count = 0] \in Fields
BY DEF Fields

\* Writing to an item keeps the list well formed.
LEMMA WriteTypes ==
  ASSUME NEW items \in Seq(Fields), NEW i \in DOMAIN items, NEW time \in Int
  PROVE  /\ [items EXCEPT ![i] = Noted(@, time)] \in Seq(Fields)
         /\ [items EXCEPT ![i].count = 0] \in Seq(Fields)
<1>1. items[i] \in Fields
  OBVIOUS
<1>2. [items[i] EXCEPT !.count = 0] \in Fields
  BY <1>1, ResetTypes
<1>3. ASSUME NEW item \in Fields PROVE [items EXCEPT ![i] = item] \in Seq(Fields)
  OBVIOUS
<1>4. [items EXCEPT ![i] = Noted(@, time)] \in Seq(Fields)
  BY <1>1, <1>3, NotedTypes
<1>5. [items EXCEPT ![i].count = 0] \in Seq(Fields)
  BY <1>2, <1>3
<1> QED BY <1>4, <1>5

-----------------------------------------------------------------------------
(* The type invariant.                                                     *)

\* The broker starts in a well-formed state.
LEMMA TypeInit == Init => TypeInv
<1> SUFFICES ASSUME Init PROVE TypeInv
  OBVIOUS
<1>1. StoredDoc \subseteq Fields
  BY SubCacheAssumption DEF StoredDoc, Fields, Absent, Request
<1>2. db \in [Subs -> Fields \cup {NULL}]
  BY <1>1 DEF Init
<1>3. ASSUME NEW s \in Subs, db[s] # NULL PROVE <<RefreshedItem(db[s])>> \in Seq(Fields)
  <2>1. RefreshedItem(db[s]) \in Fields
    BY <1>2, <1>3 DEF RefreshedItem, Fields
  <2> QED BY <2>1
<1>4. cache \in [Subs -> Seq(Fields)]
  BY <1>3 DEF Init, CacheOf
<1>5. LocalsOK /\ TodoOK
  BY DEF Init, LocalsOK, TodoOK
<1> QED BY <1>2, <1>4, <1>5, SubCacheAssumption DEF Init, TypeInv, TypeOK, EmptyFcn

\* What a handler leaves behind when it returns.
LEMMA FinishType ==
  ASSUME TypeInv, NEW t \in Threads, NEW from, NEW S, Finish(t, from, S)
  PROVE  /\ pc' = [pc EXCEPT ![t] = "idle"] /\ pc' \in [Threads -> PcSet]
         /\ reqSem' \in Threads \cup {NULL}
         /\ sub' \in [Threads -> Subs \cup {NULL}]
         /\ req' \in [Threads -> Patches \cup {NULL}]
         /\ doc' \in [Threads -> Fields \cup {NULL}]
         /\ cSubP' \in [Threads -> {NULL, "item", "freed"}]
         /\ lnt' \in [Threads -> Int]
         /\ trigs' = [u \in Threads |-> trigs'[u]]
         /\ \A u \in Threads : DOMAIN trigs'[u] \subseteq Subs /\ trigs'[u] \in [DOMAIN trigs'[u] -> Triggered]
         /\ LocalsOK'
BY DEF Finish, Goto, reqSemGive, TypeInv, TypeOK, LocalsOK, EmptyFcn, PcSet

\* Sending keeps the history of notifications well formed.
LEMMA SendType ==
  ASSUME sent \in [Subs -> Nat], lastSent \in [Subs -> Nat], now \in Nat, NEW s \in Subs,
         Send(s) \/ UNCHANGED <<sent, lastSent>>
  PROVE  sent' \in [Subs -> Nat] /\ lastSent' \in [Subs -> Nat]
BY DEF Send

\* A database operation that fails ends the handler.
LEMMA FailType ==
  ASSUME TypeInv, NEW t \in Threads, NEW from, FailAndFinish(t, from)
  PROVE  TypeInv'
BY FinishType DEF FailAndFinish, syncVars, bounds, history, TypeInv, TypeOK, TodoOK, PcSet

\* Requests that begin: subscribe, unsubscribe, update context and update
\* subscription.
LEMMA SubscribeBeginType ==
  ASSUME TypeInv, NEW t \in Threads, SubscribeBegin(t)
  PROVE  TypeInv'
<1>1. PICK s \in Subs \ created, r \in Requests :
         /\ sub' = [sub EXCEPT ![t] = s]
         /\ created' = created \cup {s}
         /\ doc' = [doc EXCEPT ![t] = SubscribedDoc(r, now)]
         /\ \/ Send(s)
            \/ UNCHANGED <<sent, lastSent>>
  BY DEF SubscribeBegin
<1>2. SubscribedDoc(r, now) \in Fields
  BY SubscribedDocType, SubCacheAssumption DEF TypeInv, TypeOK
<1>3. sent' \in [Subs -> Nat] /\ lastSent' \in [Subs -> Nat]
  <2>1. sent \in [Subs -> Nat] /\ lastSent \in [Subs -> Nat] /\ now \in Nat
    BY DEF TypeInv, TypeOK
  <2> QED BY <1>1, <2>1, SendType
<1>4. LocalsOK'
  BY <1>1, <1>2 DEF SubscribeBegin, Goto, TypeInv, TypeOK, LocalsOK
<1>5. reqSem' \in Threads \cup {NULL} /\ requests' \in Nat /\ restarts' \in Nat
  BY DEF SubscribeBegin, Begin, reqSemTake, TypeInv, TypeOK
<1> QED
  BY <1>1, <1>2, <1>3, <1>4, <1>5 DEF SubscribeBegin, Goto, syncVars, TypeInv, TypeOK, TodoOK

\* mongoUnsubscribeContext() finds the document.
LEMMA UnsubscribeBeginType ==
  ASSUME TypeInv, NEW t \in Threads, UnsubscribeBegin(t)
  PROVE  TypeInv'
<1>1. PICK s \in Subs : sub' = [sub EXCEPT ![t] = s]
  BY DEF UnsubscribeBegin
<1>2. LocalsOK'
  BY <1>1 DEF UnsubscribeBegin, Goto, TypeInv, TypeOK, LocalsOK
<1>3. reqSem' \in Threads \cup {NULL} /\ requests' \in Nat /\ restarts' \in Nat
  BY DEF UnsubscribeBegin, Begin, reqSemTake, TypeInv, TypeOK
<1> QED
  BY <1>1, <1>2, <1>3 DEF UnsubscribeBegin, Goto, syncVars, history, TypeInv, TypeOK, TodoOK

\* mongoUpdateContextSubscription() reads the document and may notify.
LEMMA UpdateSubBeginType ==
  ASSUME TypeInv, NEW t \in Threads, UpdateSubBegin(t)
  PROVE  TypeInv'
<1>1. PICK s \in Subs, r \in Patches :
         /\ db[s] # NULL
         /\ sub' = [sub EXCEPT ![t] = s]
         /\ req' = [req EXCEPT ![t] = r]
         /\ doc' = [doc EXCEPT ![t] = db[s]]
         /\ \/ Send(s)
            \/ UNCHANGED <<sent, lastSent>>
  BY DEF UpdateSubBegin
<1>2. db[s] \in Fields
  BY <1>1 DEF TypeInv, TypeOK
<1>3. sent' \in [Subs -> Nat] /\ lastSent' \in [Subs -> Nat]
  <2>1. sent \in [Subs -> Nat] /\ lastSent \in [Subs -> Nat] /\ now \in Nat
    BY DEF TypeInv, TypeOK
  <2> QED BY <1>1, <2>1, SendType
<1>4. LocalsOK'
  BY <1>1, <1>2 DEF UpdateSubBegin, Goto, TypeInv, TypeOK, LocalsOK
<1>5. reqSem' \in Threads \cup {NULL} /\ requests' \in Nat /\ restarts' \in Nat
  BY DEF UpdateSubBegin, Begin, reqSemTake, TypeInv, TypeOK
<1> QED
  BY <1>1, <1>2, <1>3, <1>4, <1>5 DEF UpdateSubBegin, Goto, syncVars, TypeInv, TypeOK, TodoOK

\* The steps on the database and the cache of subscribe and unsubscribe.
LEMMA SubscribeType ==
  ASSUME TypeInv, NEW t \in Threads, SubscribeInsert(t) \/ SubscribeCache(t)
  PROVE  TypeInv'
<1>1. CASE FailAndFinish(t, "insert")
  BY <1>1, FailType
<1>2. CASE SubscribeInsert(t) /\ ~ FailAndFinish(t, "insert")
  <2>1. doc[t] \in Fields /\ sub[t] \in Subs
    BY <1>2 DEF SubscribeInsert, Goto, TypeInv, LocalsOK
  <2>2. LocalsOK'
    BY <1>2 DEF SubscribeInsert, Goto, TypeInv, TypeOK, LocalsOK
  <2>3. db' \in [Subs -> Fields \cup {NULL}]
    <3>1. db' = [db EXCEPT ![sub[t]] = doc[t]] /\ db \in [Subs -> Fields \cup {NULL}]
      BY <1>2 DEF SubscribeInsert, TypeInv, TypeOK
    <3> QED BY <2>1, <3>1
  <2> QED
    BY <1>2, <2>2, <2>3 DEF SubscribeInsert, Goto, syncVars, bounds, history, TypeInv, TypeOK, TodoOK
<1>3. CASE SubscribeCache(t)
  <2>1. doc[t] \in Fields /\ sub[t] \in Subs /\ cache[sub[t]] \in Seq(Fields)
    BY <1>3 DEF SubscribeCache, CacheSection, TypeInv, TypeOK, LocalsOK
  <2>2. subCacheItemInsert(cache[sub[t]], NewItem(doc[t])) \in Seq(Fields)
    <3>1. NewItem(doc[t]) \in Fields
      BY <2>1, ItemTypes
    <3> QED BY <2>1, <3>1, ListTypes
  <2>3. cache' \in [Subs -> Seq(Fields)]
    BY <1>3, <2>1, <2>2 DEF SubscribeCache, TypeInv, TypeOK
  <2>4. Finish(t, "cacheInsert", {})
    BY <1>3 DEF SubscribeCache
  <2> QED
    BY <1>3, <2>3, <2>4, FinishType DEF SubscribeCache, CacheSection, syncVars, bounds, history, TypeInv, TypeOK, TodoOK, PcSet
<1> QED BY <1>1, <1>2, <1>3

\* The document and then the item of an unsubscribed subscription go.
LEMMA UnsubscribeType ==
  ASSUME TypeInv, NEW t \in Threads, UnsubscribeRemove(t) \/ UnsubscribeCache(t)
  PROVE  TypeInv'
<1>1. CASE FailAndFinish(t, "remove")
  BY <1>1, FailType
<1>2. CASE UnsubscribeRemove(t) /\ ~ FailAndFinish(t, "remove")
  <2>1. db' \in [Subs -> Fields \cup {NULL}]
    BY <1>2 DEF UnsubscribeRemove, TypeInv, TypeOK
  <2>2. LocalsOK'
    BY <1>2 DEF UnsubscribeRemove, Goto, TypeInv, TypeOK, LocalsOK
  <2> QED
    BY <1>2, <2>1, <2>2 DEF UnsubscribeRemove, Goto, syncVars, bounds, history, TypeInv, TypeOK, TodoOK
<1>3. CASE UnsubscribeCache(t)
  <2>1. sub[t] \in Subs /\ cache[sub[t]] \in Seq(Fields)
    BY <1>3 DEF UnsubscribeCache, CacheSection, TypeInv, TypeOK, LocalsOK
  <2>2. subCacheItemRemove(cache[sub[t]]) \in Seq(Fields)
    BY <2>1 DEF subCacheItemRemove
  <2>3. cache' \in [Subs -> Seq(Fields)]
    BY <1>3, <2>1, <2>2 DEF UnsubscribeCache, TypeInv, TypeOK
  <2>4. Finish(t, "cacheRemove", {sub[t]})
    BY <1>3 DEF UnsubscribeCache
  <2> QED
    BY <1>3, <2>1, <2>3, <2>4, FinishType DEF UnsubscribeCache, CacheSection, syncVars, bounds, history, TypeInv, TypeOK, TodoOK, PcSet
<1> QED BY <1>1, <1>2, <1>3

\* The steps of an update of context.
LEMMA UpdateMatchType ==
  ASSUME TypeInv, NEW t \in Threads, UpdateMatch(t)
  PROVE  TypeInv'
<1>1. PICK hit \in SUBSET Subs, passes \in Outcomes :
         /\ \A s \in hit : \E i \in DOMAIN cache[s] : ~ Blocked(cache[s][i], now)
         /\ trigs' = [trigs EXCEPT ![t] = [s \in hit |-> TriggeredSubscription(cache[s], passes)]]
  BY DEF UpdateMatch
<1>2. ASSUME NEW s \in hit PROVE TriggeredSubscription(cache[s], passes) \in Triggered
  <2> DEFINE open == {i \in DOMAIN cache[s] : ~ Blocked(cache[s][i], now)}
  <2>1. cache[s] \in Seq(Fields) /\ passes \in BOOLEAN
    BY <1>1, SubCacheAssumption DEF TypeInv, TypeOK
  <2>2. open \in SUBSET Nat /\ open # {} /\ open \subseteq DOMAIN cache[s]
    <3>1. DOMAIN cache[s] \subseteq Nat
      BY <2>1
    <3>2. PICK i \in DOMAIN cache[s] : ~ Blocked(cache[s][i], now)
      BY <1>1
    <3> QED BY <3>1, <3>2
  <2> DEFINE first == Min(open)
             item  == cache[s][first]
  <2>3. first \in DOMAIN cache[s]
    <3> HIDE DEF open
    <3> QED BY <2>2, MinInSet
  <2>4. item \in Fields
    <3> HIDE DEF first
    <3> QED BY <2>1, <2>3
  <2>5. TriggeredSubscription(cache[s], passes)
          = [lnt |-> item.lnt, throttling |-> item.throttling, filter |-> item.filter, passes |-> passes]
    BY DEF TriggeredSubscription
  <2> HIDE DEF item
  <2> QED BY <2>1, <2>4, <2>5 DEF Triggered, Fields
<1> DEFINE mine == [s \in hit |-> TriggeredSubscription(cache[s], passes)]
<1>3. DOMAIN mine \subseteq Subs /\ mine \in [DOMAIN mine -> Triggered]
  <2> HIDE DEF Triggered
  <2> QED BY <1>1, <1>2
<1> HIDE DEF mine
<1>4. LocalsOK'
  BY DEF UpdateMatch, Goto, TypeInv, TypeOK, LocalsOK
<1>5. reqSem' \in Threads \cup {NULL} /\ requests' \in Nat /\ restarts' \in Nat
  BY DEF UpdateMatch, Begin, reqSemTake, TypeInv, TypeOK
<1>6. /\ trigs' = [u \in Threads |-> trigs'[u]]
      /\ \A u \in Threads : DOMAIN trigs'[u] \subseteq Subs /\ trigs'[u] \in [DOMAIN trigs'[u] -> Triggered]
  <2>1. trigs' = [trigs EXCEPT ![t] = mine]
    BY <1>1 DEF mine
  <2>2. /\ trigs = [u \in Threads |-> trigs[u]]
        /\ \A u \in Threads : DOMAIN trigs[u] \subseteq Subs /\ trigs[u] \in [DOMAIN trigs[u] -> Triggered]
    BY DEF TypeInv, TypeOK
  <2> QED BY <1>3, <2>1, <2>2
<1>7. /\ pc' \in [Threads -> PcSet]
      /\ UNCHANGED <<db, cache, cacheSem, now, sub, req, doc, cSubP, lnt, syncVars, history>>
  BY DEF UpdateMatch, CacheSection, Goto, TypeInv, TypeOK, PcSet
<1> QED
  BY <1>4, <1>5, <1>6, <1>7 DEF syncVars, history, TypeInv, TypeOK, TodoOK, PcSet

\* The loop over the triggered subscriptions goes on or ends.
LEMMA DoneWithType ==
  ASSUME TypeInv, NEW t \in Threads, NEW from, NEW s, DoneWith(t, from, s)
  PROVE  /\ pc' \in [Threads -> PcSet]
         /\ reqSem' \in Threads \cup {NULL}
         /\ sub' \in [Threads -> Subs \cup {NULL}]
         /\ req' \in [Threads -> Patches \cup {NULL}]
         /\ doc' \in [Threads -> Fields \cup {NULL}]
         /\ cSubP' \in [Threads -> {NULL, "item", "freed"}]
         /\ lnt' \in [Threads -> Int]
         /\ trigs' = [u \in Threads |-> trigs'[u]]
         /\ \A u \in Threads : DOMAIN trigs'[u] \subseteq Subs /\ trigs'[u] \in [DOMAIN trigs'[u] -> Triggered]
         /\ LocalsOK'
<1>1. CASE DOMAIN trigs[t] = {s}
  BY <1>1, FinishType DEF DoneWith
<1>2. CASE DOMAIN trigs[t] # {s}
  <2> DEFINE rest == Restrict(trigs[t], DOMAIN trigs[t] \ {s})
  <2>1. /\ Goto(t, from, "notify")
        /\ trigs' = [trigs EXCEPT ![t] = rest]
        /\ UNCHANGED <<reqSem, sub, req, doc, cSubP, lnt>>
    BY <1>2 DEF DoneWith
  <2>2. /\ trigs = [u \in Threads |-> trigs[u]]
        /\ \A u \in Threads : DOMAIN trigs[u] \subseteq Subs /\ trigs[u] \in [DOMAIN trigs[u] -> Triggered]
    BY DEF TypeInv, TypeOK
  <2>3. DOMAIN rest \subseteq Subs /\ rest \in [DOMAIN rest -> Triggered]
    BY <2>2 DEF Restrict
  <2>4. LocalsOK' /\ pc' \in [Threads -> PcSet]
    BY <2>1 DEF Goto, TypeInv, TypeOK, LocalsOK, PcSet
  <2> HIDE DEF rest
  <2>5. /\ trigs' = [u \in Threads |-> trigs'[u]]
        /\ \A u \in Threads : DOMAIN trigs'[u] \subseteq Subs /\ trigs'[u] \in [DOMAIN trigs'[u] -> Triggered]
    BY <2>1, <2>2, <2>3
  <2> QED BY <2>1, <2>4, <2>5 DEF TypeInv, TypeOK
<1> QED BY <1>1, <1>2

\* The steps of the loop: drop, notify, note.
LEMMA UpdateLoopType ==
  ASSUME TypeInv, NEW t \in Threads, UpdateSkip(t) \/ UpdateNotify(t) \/ UpdateRecord(t)
  PROVE  TypeInv'
<1>1. CASE UpdateSkip(t)
  <2>1. PICK s \in DOMAIN trigs[t] : DoneWith(t, "notify", s)
    BY <1>1 DEF UpdateSkip
  <2>2. UNCHANGED <<db, cache, cacheSem, now, syncVars, bounds, history>>
    BY <1>1 DEF UpdateSkip
  <2> QED BY <2>1, <2>2, DoneWithType DEF syncVars, bounds, history, TypeInv, TypeOK, TodoOK, PcSet
<1>2. CASE UpdateNotify(t)
  <2>1. PICK s \in DOMAIN trigs[t] : Send(s) /\ sub' = [sub EXCEPT ![t] = s]
    BY <1>2 DEF UpdateNotify
  <2>2. s \in Subs
    BY DEF TypeInv, TypeOK
  <2>3. sent' \in [Subs -> Nat] /\ lastSent' \in [Subs -> Nat]
    <3>1. sent \in [Subs -> Nat] /\ lastSent \in [Subs -> Nat] /\ now \in Nat
      BY DEF TypeInv, TypeOK
    <3> QED BY <2>1, <2>2, <3>1, SendType
  <2>4. LocalsOK'
    BY <1>2, <2>1, <2>2 DEF UpdateNotify, Goto, TypeInv, TypeOK, LocalsOK
  <2>5. lnt' \in [Threads -> Int] /\ sub' \in [Threads -> Subs \cup {NULL}]
    BY <1>2, <2>1, <2>2 DEF UpdateNotify, TypeInv, TypeOK
  <2> QED
    BY <1>2, <2>3, <2>4, <2>5 DEF UpdateNotify, Goto, syncVars, bounds, TypeInv, TypeOK, TodoOK
<1>3. CASE UpdateRecord(t)
  <2>1. /\ sub[t] \in Subs /\ cache \in [Subs -> Seq(Fields)] /\ lnt[t] \in Int
    BY <1>3 DEF UpdateRecord, CacheSection, TypeInv, TypeOK, LocalsOK
  <2> DEFINE new == [cache[sub[t]] EXCEPT ![1] = Noted(cache[sub[t]][1], lnt[t])]
  <2>2. cache' = IF Cached(cache[sub[t]]) THEN [cache EXCEPT ![sub[t]] = new] ELSE cache
    BY <1>3 DEF UpdateRecord
  <2>3. cache' \in [Subs -> Seq(Fields)]
    <3>1. Cached(cache[sub[t]]) => new \in Seq(Fields)
      BY <2>1, ListTypes, WriteTypes
    <3> HIDE DEF new
    <3> QED BY <2>1, <2>2, <3>1
  <2>4. DoneWith(t, "record", sub[t]) /\ UNCHANGED <<db, cacheSem, now, syncVars, bounds, history>>
    BY <1>3 DEF UpdateRecord, CacheSection
  <2> QED BY <2>3, <2>4, DoneWithType DEF syncVars, bounds, history, TypeInv, TypeOK, TodoOK, PcSet
<1> QED BY <1>1, <1>2, <1>3

\* The steps of an update of a subscription.
LEMMA UpdateSubReadType ==
  ASSUME TypeInv, NEW t \in Threads, UpdateSubRead(t)
  PROVE  TypeInv'
<1> DEFINE s     == sub[t]
           hit   == Cached(cache[s])
           item  == subCacheItemLookup(cache[s])
           done  == notificationDone(req[t], UpdatedStatus(doc[t], req[t]))
           count == timesSent(doc[t], cache[s])
           time  == IF done THEN now ELSE IF hit THEN item.lnt ELSE 0
           new   == [cache[s] EXCEPT ![1] = Noted(cache[s][1], now)]
           newDoc == UpdatedDoc(doc[t], req[t], count, time)
<1>1. /\ s \in Subs /\ doc[t] \in Fields /\ req[t] \in Request
      /\ cache \in [Subs -> Seq(Fields)] /\ now \in Int /\ cache[s] \in Seq(Fields)
  <2>1. s \in Subs /\ doc[t] \in Fields /\ req[t] \in Patches
    BY DEF UpdateSubRead, Goto, TypeInv, LocalsOK
  <2>2. cache \in [Subs -> Seq(Fields)] /\ now \in Int
    BY DEF TypeInv, TypeOK
  <2> QED BY <2>1, <2>2, SubCacheAssumption
<1>2. hit => item \in Fields
  BY <1>1, ListTypes DEF subCacheItemLookup
<1>3. count \in Int
  <2>1. doc[t].count \in Int /\ (hit => item.count \in Int)
    BY <1>1, <1>2 DEF Fields
  <2>2. count = FieldOr(doc[t].count, 0) + IF hit THEN item.count ELSE 0
    BY DEF timesSent
  <2> HIDE DEF count, hit, item
  <2> QED BY <2>1, <2>2 DEF FieldOr
<1>4. time \in Int
  <2>1. done \in BOOLEAN
    BY DEF notificationDone
  <2>2. hit => item.lnt \in Int
    BY <1>2 DEF Fields
  <2> HIDE DEF done, hit, item
  <2> QED BY <1>1, <2>1, <2>2
<1>5. newDoc \in Fields
  <2> HIDE DEF count, time
  <2> QED BY <1>1, <1>3, <1>4, UpdatedDocType
<1>6. hit => new \in Seq(Fields)
  BY <1>1, ListTypes, WriteTypes
<1>7. /\ doc' = [doc EXCEPT ![t] = newDoc]
      /\ lnt' = [lnt EXCEPT ![t] = time]
      /\ cSubP' = [cSubP EXCEPT ![t] = IF hit THEN "item" ELSE NULL]
      /\ cache' = IF done /\ hit THEN [cache EXCEPT ![s] = new] ELSE cache
  BY DEF UpdateSubRead
<1> HIDE DEF hit, done, time, new, newDoc
<1>8. /\ cache' \in [Subs -> Seq(Fields)]
      /\ doc' \in [Threads -> Fields \cup {NULL}]
      /\ lnt' \in [Threads -> Int]
      /\ cSubP' \in [Threads -> {NULL, "item", "freed"}]
  BY <1>1, <1>4, <1>5, <1>6, <1>7 DEF TypeInv, TypeOK
<1>9. LocalsOK'
  BY <1>1, <1>5, <1>7 DEF UpdateSubRead, Goto, TypeInv, TypeOK, LocalsOK
<1> QED
  BY <1>8, <1>9 DEF UpdateSubRead, Goto, syncVars, bounds, history, TypeInv, TypeOK, TodoOK

\* The write of the updated document.
LEMMA UpdateSubWriteType ==
  ASSUME TypeInv, NEW t \in Threads, UpdateSubWrite(t)
  PROVE  TypeInv'
<1>1. CASE FailAndFinish(t, "write")
  BY <1>1, FailType
<1>2. CASE UpdateSubWrite(t) /\ ~ FailAndFinish(t, "write")
  <2>1. sub[t] \in Subs /\ doc[t] \in Fields /\ req[t] \in Patches
    BY <1>2 DEF UpdateSubWrite, Goto, TypeInv, LocalsOK
  <2>2. db' \in [Subs -> Fields \cup {NULL}]
    BY <1>2, <2>1 DEF UpdateSubWrite, TypeInv, TypeOK
  <2>3. LocalsOK'
    BY <1>2, <2>1 DEF UpdateSubWrite, Goto, TypeInv, TypeOK, LocalsOK
  <2> QED
    BY <1>2, <2>2, <2>3 DEF UpdateSubWrite, Goto, syncVars, bounds, history, TypeInv, TypeOK, TodoOK
<1> QED BY <1>1, <1>2

\* The reset of the count, also through a pointer to a deleted item.
LEMMA UpdateSubResetType ==
  ASSUME TypeInv, NEW t \in Threads, UpdateSubReset(t)
  PROVE  TypeInv'
<1>1. sub[t] \in Subs /\ cSubP[t] \in {NULL, "item", "freed"} /\ cache \in [Subs -> Seq(Fields)]
  BY DEF UpdateSubReset, Goto, TypeInv, TypeOK, LocalsOK
<1>2. ASSUME NEW s \in Subs, NEW i \in Nat PROVE [cache EXCEPT ![s][i].count = 0] \in [Subs -> Seq(Fields)]
  <2> DEFINE new == [cache[s] EXCEPT ![i].count = 0]
  <2>1. CASE i \in DOMAIN cache[s]
    BY <1>1, <2>1, WriteTypes
  <2>2. CASE i \notin DOMAIN cache[s]
    <3>1. new = cache[s]
      BY <1>1, <2>2
    <3> QED BY <1>1, <3>1
  <2> QED BY <2>1, <2>2
<1>3. cache' \in [Subs -> Seq(Fields)]
  <2>1. CASE UNCHANGED cache
    BY <1>1, <2>1
  <2>2. CASE cache' = [cache EXCEPT ![sub[t]][1].count = 0]
    BY <1>1, <1>2, <2>2
  <2>3. CASE \E s \in Subs : \E i \in DOMAIN cache[s] : cache' = [cache EXCEPT ![s][i].count = 0]
    <3>1. PICK s \in Subs : \E i \in DOMAIN cache[s] : cache' = [cache EXCEPT ![s][i].count = 0]
      BY <2>3
    <3>2. PICK i \in DOMAIN cache[s] : cache' = [cache EXCEPT ![s][i].count = 0]
      BY <3>1
    <3>3. i \in Nat
      BY <1>1
    <3> QED BY <1>2, <3>2, <3>3
  <2>4. \/ UNCHANGED cache
        \/ cache' = [cache EXCEPT ![sub[t]][1].count = 0]
        \/ \E s \in Subs : \E i \in DOMAIN cache[s] : cache' = [cache EXCEPT ![s][i].count = 0]
    BY <1>1 DEF UpdateSubReset
  <2> QED BY <2>1, <2>2, <2>3, <2>4
<1>4. LocalsOK'
  BY DEF UpdateSubReset, Goto, TypeInv, TypeOK, LocalsOK
<1> QED
  BY <1>3, <1>4 DEF UpdateSubReset, Goto, syncVars, bounds, history, TypeInv, TypeOK, TodoOK

\* The replacement of the cached item.
LEMMA UpdateSubCacheType ==
  ASSUME TypeInv, NEW t \in Threads, UpdateSubCache(t)
  PROVE  TypeInv'
<1> DEFINE s    == sub[t]
           item == UpdatedItem(doc[t], lnt[t], req[t].filter = "set")
           new  == IF Cached(cache[s]) THEN subCacheItemRemove(subCacheItemInsert(cache[s], item)) ELSE cache[s]
<1>1. s \in Subs /\ doc[t] \in Fields /\ lnt[t] \in Int /\ cache[s] \in Seq(Fields)
  BY DEF UpdateSubCache, CacheSection, TypeInv, TypeOK, LocalsOK
<1>2. item \in Fields
  BY <1>1, ItemTypes
<1>3. new \in Seq(Fields)
  <2> HIDE DEF item
  <2> QED BY <1>1, <1>2, ListTypes
<1>4. cache' = [cache EXCEPT ![s] = new]
  BY DEF UpdateSubCache
<1> HIDE DEF new
<1>5. cache' \in [Subs -> Seq(Fields)]
  BY <1>1, <1>3, <1>4 DEF TypeInv, TypeOK
<1>6. Finish(t, "cacheUpdate", {sub[t]})
  BY DEF UpdateSubCache
<1> QED
  BY <1>5, <1>6, FinishType DEF UpdateSubCache, CacheSection, syncVars, bounds, history, TypeInv, TypeOK, TodoOK, PcSet

\* The steps of a synchronisation.
LEMMA SyncCacheType ==
  ASSUME TypeInv, SyncSave \/ SyncDestroy \/ SyncRefresh
  PROVE  TypeInv'
<1>1. CASE SyncSave
  <2>1. CASE \E s \in Subs : Len(cache[s]) > 1
    BY <1>1, <2>1 DEF SyncSave, SyncGoto, threadVars, bounds, history, TypeInv, TypeOK, LocalsOK, TodoOK
  <2>2. CASE ~ \E s \in Subs : Len(cache[s]) > 1
    <3> DEFINE K == {x \in Subs : Cached(cache[x])}
    <3>1. saved' = [s \in K |-> [lnt |-> cache[s][1].lnt, count |-> cache[s][1].count]]
      BY <1>1, <2>2 DEF SyncSave
    <3>2. ASSUME NEW s \in K PROVE cache[s][1].lnt \in Int /\ cache[s][1].count \in Int
      <4>1. cache[s][1] \in Fields
        BY ListTypes DEF TypeInv, TypeOK
      <4> QED BY <4>1 DEF Fields
    <3>3. DOMAIN saved' = K /\ K \subseteq Subs /\ saved' \in [K -> [lnt : Int, count : Int]]
      <4> HIDE DEF K
      <4> QED BY <3>1, <3>2 DEF K
    <3>4. todo = {} /\ todo' = {} /\ spc' = "destroy" /\ cacheSem' = 0
      BY <1>1, <2>2 DEF SyncSave, SyncGoto, TypeInv, TodoOK
    <3> HIDE DEF K
    <3> QED
      BY <1>1, <3>3, <3>4 DEF SyncSave, threadVars, bounds, history, TypeInv, TypeOK, LocalsOK, TodoOK
  <2> QED BY <2>1, <2>2
<1>2. CASE SyncDestroy
  <2>1. cache' \in [Subs -> Seq(Fields)]
    BY <1>2 DEF SyncDestroy
  <2>2. cSubP' \in [Threads -> {NULL, "item", "freed"}]
    BY <1>2 DEF SyncDestroy, TypeInv, TypeOK
  <2> QED
    BY <1>2, <2>1, <2>2 DEF SyncDestroy, SyncGoto, bounds, history, TypeInv, TypeOK, LocalsOK, TodoOK
<1>3. CASE SyncRefresh
  <2>1. PICK read \in SUBSET {s \in Subs : db[s] # NULL} :
          cache' = [s \in Subs |-> IF s \in read THEN subCacheItemInsert(cache[s], RefreshedItem(db[s])) ELSE cache[s]]
    BY <1>3 DEF SyncRefresh
  <2>2. ASSUME NEW s \in Subs PROVE cache'[s] \in Seq(Fields)
    <3>1. cache[s] \in Seq(Fields) /\ (s \in read => db[s] \in Fields)
      BY DEF TypeInv, TypeOK
    <3>2. s \in read => RefreshedItem(db[s]) \in Fields
      BY <3>1, ItemTypes
    <3> QED BY <2>1, <3>1, <3>2, ListTypes
  <2>3. cache' \in [Subs -> Seq(Fields)]
    BY <2>1, <2>2
  <2> QED
    BY <1>3, <2>3 DEF SyncRefresh, SyncGoto, threadVars, bounds, history, TypeInv, TypeOK, LocalsOK, TodoOK
<1> QED BY <1>1, <1>2, <1>3

\* The comparison with the saved values, and the writes to the database.
LEMMA SyncFlushType ==
  ASSUME TypeInv, SyncCompare \/ SyncFlushCount \/ SyncFlushTime \/ SyncEnd
  PROVE  TypeInv'
<1> DEFINE Pair == [lnt : Int, count : Int]
<1>0. DOMAIN saved \subseteq Subs /\ saved \in [DOMAIN saved -> Pair] /\ db \in [Subs -> Fields \cup {NULL}]
  BY DEF TypeInv, TypeOK
<1>1. CASE SyncCompare
  <2>1. /\ todo' = {s \in DOMAIN saved : Cached(cache[s])}
        /\ saved' = [s \in DOMAIN saved |->
             IF s \in todo' /\ saved[s].lnt =< cache[s][1].lnt THEN [saved[s] EXCEPT !.lnt = 0] ELSE saved[s]]
    BY <1>1 DEF SyncCompare
  <2>2. DOMAIN saved' = DOMAIN saved /\ saved' \in [DOMAIN saved -> Pair]
    BY <1>0, <2>1
  <2> QED
    BY <1>0, <1>1, <2>1, <2>2 DEF SyncCompare, SyncGoto, threadVars, bounds, history, TypeInv, TypeOK, LocalsOK, TodoOK
<1>2. CASE SyncFlushCount \/ SyncFlushTime
  <2>1. Visited \in todo /\ Visited \in DOMAIN saved /\ Visited \in Subs
    BY <1>2, <1>0 DEF SyncFlushCount, SyncFlushTime, Visited, TypeInv, TypeOK
  <2> DEFINE v == Visited
  <2>2. saved[v] \in Pair
    BY <1>0, <2>1
  <2> HIDE DEF v
  <2>3. CASE SyncFlushCount
    <3> DEFINE new  == IF db[v] = NULL THEN NULL ELSE CountAdded(db[v], saved[v].count)
               pair == [saved[v] EXCEPT !.count = 0]
    <3>1. db' = db \/ db' = [db EXCEPT ![v] = new]
      BY <2>3 DEF SyncFlushCount, v
    <3>2. new \in Fields \cup {NULL}
      BY <1>0, <2>1, <2>2 DEF Fields, FieldOr, CountAdded, v
    <3>3. saved' = [saved EXCEPT ![v] = pair]
      BY <2>3 DEF SyncFlushCount, v
    <3>4. DOMAIN saved' = DOMAIN saved /\ saved' \in [DOMAIN saved -> Pair]
      <4>1. pair \in Pair
        BY <2>2
      <4> HIDE DEF pair, Pair
      <4> QED BY <1>0, <3>3, <4>1
    <3> HIDE DEF new, pair
    <3>5. db' \in [Subs -> Fields \cup {NULL}]
      BY <1>0, <3>1, <3>2
    <3> QED
      BY <2>3, <3>4, <3>5 DEF SyncFlushCount, threadVars, bounds, history, TypeInv, TypeOK, LocalsOK, TodoOK
  <2>4. CASE SyncFlushTime
    <3> DEFINE new == IF db[v] = NULL \/ saved[v].lnt = 0 \/ (db[v].lnt # Absent /\ db[v].lnt >= saved[v].lnt)
                      THEN db[v] ELSE [db[v] EXCEPT !.lnt = saved[v].lnt]
    <3>1. db' = db \/ db' = [db EXCEPT ![v] = new]
      BY <2>4 DEF SyncFlushTime, v
    <3>2. new \in Fields \cup {NULL}
      <4>1. db[v] \in Fields \cup {NULL} /\ saved[v].lnt \in Int
        BY <1>0, <2>1, <2>2 DEF v
      <4>2. db[v] # NULL => [db[v] EXCEPT !.lnt = saved[v].lnt] \in Fields
        BY <4>1 DEF Fields
      <4> QED BY <4>1, <4>2
    <3> HIDE DEF new
    <3>5. db' \in [Subs -> Fields \cup {NULL}]
      BY <1>0, <3>1, <3>2
    <3> QED
      BY <2>4, <3>5 DEF SyncFlushTime, threadVars, bounds, history, TypeInv, TypeOK, LocalsOK, TodoOK
  <2> QED BY <1>2, <2>3, <2>4
<1>3. CASE SyncEnd
  BY <1>3 DEF SyncEnd, SyncGoto, EmptyFcn, threadVars, bounds, history, TypeInv, TypeOK, LocalsOK, TodoOK
<1> QED BY <1>1, <1>2, <1>3

\* The clock, and a restart of the broker.
LEMMA TickRestartType ==
  ASSUME TypeInv, Tick \/ Restart
  PROVE  TypeInv'
<1>1. CASE Tick
  BY <1>1 DEF Tick, threadVars, syncVars, bounds, history, TypeInv, TypeOK, LocalsOK, TodoOK
<1>2. CASE Restart
  <2>1. ASSUME NEW s \in Subs, db[s] # NULL PROVE <<RefreshedItem(db[s])>> \in Seq(Fields)
    <3>1. db[s] \in Fields
      BY <2>1 DEF TypeInv, TypeOK
    <3>2. RefreshedItem(db[s]) \in Fields
      BY <3>1, ItemTypes
    <3> QED BY <3>2
  <2>2. cache' \in [Subs -> Seq(Fields)]
    BY <1>2, <2>1 DEF Restart, CacheOf
  <2> QED
    BY <1>2, <2>2 DEF Restart, EmptyFcn, history, TypeInv, TypeOK, LocalsOK, TodoOK
<1> QED BY <1>1, <1>2

\* Every step keeps the type invariant.
LEMMA TypeNext == TypeInv /\ [Next]_vars => TypeInv'
<1> SUFFICES ASSUME TypeInv, [Next]_vars PROVE TypeInv'
  OBVIOUS
<1>1. ASSUME NEW t \in Threads,
             SubscribeBegin(t) \/ UnsubscribeBegin(t) \/ UpdateMatch(t) \/ UpdateSubBegin(t)
      PROVE  TypeInv'
  BY <1>1, SubscribeBeginType, UnsubscribeBeginType, UpdateMatchType, UpdateSubBeginType
<1>2. ASSUME NEW t \in Threads, RequestStep(t) \/ CacheStep(t) PROVE TypeInv'
  BY <1>2, SubscribeType, UnsubscribeType, UpdateLoopType, UpdateSubReadType, UpdateSubWriteType,
     UpdateSubResetType, UpdateSubCacheType DEF RequestStep, CacheStep
<1>3. CASE Sync
  BY <1>3, SyncCacheType, SyncFlushType DEF Sync
<1>4. CASE Tick \/ Restart
  BY <1>4, TickRestartType
<1>5. CASE UNCHANGED vars
  BY <1>5 DEF vars, threadVars, syncVars, bounds, history, TypeInv, TypeOK, LocalsOK, TodoOK
<1> QED BY <1>1, <1>2, <1>3, <1>4, <1>5 DEF Next, Rest

\* The type invariant holds for any number of subscriptions, threads and
\* requests: in particular the cache semaphore is 0 exactly while subCacheSync()
\* works, so every section that waits for it runs outside a synchronisation.
THEOREM SubCacheTypeCorrect == Spec => []TypeOK
<1>1. TypeInv => TypeOK
  BY DEF TypeInv
<1> QED BY <1>1, TypeInit, TypeNext, PTL DEF Spec

-----------------------------------------------------------------------------
(* How the steps change the number of items, the documents and the place   *)
(* of the threads.                                                         *)

\* A write to an item leaves the number of items alone.
LEMMA WriteLen ==
  ASSUME NEW items \in Seq(Fields), NEW i, NEW item
  PROVE  Len([items EXCEPT ![i] = item]) = Len(items)
<1> DEFINE new == [items EXCEPT ![i] = item]
<1>1. DOMAIN new = 1 .. Len(items) /\ Len(items) \in Nat
  OBVIOUS
<1> QED BY <1>1

\* Only the cache insertion of a new subscription, the refresh and the startup
\* add items.
LEMMA CacheShrinks ==
  ASSUME TypeInv, [Next]_vars, ~ SyncRefresh, ~ Restart,
         \A t \in Threads : ~ SubscribeCache(t)
  PROVE  \A s \in Subs : Len(cache'[s]) =< Len(cache[s])
<1>0. cache \in [Subs -> Seq(Fields)] /\ \A s \in Subs : Len(cache[s]) \in Nat
  BY DEF TypeInv, TypeOK
<1>1. CASE UNCHANGED cache
  BY <1>0, <1>1
<1>2. ASSUME NEW t \in Threads, UnsubscribeCache(t) PROVE \A s \in Subs : Len(cache'[s]) =< Len(cache[s])
  <2>1. cache' = [cache EXCEPT ![sub[t]] = subCacheItemRemove(cache[sub[t]])]
    BY <1>2 DEF UnsubscribeCache
  <2>2. ASSUME NEW q \in Seq(Fields) PROVE Len(subCacheItemRemove(q)) =< Len(q)
    BY DEF subCacheItemRemove
  <2> QED BY <1>0, <2>1, <2>2
<1>3. ASSUME NEW t \in Threads, UpdateRecord(t) PROVE \A s \in Subs : Len(cache'[s]) =< Len(cache[s])
  <2> DEFINE new == [cache[sub[t]] EXCEPT ![1] = Noted(cache[sub[t]][1], lnt[t])]
  <2>1. cache' = cache \/ cache' = [cache EXCEPT ![sub[t]] = new]
    BY <1>3 DEF UpdateRecord
  <2>2. sub[t] \in Subs => Len(new) = Len(cache[sub[t]])
    BY <1>0, WriteLen
  <2> HIDE DEF new
  <2> QED BY <1>0, <2>1, <2>2
<1>4. ASSUME NEW t \in Threads, UpdateSubRead(t) PROVE \A s \in Subs : Len(cache'[s]) =< Len(cache[s])
  <2> DEFINE new == [cache[sub[t]] EXCEPT ![1] = Noted(cache[sub[t]][1], now)]
  <2>1. cache' = cache \/ cache' = [cache EXCEPT ![sub[t]] = new]
    BY <1>4 DEF UpdateSubRead
  <2>2. sub[t] \in Subs => Len(new) = Len(cache[sub[t]])
    BY <1>0, WriteLen
  <2> HIDE DEF new
  <2> QED BY <1>0, <2>1, <2>2
<1>5. ASSUME NEW t \in Threads, UpdateSubReset(t) PROVE \A s \in Subs : Len(cache'[s]) =< Len(cache[s])
  <2>1. ASSUME NEW x, NEW i, cache' = [cache EXCEPT ![x][i].count = 0]
        PROVE  \A s \in Subs : Len(cache'[s]) =< Len(cache[s])
    <3> DEFINE new == [cache[x] EXCEPT ![i] = [cache[x][i] EXCEPT !.count = 0]]
    <3>1. cache' = [cache EXCEPT ![x] = new]
      BY <2>1
    <3>2. x \in Subs => Len(new) = Len(cache[x])
      BY <1>0, WriteLen
    <3> HIDE DEF new
    <3> QED BY <1>0, <3>1, <3>2
  <2>2. \/ UNCHANGED cache
        \/ cache' = [cache EXCEPT ![sub[t]][1].count = 0]
        \/ \E s \in Subs : \E i \in DOMAIN cache[s] : cache' = [cache EXCEPT ![s][i].count = 0]
    BY <1>5 DEF UpdateSubReset, TypeInv, TypeOK
  <2> QED BY <1>1, <2>1, <2>2
<1>6. ASSUME NEW t \in Threads, UpdateSubCache(t) PROVE \A s \in Subs : Len(cache'[s]) =< Len(cache[s])
  <2> DEFINE item == UpdatedItem(doc[t], lnt[t], req[t].filter = "set")
             new  == IF Cached(cache[sub[t]]) THEN subCacheItemRemove(subCacheItemInsert(cache[sub[t]], item)) ELSE cache[sub[t]]
  <2>1. cache' = [cache EXCEPT ![sub[t]] = new]
    BY <1>6 DEF UpdateSubCache
  <2>2. ASSUME NEW q \in Seq(Fields), NEW x \in Fields
        PROVE  Len(subCacheItemRemove(subCacheItemInsert(q, x))) = Len(q)
    BY DEF subCacheItemRemove, subCacheItemInsert
  <2>3. sub[t] \in Subs /\ item \in Fields
    BY <1>6, ItemTypes DEF UpdateSubCache, CacheSection, TypeInv, TypeOK, LocalsOK
  <2> HIDE DEF item
  <2>4. Len(new) = Len(cache[sub[t]])
    BY <1>0, <2>2, <2>3
  <2> HIDE DEF new
  <2> QED BY <1>0, <2>1, <2>3, <2>4
<1>7. CASE SyncDestroy
  BY <1>0, <1>7 DEF SyncDestroy
<1>8. ASSUME NEW t \in Threads,
             \/ SubscribeBegin(t) \/ UnsubscribeBegin(t) \/ UpdateMatch(t) \/ UpdateSubBegin(t)
             \/ SubscribeInsert(t) \/ UnsubscribeRemove(t) \/ UpdateSkip(t) \/ UpdateNotify(t) \/ UpdateSubWrite(t)
      PROVE  UNCHANGED cache
  BY <1>8 DEF SubscribeBegin, UnsubscribeBegin, UpdateMatch, UpdateSubBegin, SubscribeInsert, UnsubscribeRemove,
     UpdateSkip, UpdateNotify, UpdateSubWrite, FailAndFinish
<1>9. CASE Tick \/ Rest \/ UNCHANGED vars \/ SyncSave \/ SyncCompare \/ SyncFlushCount \/ SyncFlushTime \/ SyncEnd
  BY <1>1, <1>9 DEF Tick, Rest, vars, SyncSave, SyncCompare, SyncFlushCount, SyncFlushTime, SyncEnd
<1> QED
  BY <1>1, <1>2, <1>3, <1>4, <1>5, <1>6, <1>7, <1>8, <1>9 DEF Next, RequestStep, CacheStep, Sync

\* Only mongoSubscribeContext() makes a document where there was none.
LEMMA DbStaysEmpty ==
  ASSUME TypeInv, [Next]_vars, NEW s \in Subs, db[s] = NULL,
         \A t \in Threads : pc[t] = "insert" => sub[t] # s
  PROVE  db'[s] = NULL
<1>0. db \in [Subs -> Fields \cup {NULL}]
  BY DEF TypeInv, TypeOK
<1>1. CASE UNCHANGED db
  BY <1>1
<1>2. ASSUME NEW t \in Threads, SubscribeInsert(t) PROVE db'[s] = NULL
  BY <1>0, <1>2 DEF SubscribeInsert, FailAndFinish, Goto
<1>3. ASSUME NEW t \in Threads, UnsubscribeRemove(t) \/ UpdateSubWrite(t) PROVE db'[s] = NULL
  BY <1>0, <1>3 DEF UnsubscribeRemove, UpdateSubWrite, FailAndFinish
<1>4. CASE SyncFlushCount
  <2> DEFINE new == CountAdded(db[Visited], saved[Visited].count)
  <2>1. db' = db \/ db' = [db EXCEPT ![Visited] = IF @ = NULL THEN NULL ELSE new]
    BY <1>4 DEF SyncFlushCount
  <2> HIDE DEF new
  <2> QED BY <1>0, <2>1
<1>5. CASE SyncFlushTime
  <2> DEFINE stays == db[Visited] = NULL \/ saved[Visited].lnt = 0
                        \/ (db[Visited].lnt # Absent /\ db[Visited].lnt >= saved[Visited].lnt)
             new == [db[Visited] EXCEPT !.lnt = saved[Visited].lnt]
  <2>1. db' = db \/ db' = [db EXCEPT ![Visited] = IF stays THEN @ ELSE new]
    BY <1>5 DEF SyncFlushTime
  <2>2. db[Visited] = NULL => stays
    OBVIOUS
  <2> HIDE DEF new, stays
  <2> QED BY <1>0, <2>1, <2>2
<1>6. ASSUME NEW t \in Threads,
             \/ SubscribeBegin(t) \/ UnsubscribeBegin(t) \/ UpdateMatch(t) \/ UpdateSubBegin(t)
             \/ UpdateSkip(t) \/ UpdateNotify(t) \/ UpdateSubRead(t) \/ UpdateSubReset(t) \/ CacheStep(t)
      PROVE  UNCHANGED db
  BY <1>6 DEF SubscribeBegin, UnsubscribeBegin, UpdateMatch, UpdateSubBegin, UpdateSkip, UpdateNotify, UpdateSubRead,
     UpdateSubReset, CacheStep, SubscribeCache, UnsubscribeCache, UpdateRecord, UpdateSubCache
<1>7. CASE Tick \/ Restart \/ Rest \/ UNCHANGED vars \/ SyncSave \/ SyncDestroy \/ SyncRefresh \/ SyncCompare \/ SyncEnd
  BY <1>1, <1>7 DEF Tick, Restart, Rest, vars, SyncSave, SyncDestroy, SyncRefresh, SyncCompare, SyncEnd
<1> QED
  BY <1>1, <1>2, <1>3, <1>4, <1>5, <1>6, <1>7 DEF Next, RequestStep, Sync

\* mongoSubscribeContext() has given the id out and not yet cached the item.
Inserting(t) == pc[t] \in {"insert", "cacheInsert"}

\* A thread is on its way to insert, or to remove, because it was already or
\* because it has just begun.
LEMMA ThreadPlaces ==
  ASSUME TypeInv, [Next]_vars, NEW t \in Threads
  PROVE  /\ Inserting(t)' => SubscribeBegin(t) \/ (Inserting(t) /\ sub'[t] = sub[t])
         /\ pc'[t] = "cacheRemove" => \/ pc[t] = "cacheRemove" /\ sub'[t] = sub[t]
                                      \/ UnsubscribeRemove(t) /\ sub'[t] = sub[t] /\ db'[sub[t]] = NULL
<1> DEFINE Goal == /\ Inserting(t)' => SubscribeBegin(t) \/ (Inserting(t) /\ sub'[t] = sub[t])
                   /\ pc'[t] = "cacheRemove" => \/ pc[t] = "cacheRemove" /\ sub'[t] = sub[t]
                                                \/ UnsubscribeRemove(t) /\ sub'[t] = sub[t] /\ db'[sub[t]] = NULL
<1>0. pc \in [Threads -> PcSet] /\ sub \in [Threads -> Subs \cup {NULL}] /\ db \in [Subs -> Fields \cup {NULL}]
  BY DEF TypeInv, TypeOK, PcSet
<1>1. ASSUME NEW u \in Threads, NEW from, NEW S, Finish(u, from, S) PROVE Goal
  BY <1>0, <1>1 DEF Finish, Goto, Inserting
<1>2. ASSUME NEW u \in Threads, NEW from, NEW s, DoneWith(u, from, s) PROVE Goal
  BY <1>0, <1>1, <1>2 DEF DoneWith, Goto, Inserting
<1>3. ASSUME NEW u \in Threads, SubscribeBegin(u) PROVE Goal
  BY <1>0, <1>3 DEF SubscribeBegin, Goto, Inserting
<1>4. ASSUME NEW u \in Threads, UnsubscribeBegin(u) \/ UpdateMatch(u) \/ UpdateSubBegin(u) PROVE Goal
  BY <1>0, <1>4 DEF UnsubscribeBegin, UpdateMatch, UpdateSubBegin, Goto, Inserting
<1>5. ASSUME NEW u \in Threads, SubscribeInsert(u) PROVE Goal
  BY <1>0, <1>1, <1>5 DEF SubscribeInsert, FailAndFinish, Goto, Inserting
<1>6. ASSUME NEW u \in Threads, UnsubscribeRemove(u) PROVE Goal
  <2>1. sub[u] \in Subs
    BY <1>6 DEF UnsubscribeRemove, FailAndFinish, Finish, Goto, TypeInv, LocalsOK
  <2> QED BY <1>0, <1>1, <1>6, <2>1 DEF UnsubscribeRemove, FailAndFinish, Goto, Inserting
<1>7. ASSUME NEW u \in Threads, UpdateSubWrite(u) PROVE Goal
  BY <1>0, <1>1, <1>7 DEF UpdateSubWrite, FailAndFinish, Goto, Inserting
<1>8. ASSUME NEW u \in Threads, UpdateNotify(u) \/ UpdateSubRead(u) \/ UpdateSubReset(u) PROVE Goal
  BY <1>0, <1>8 DEF UpdateNotify, UpdateSubRead, UpdateSubReset, Goto, Inserting
<1>9. ASSUME NEW u \in Threads, UpdateSkip(u) \/ CacheStep(u) PROVE Goal
  BY <1>1, <1>2, <1>9 DEF UpdateSkip, CacheStep, SubscribeCache, UnsubscribeCache, UpdateRecord, UpdateSubCache
<1>10. CASE Restart
  BY <1>0, <1>10 DEF Restart, Inserting
<1>11. CASE Sync \/ Tick \/ Rest \/ UNCHANGED vars
  BY <1>11 DEF Sync, SyncSave, SyncDestroy, SyncRefresh, SyncCompare, SyncFlushCount, SyncFlushTime, SyncEnd,
     Tick, Rest, vars, threadVars, Inserting
<1> QED
  BY <1>3, <1>4, <1>5, <1>6, <1>7, <1>8, <1>9, <1>10, <1>11 DEF Next, RequestStep

\* Only subscribing gives ids out, only unsubscribing takes them back, and the
\* refresher begins a refresh by deleting every item.
LEMMA HistorySteps ==
  ASSUME TypeInv, [Next]_vars
  PROVE  /\ UNCHANGED created \/ \E t \in Threads : SubscribeBegin(t)
         /\ UNCHANGED removed \/ \E t \in Threads : UnsubscribeCache(t)
         /\ spc' = "refresh" => spc = "refresh" \/ SyncDestroy
         /\ UNCHANGED spc \/ Sync \/ spc' = "sleep"
         /\ spc = "sleep" /\ ~ SubCacheIval => spc' = "sleep"
<1> DEFINE Goal == /\ UNCHANGED created \/ \E t \in Threads : SubscribeBegin(t)
                   /\ UNCHANGED removed \/ \E t \in Threads : UnsubscribeCache(t)
                   /\ spc' = "refresh" => spc = "refresh" \/ SyncDestroy
                   /\ UNCHANGED spc \/ Sync \/ spc' = "sleep"
                   /\ spc = "sleep" /\ ~ SubCacheIval => spc' = "sleep"
<1>1. ASSUME NEW t \in Threads,
             SubscribeBegin(t) \/ UnsubscribeBegin(t) \/ UpdateMatch(t) \/ UpdateSubBegin(t)
      PROVE  Goal
  BY <1>1 DEF SubscribeBegin, UnsubscribeBegin, UpdateMatch, UpdateSubBegin, syncVars, history
<1>2. ASSUME NEW t \in Threads, RequestStep(t) PROVE Goal
  BY <1>2 DEF RequestStep, SubscribeInsert, UnsubscribeRemove, UpdateSkip, UpdateNotify, UpdateSubRead, UpdateSubWrite,
     UpdateSubReset, FailAndFinish, syncVars, history
<1>3. ASSUME NEW t \in Threads, CacheStep(t) PROVE Goal
  BY <1>3 DEF CacheStep, SubscribeCache, UnsubscribeCache, UpdateRecord, UpdateSubCache, syncVars, history
<1>4. CASE Sync
  BY <1>4 DEF Sync, SyncSave, SyncDestroy, SyncRefresh, SyncCompare, SyncFlushCount, SyncFlushTime, SyncEnd, SyncGoto, history
<1>5. CASE Tick \/ Restart \/ Rest \/ UNCHANGED vars
  BY <1>5 DEF Tick, Restart, Rest, vars, syncVars, history
<1> QED BY <1>1, <1>2, <1>3, <1>4, <1>5 DEF Next

-----------------------------------------------------------------------------
(* One item per subscription.                                              *)

\* The ids given out are distinct, a thread that is going to insert an item has
\* found none, and a refresh starts from an empty list. A subscription that is
\* made while the refresher runs is left out: OneItemPerSub fails for it.
OneItemInv ==
  /\ OneItemPerSub
  /\ \A t \in Threads : Inserting(t) => sub[t] \in created /\ Len(cache[sub[t]]) = 0
  /\ \A t, u \in Threads : t # u /\ Inserting(t) /\ Inserting(u) => sub[t] # sub[u]
  /\ \A s \in Subs \ created : db[s] = NULL /\ Len(cache[s]) = 0
  /\ spc = "refresh" => \A s \in Subs : Len(cache[s]) = 0
  /\ Stored = Subs => created = Subs /\ \A t \in Threads : ~ Inserting(t)
  /\ ~ SubCacheIval => spc = "sleep"

\* The invariant holds when the cache has been populated at startup.
LEMMA OneItemInit == Init => OneItemInv
BY SubCacheAssumption DEF Init, CacheOf, OneItemInv, OneItemPerSub, Inserting

\* Every step keeps it, under the condition of the theorem below.
LEMMA OneItemNext ==
  ASSUME Stored = Subs \/ ~ SubCacheIval, TypeInv, TypeInv', OneItemInv, [Next]_vars
  PROVE  OneItemInv'
<1>0. /\ \A s \in Subs : Len(cache[s]) \in Nat /\ Len(cache'[s]) \in Nat
      /\ created \subseteq Subs /\ created' \subseteq Subs
  <2>1. /\ cache \in [Subs -> Seq(Fields)] /\ cache' \in [Subs -> Seq(Fields)]
        /\ created \subseteq Subs /\ created' \subseteq Subs
    BY Zenon DEF TypeInv, TypeOK
  <2> QED BY ONLY <2>1
<1>1. created \subseteq created'
  BY HistorySteps DEF SubscribeBegin
<1>2. ASSUME NEW s \in Subs \ created' PROVE db'[s] = NULL
  BY <1>1, DbStaysEmpty DEF OneItemInv, Inserting
<1>3. ~ SubCacheIval => spc' = "sleep"
  BY HistorySteps DEF OneItemInv
<1>4. ASSUME NEW t \in Threads, SubscribeBegin(t)
      PROVE  /\ UNCHANGED cache /\ pc[t] = "idle" /\ Stored # Subs
             /\ sub'[t] \in created' \ created /\ sub'[t] \in Subs
             /\ \A u \in Threads \ {t} : sub'[u] = sub[u] /\ pc'[u] = pc[u]
  <2>1. /\ pc[t] = "idle" /\ pc' = [pc EXCEPT ![t] = "insert"] /\ UNCHANGED cache
        /\ \E s \in Subs \ created : sub' = [sub EXCEPT ![t] = s] /\ created' = created \cup {s}
    BY <1>4 DEF SubscribeBegin, Goto
  <2>2. DOMAIN pc = Threads /\ DOMAIN sub = Threads
    BY DEF TypeInv, TypeOK
  <2>3. Stored # Subs
    BY <2>1 DEF OneItemInv
  <2> QED BY <2>1, <2>2, <2>3
<1>5. Stored = Subs => created' = Subs /\ \A t \in Threads : ~ Inserting(t)'
  BY <1>0, <1>1, <1>4, ThreadPlaces DEF OneItemInv
<1>6. ASSUME NEW t \in Threads, NEW u \in Threads, t # u, Inserting(t)', Inserting(u)'
      PROVE  sub'[t] # sub'[u]
  <2>1. ASSUME NEW x \in Threads, NEW y \in Threads, x # y, SubscribeBegin(x), Inserting(y)'
        PROVE  sub'[x] # sub'[y]
    <3>1. sub'[y] = sub[y] /\ Inserting(y) /\ sub'[x] \notin created
      BY <1>4, <2>1 DEF Inserting
    <3> QED BY <3>1 DEF OneItemInv
  <2>2. CASE Inserting(t) /\ sub'[t] = sub[t] /\ Inserting(u) /\ sub'[u] = sub[u]
    BY <1>6, <2>2 DEF OneItemInv
  <2> QED BY <1>6, <2>1, <2>2, ThreadPlaces
<1>7. ASSUME NEW t \in Threads, Inserting(t)'
      PROVE  /\ sub'[t] \in created' /\ sub'[t] \in Subs
             /\ Len(cache[sub'[t]]) = 0
             /\ SubscribeBegin(t) \/ (Inserting(t) /\ sub'[t] = sub[t])
  <2>1. CASE SubscribeBegin(t)
    <3>1. sub'[t] \in created' \ created /\ sub'[t] \in Subs
      BY <1>4, <2>1
    <3>2. Len(cache[sub'[t]]) = 0
      BY <3>1 DEF OneItemInv
    <3> QED BY <2>1, <3>1, <3>2
  <2>2. CASE Inserting(t) /\ sub'[t] = sub[t]
    BY <1>0, <1>1, <2>2 DEF OneItemInv
  <2> QED BY <1>7, <2>1, <2>2, ThreadPlaces
<1> DEFINE Rest4 == /\ OneItemPerSub'
                    /\ \A t \in Threads : Inserting(t)' => Len(cache'[sub'[t]]) = 0
                    /\ \A s \in Subs \ created' : Len(cache'[s]) = 0
                    /\ spc' = "refresh" => \A s \in Subs : Len(cache'[s]) = 0
<1>8. ASSUME NEW t \in Threads, SubscribeCache(t) PROVE Rest4
  <2>1. /\ Inserting(t) /\ pc'[t] = "idle" /\ cacheSem = 1
        /\ cache' = [cache EXCEPT ![sub[t]] = subCacheItemInsert(cache[sub[t]], NewItem(doc[t]))]
        /\ UNCHANGED <<spc, created>>
    BY <1>8 DEF SubscribeCache, CacheSection, Finish, Goto, syncVars, history, Inserting, TypeInv, TypeOK
  <2>2. sub[t] \in created /\ sub[t] \in Subs /\ Len(cache[sub[t]]) = 0 /\ cache[sub[t]] \in Seq(Fields) /\ doc[t] \in Fields
    BY <1>0, <1>8, <2>1 DEF OneItemInv, TypeInv, TypeOK, LocalsOK, SubscribeCache, CacheSection
  <2>3. Len(cache'[sub[t]]) = 1 /\ \A s \in Subs \ {sub[t]} : cache'[s] = cache[s]
    <3> DEFINE item == NewItem(doc[t])
    <3>1. item \in Fields
      BY <2>2, ItemTypes
    <3> HIDE DEF item
    <3>2. Len(subCacheItemInsert(cache[sub[t]], item)) = 1
      BY <2>2, <3>1 DEF subCacheItemInsert
    <3>3. cache' = [cache EXCEPT ![sub[t]] = subCacheItemInsert(cache[sub[t]], item)] /\ DOMAIN cache = Subs
      BY <2>1 DEF item, TypeInv, TypeOK
    <3> QED BY <2>2, <3>2, <3>3
  <2>4. OneItemPerSub'
    <3>1. ASSUME NEW s \in Subs PROVE Len(cache'[s]) =< 1
      <4>1. s = sub[t] \/ cache'[s] = cache[s]
        BY <2>3
      <4>2. Len(cache[s]) \in Nat /\ Len(cache[s]) =< 1
        BY <1>0 DEF OneItemInv, OneItemPerSub
      <4>3. Len(cache'[sub[t]]) =< 1
        BY <2>3
      <4>4. CASE s = sub[t]
        BY <4>3, <4>4
      <4>5. CASE cache'[s] = cache[s]
        BY <4>2, <4>5
      <4> QED BY <4>1, <4>4, <4>5
    <3> QED BY <3>1 DEF OneItemPerSub
  <2>5. ASSUME NEW u \in Threads, Inserting(u)' PROVE Len(cache'[sub'[u]]) = 0
    <3>1. u # t
      BY <2>1, <2>5 DEF Inserting
    <3>2. ~ SubscribeBegin(u)
      BY <2>1, <3>1, <1>4 DEF Inserting
    <3>3. sub'[u] # sub[t]
      <4>1. Inserting(u) /\ sub'[u] = sub[u]
        BY <1>7, <2>5, <3>2
      <4> QED BY <2>1, <3>1, <4>1 DEF OneItemInv
    <3> QED BY <1>7, <2>3, <2>5, <3>3
  <2>6. spc' # "refresh"
    BY <2>1 DEF TypeInv, TypeOK
  <2> QED BY <2>1, <2>2, <2>3, <2>4, <2>5, <2>6 DEF OneItemInv
<1>9. ASSUME SyncRefresh PROVE Rest4
  <2>1. spc = "refresh" /\ spc' = "compare" /\ UNCHANGED created
    BY <1>9 DEF SyncRefresh, SyncGoto, history
  <2>2. PICK read \in SUBSET {s \in Subs : db[s] # NULL} :
          cache' = [s \in Subs |-> IF s \in read THEN subCacheItemInsert(cache[s], RefreshedItem(db[s])) ELSE cache[s]]
    BY <1>9 DEF SyncRefresh
  <2>3. ASSUME NEW s \in Subs PROVE Len(cache'[s]) = IF s \in read THEN 1 ELSE 0
    <3>1. cache[s] \in Seq(Fields) /\ Len(cache[s]) = 0 /\ (s \in read => db[s] \in Fields)
      <4>1. cache \in [Subs -> Seq(Fields)] /\ db \in [Subs -> Fields \cup {NULL}]
        BY DEF TypeInv, TypeOK
      <4>2. Len(cache[s]) = 0
        BY <2>1 DEF OneItemInv
      <4> QED BY <4>1, <4>2
    <3>2. s \in read => RefreshedItem(db[s]) \in Fields
      BY <3>1, ItemTypes
    <3> QED BY <2>2, <3>1, <3>2 DEF subCacheItemInsert
  <2>4. Stored = Subs
    BY <2>1 DEF OneItemInv
  <2>5. \A t \in Threads : ~ Inserting(t)'
    BY <1>5, <2>4
  <2>6. OneItemPerSub'
    <3>1. ASSUME NEW s \in Subs PROVE Len(cache'[s]) =< 1
      BY <2>3
    <3> QED BY <3>1 DEF OneItemPerSub
  <2>7. Subs \ created' = {}
    BY <2>1, <2>4 DEF OneItemInv
  <2> QED BY <2>1, <2>5, <2>6, <2>7
<1>10. ASSUME Restart PROVE Rest4
  <2>1. /\ cache' = CacheOf(db) /\ spc' = "sleep" /\ UNCHANGED <<db, created>>
        /\ \A t \in Threads : ~ Inserting(t)'
    BY <1>10 DEF Restart, history, Inserting
  <2>2. \A s \in Subs : Len(cache'[s]) = IF db[s] = NULL THEN 0 ELSE 1
    BY <2>1 DEF CacheOf
  <2>3. OneItemPerSub'
    <3>1. ASSUME NEW s \in Subs PROVE Len(cache'[s]) =< 1
      BY <2>2
    <3> QED BY <3>1 DEF OneItemPerSub
  <2>4. \A s \in Subs \ created' : Len(cache'[s]) = 0
    BY <2>1, <2>2 DEF OneItemInv
  <2> QED BY <2>1, <2>3, <2>4
<1>11. ASSUME ~ SyncRefresh, ~ Restart, \A t \in Threads : ~ SubscribeCache(t) PROVE Rest4
  <2>1. \A s \in Subs : Len(cache'[s]) =< Len(cache[s])
    BY <1>11, CacheShrinks
  <2>2. OneItemPerSub'
    BY <1>0, <2>1 DEF OneItemInv, OneItemPerSub
  <2>3. \A t \in Threads : Inserting(t)' => Len(cache'[sub'[t]]) = 0
    BY <1>0, <1>7, <2>1
  <2>4. spc' = "refresh" => \A s \in Subs : Len(cache'[s]) = 0
    <3>1. SyncDestroy => \A s \in Subs : Len(cache'[s]) = 0
      BY DEF SyncDestroy
    <3> QED BY <1>0, <2>1, <3>1, HistorySteps DEF OneItemInv
  <2>5. \A s \in Subs \ created' : Len(cache'[s]) = 0
    <3>1. \A s \in Subs \ created : Len(cache[s]) = 0
      BY DEF OneItemInv
    <3> QED BY <1>0, <1>1, <2>1, <3>1
  <2> QED BY <2>2, <2>3, <2>4, <2>5
<1>12. Rest4
  BY <1>8, <1>9, <1>10, <1>11
<1> QED BY <1>2, <1>3, <1>5, <1>6, <1>7, <1>12 DEF OneItemInv

\* While no subscription is made, or while no refresher runs (-subCacheIval 0),
\* the list never has two items with the same id, whatever the request policy,
\* the failures of the database and the restarts.
THEOREM SubCacheOneItem ==
  ASSUME Stored = Subs \/ ~ SubCacheIval
  PROVE  Spec => []OneItemPerSub
<1>1. OneItemInv => OneItemPerSub
  BY DEF OneItemInv
<1>2. TypeInv /\ TypeInv' /\ OneItemInv /\ [Next]_vars => OneItemInv'
  BY OneItemNext
<1> QED BY <1>1, <1>2, TypeInit, TypeNext, OneItemInit, PTL DEF Spec

-----------------------------------------------------------------------------
(* What was unsubscribed stays out of the cache.                           *)

\* The document goes before the item, and never comes back: whatever the
\* refresher reads after that does not have it.
RemovedInv ==
  /\ \A s \in removed : db[s] = NULL /\ Len(cache[s]) = 0
  /\ \A t \in Threads : pc[t] = "cacheRemove" => db[sub[t]] = NULL

\* Every step keeps it while no subscription is made.
LEMMA RemovedNext ==
  ASSUME Stored = Subs, TypeInv, TypeInv', OneItemInv, RemovedInv, [Next]_vars
  PROVE  RemovedInv'
<1>0. /\ \A s \in Subs : Len(cache[s]) \in Nat /\ Len(cache'[s]) \in Nat
      /\ removed \subseteq Subs /\ removed' \subseteq Subs
  <2>1. /\ cache \in [Subs -> Seq(Fields)] /\ cache' \in [Subs -> Seq(Fields)]
        /\ removed \subseteq Subs /\ removed' \subseteq Subs
    BY Zenon DEF TypeInv, TypeOK
  <2> QED BY ONLY <2>1
<1>1. \A t \in Threads : ~ Inserting(t)
  BY DEF OneItemInv
<1>2. ASSUME NEW s \in Subs, db[s] = NULL PROVE db'[s] = NULL
  BY <1>1, <1>2, DbStaysEmpty DEF Inserting
<1>3. ASSUME NEW t \in Threads, pc'[t] = "cacheRemove" PROVE db'[sub'[t]] = NULL
  <2>1. CASE pc[t] = "cacheRemove" /\ sub'[t] = sub[t]
    <3>1. sub[t] \in Subs /\ db[sub[t]] = NULL
      BY <2>1 DEF RemovedInv, TypeInv, LocalsOK
    <3> QED BY <1>2, <2>1, <3>1
  <2> QED BY <1>3, <2>1, ThreadPlaces
<1>4. ASSUME NEW t \in Threads, UnsubscribeCache(t)
      PROVE  /\ removed' = removed \cup {sub[t]} /\ sub[t] \in Subs
             /\ db[sub[t]] = NULL /\ Len(cache'[sub[t]]) = 0
  <2>1. /\ pc[t] = "cacheRemove" /\ removed' = removed \cup {sub[t]}
        /\ cache' = [cache EXCEPT ![sub[t]] = subCacheItemRemove(cache[sub[t]])]
    BY <1>4 DEF UnsubscribeCache, CacheSection
  <2>2. sub[t] \in Subs /\ db[sub[t]] = NULL
    BY <2>1 DEF RemovedInv, TypeInv, LocalsOK
  <2>3. cache[sub[t]] \in Seq(Fields) /\ Len(cache[sub[t]]) =< 1 /\ DOMAIN cache = Subs
    BY <2>2 DEF OneItemInv, OneItemPerSub, TypeInv, TypeOK
  <2>4. ASSUME NEW q \in Seq(Fields), Len(q) =< 1 PROVE Len(subCacheItemRemove(q)) = 0
    <3>1. CASE q = <<>>
      BY <3>1 DEF subCacheItemRemove
    <3>2. CASE q # <<>>
      <4>0. Len(q) = 0 => q = <<>>
        OBVIOUS
      <4>1. Len(q) = 1
        <5> DEFINE n == Len(q)
        <5>1. n \in Nat /\ n =< 1 /\ n # 0
          BY <2>4, <3>2, <4>0
        <5> HIDE DEF n
        <5>2. n = 1
          BY <5>1
        <5> QED BY <5>2 DEF n
      <4>2. Len(Tail(q)) = 0
        BY <4>1, <3>2
      <4> QED BY <3>2, <4>2 DEF subCacheItemRemove
    <3> QED BY <3>1, <3>2
  <2> QED BY <2>1, <2>2, <2>3, <2>4
<1>5. ASSUME NEW s \in removed PROVE Len(cache'[s]) = 0
  <2>1. s \in Subs /\ db[s] = NULL /\ Len(cache[s]) = 0
    BY <1>0 DEF RemovedInv
  <2>2. \A t \in Threads : ~ SubscribeCache(t)
    BY <1>1 DEF SubscribeCache, CacheSection, Inserting
  <2>3. CASE SyncRefresh
    <3>1. PICK read \in SUBSET {x \in Subs : db[x] # NULL} :
            cache' = [x \in Subs |-> IF x \in read THEN subCacheItemInsert(cache[x], RefreshedItem(db[x])) ELSE cache[x]]
      BY <2>3 DEF SyncRefresh
    <3>2. cache'[s] = cache[s]
      BY <2>1, <3>1
    <3> QED BY <2>1, <3>2
  <2>4. CASE Restart
    BY <2>1, <2>4 DEF Restart, CacheOf
  <2>5. CASE ~ SyncRefresh /\ ~ Restart
    <3>1. Len(cache'[s]) =< Len(cache[s])
      BY <2>1, <2>2, <2>5, CacheShrinks
    <3> QED BY <1>0, <2>1, <3>1
  <2> QED BY <2>3, <2>4, <2>5
<1>6. ASSUME NEW s \in removed' PROVE db'[s] = NULL /\ Len(cache'[s]) = 0
  <2>1. CASE s \in removed
    <3>1. s \in Subs /\ db[s] = NULL
      BY <1>0, <2>1 DEF RemovedInv
    <3> QED BY <1>2, <1>5, <2>1, <3>1
  <2>2. CASE s \notin removed
    BY <1>2, <1>4, <1>6, <2>2, HistorySteps
  <2> QED BY <2>1, <2>2
<1> QED BY <1>3, <1>6 DEF RemovedInv

\* Once mongoUnsubscribeContext() has answered, the item is gone for good: no
\* synchronisation and no concurrent update of the same subscription brings it
\* back, whatever the request policy, the failures and the restarts. (As above,
\* while no subscription is made.)
THEOREM SubCacheRemovedStaysOut ==
  ASSUME Stored = Subs
  PROVE  Spec => []RemovedNotCached
<1>1. TypeInv /\ RemovedInv => RemovedNotCached
  <2> SUFFICES ASSUME TypeInv, RemovedInv, NEW s \in removed PROVE cache[s] = <<>>
    BY DEF RemovedNotCached
  <2>1. cache[s] \in Seq(Fields) /\ Len(cache[s]) = 0
    BY DEF TypeInv, TypeOK, RemovedInv
  <2> QED BY <2>1
<1>2. Init => RemovedInv
  BY DEF Init, RemovedInv
<1>3. TypeInv /\ TypeInv' /\ OneItemInv /\ [Next]_vars => OneItemInv'
  BY OneItemNext
<1>4. TypeInv /\ TypeInv' /\ OneItemInv /\ RemovedInv /\ [Next]_vars => RemovedInv'
  BY RemovedNext
<1> QED BY <1>1, <1>2, <1>3, <1>4, TypeInit, TypeNext, OneItemInit, PTL DEF Spec
=============================================================================
