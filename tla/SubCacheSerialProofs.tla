------------------------ MODULE SubCacheSerialProofs ------------------------
(***************************************************************************)
(* With the request semaphore (-reqMutexPolicy write or all) and without   *)
(* the refresher (-subCacheIval 0) the cache agrees with the database, and *)
(* notifications decided from the cache are right by the database: proofs  *)
(* of CacheMirrorsDb, SendsOnlyStoredActive and ThrottlingRespected for    *)
(* any subscriptions, threads and requests, with database operations that  *)
(* fail and with restarts.                                                 *)
(***************************************************************************)
EXTENDS SubCacheProofs

\* Places where a request has changed the database and not yet the cache, and
\* places where it has, or may have, sent a notification and not noted it.
Changing == {"cacheInsert", "cacheRemove", "reset", "cacheUpdate"}
Telling  == Changing \cup {"record", "read"}

Busy(s, places) == \E t \in Threads : sub[t] = s /\ pc[t] \in places

\* The semaphore: a request under way has it.
Serial == \A t \in Threads : pc[t] # "idle" => reqSem = t

\* What CacheMirrorsDb says of one subscription.
Mirror(s) ==
  IF db[s] = NULL THEN cache[s] = <<>>
  ELSE /\ Len(cache[s]) = 1
       /\ cache[s][1].status = db[s].status
       /\ Period(cache[s][1].throttling) = Period(db[s].throttling)
       /\ cache[s][1].lnt >= db[s].lnt

\* A time is absent or past.
Past(time) == time >= Absent /\ time =< now

\* A time that is not older than the last notification of s in this run.
NotBehind(s, time) == restarts = 0 /\ lastSent[s] # 0 => time >= lastSent[s]

\* The item knows the last notification of s.
Known(s) == db[s] # NULL => NotBehind(s, cache[s][1].lnt)

SubInv(s) ==
  /\ lastSent[s] =< now
  /\ db[s] # NULL => Past(db[s].lnt)
  /\ cache[s] # <<>> => Past(cache[s][1].lnt)
  /\ Len(cache[s]) =< 1
  /\ Busy(s, Changing) \/ Mirror(s)
  /\ Busy(s, Telling) \/ Known(s)
  /\ s \notin created => lastSent[s] = 0

\* s may be notified: it is stored and active, and its period is over.
Due(s) ==
  /\ db[s] # NULL /\ db[s].status = "active"
  /\ restarts = 0 /\ lastSent[s] # 0 => now - lastSent[s] >= Period(db[s].throttling)

\* The new document of a subscription update and its time.
Prepared(t) ==
  /\ cache[sub[t]] # <<>>
  /\ Past(doc[t].lnt) /\ Past(lnt[t])
  /\ lnt[t] # Absent => lnt[t] >= doc[t].lnt
  /\ NotBehind(sub[t], lnt[t])

ThreadInv(t) ==
  /\ pc[t] = "insert" => /\ db[sub[t]] = NULL /\ cache[sub[t]] = <<>>
                         /\ Past(doc[t].lnt) /\ NotBehind(sub[t], doc[t].lnt)
  /\ pc[t] = "cacheInsert" => /\ db[sub[t]] = doc[t] /\ cache[sub[t]] = <<>>
                              /\ NotBehind(sub[t], doc[t].lnt)
  /\ pc[t] = "cacheRemove" => db[sub[t]] = NULL
  /\ pc[t] = "notify" => \A s \in DOMAIN trigs[t] : Due(s)
  /\ pc[t] = "record" => /\ \A s \in DOMAIN trigs[t] \ {sub[t]} : Due(s)
                         /\ db[sub[t]] # NULL
                         /\ Past(lnt[t]) /\ lnt[t] >= db[sub[t]].lnt /\ NotBehind(sub[t], lnt[t])
  /\ pc[t] = "read" => /\ db[sub[t]] = doc[t]
                       /\ notificationDone(req[t], UpdatedStatus(doc[t], req[t])) \/ Known(sub[t])
  /\ pc[t] = "write" => db[sub[t]] # NULL /\ Prepared(t) /\ cSubP[t] = "item"
  /\ pc[t] = "reset" => db[sub[t]] = doc[t] /\ Prepared(t) /\ cSubP[t] = "item"
  /\ pc[t] = "cacheUpdate" => db[sub[t]] = doc[t] /\ Prepared(t)

\* The inductive invariant.
SerialInv ==
  /\ Serial
  /\ \A s \in Subs : SubInv(s)
  /\ \A t \in Threads : ThreadInv(t)

-----------------------------------------------------------------------------
(* One request at a time.                                                  *)

\* The provers that try a step, in this order.
USE ZenonT(6), SMTT(15)

\* While a request is under way, or when it begins, the other threads are idle.
LEMMA Alone ==
  ASSUME TypeInv, Serial, ReqSemUsed, NEW t \in Threads, pc[t] # "idle" \/ Begin(t)
  PROVE  \A u \in Threads \ {t} : pc[u] = "idle"
BY SubCacheAssumption DEF Serial, Begin, reqSemTake

\* When the only request under way ends, nobody is busy.
LEMMA FinishAlone ==
  ASSUME TypeInv, Serial, ReqSemUsed, NEW t \in Threads, NEW from, NEW S, from # "idle", Finish(t, from, S)
  PROVE  /\ \A u \in Threads : pc'[u] = "idle"
         /\ Serial' /\ \A u \in Threads : ThreadInv(u)'
         /\ \A s, places : "idle" \notin places => ~ Busy(s, places)'
<1>1. \A u \in Threads : pc'[u] = "idle"
  <2>1. pc[t] # "idle" /\ pc' = [pc EXCEPT ![t] = "idle"] /\ DOMAIN pc = Threads
    BY DEF Finish, Goto, TypeInv, TypeOK
  <2> QED BY <2>1, Alone
<1>2. ASSUME NEW u \in Threads PROVE ThreadInv(u)'
  BY <1>1 DEF ThreadInv
<1> QED BY <1>1, <1>2 DEF Serial, Busy

\* A request that goes on, or begins, keeps the others out.
LEMMA GoesOn ==
  ASSUME TypeInv, Serial, ReqSemUsed, NEW t \in Threads, NEW from, NEW to, Goto(t, from, to),
         \/ from # "idle" /\ UNCHANGED reqSem
         \/ Begin(t)
  PROVE  /\ pc[t] = from /\ pc'[t] = to
         /\ \A u \in Threads \ {t} : pc[u] = "idle" /\ pc'[u] = "idle" /\ ThreadInv(u)'
         /\ Serial'
<1>1. pc[t] = from /\ pc' = [pc EXCEPT ![t] = to] /\ DOMAIN pc = Threads
  BY DEF Goto, TypeInv, TypeOK
<1>2. \A u \in Threads \ {t} : pc[u] = "idle" /\ pc'[u] = "idle"
  BY <1>1, Alone
<1>3. ASSUME NEW u \in Threads \ {t} PROVE ThreadInv(u)'
  BY <1>2 DEF ThreadInv
<1>4. reqSem' = t
  BY <1>1 DEF Serial, Begin, reqSemTake
<1> QED BY <1>1, <1>2, <1>3, <1>4 DEF Serial

\* A subscription that the step leaves alone, and that was settled before it.
LEMMA Settled ==
  ASSUME NEW s \in Subs, SubInv(s), ~ Busy(s, Telling), UNCHANGED <<now, restarts>>,
         db'[s] = db[s], cache'[s] = cache[s], lastSent'[s] = lastSent[s], created \subseteq created'
  PROVE  SubInv(s)'
<1>1. Mirror(s) /\ Known(s)
  BY DEF SubInv, Busy, Telling
<1>2. Mirror(s)' /\ Known(s)'
  BY <1>1 DEF Mirror, Known, NotBehind
<1> QED BY <1>2 DEF SubInv, Past

\* Time, status and period are what noting an item changes and keeps.
LEMMA MirrorNoted ==
  ASSUME TypeInv, NEW s \in Subs, db[s] # NULL, Mirror(s), db'[s] = db[s], NEW time \in Int, time >= db[s].lnt,
         cache'[s] = [cache[s] EXCEPT ![1] = Noted(cache[s][1], time)]
  PROVE  Mirror(s)' /\ cache'[s][1].lnt = time /\ Len(cache'[s]) = 1
<1> DEFINE item == Noted(cache[s][1], time)
<1>1. cache[s] \in Seq(Fields) /\ Len(cache[s]) = 1 /\ cache[s][1] \in Fields
  BY DEF TypeInv, TypeOK, Mirror
<1>2. item \in Fields /\ item.lnt = time /\ item.status = cache[s][1].status /\ item.throttling = cache[s][1].throttling
  BY <1>1, NotedTypes
<1> HIDE DEF item
<1>3. cache'[s] = [cache[s] EXCEPT ![1] = item]
  BY DEF item
<1>4. Len(cache'[s]) = 1 /\ cache'[s][1] = item
  BY <1>1, <1>3, WriteLen
<1> QED BY <1>2, <1>4 DEF Mirror

-----------------------------------------------------------------------------
(* The steps of mongoSubscribeContext() and mongoUnsubscribeContext().     *)

\* A new id has no document, no item and no notification but the initial one,
\* whose time the document will have.
LEMMA SubscribeBeginSerial ==
  ASSUME TypeInv, OneItemInv, SerialInv, ReqSemUsed, NEW t \in Threads, SubscribeBegin(t)
  PROVE  SerialInv'
<1>1. PICK x \in Subs \ created, r \in Requests :
         /\ sub' = [sub EXCEPT ![t] = x]
         /\ created' = created \cup {x}
         /\ doc' = [doc EXCEPT ![t] = SubscribedDoc(r, now)]
         /\ IF notificationDone(r, NewStatus(r)) THEN Send(x) ELSE UNCHANGED <<sent, lastSent>>
  BY DEF SubscribeBegin
<1>2. /\ Begin(t) /\ Goto(t, "idle", "insert")
      /\ UNCHANGED <<db, cache, now, restarts>>
  BY DEF SubscribeBegin, Begin
<1>3. /\ sub'[t] = x /\ doc'[t] = SubscribedDoc(r, now) /\ now \in Nat /\ lastSent \in [Subs -> Nat]
      /\ cache[x] \in Seq(Fields)
  BY <1>1 DEF TypeInv, TypeOK
<1>4. /\ pc[t] = "idle" /\ pc'[t] = "insert" /\ Serial'
      /\ \A u \in Threads \ {t} : pc[u] = "idle" /\ pc'[u] = "idle" /\ ThreadInv(u)'
  BY <1>2, GoesOn DEF SerialInv
<1>5. db[x] = NULL /\ cache[x] = <<>> /\ lastSent[x] = 0
  BY <1>3 DEF OneItemInv, SerialInv, SubInv
<1>6. /\ Past(doc[t].lnt)' /\ lastSent'[x] =< now
      /\ lastSent'[x] # 0 => doc'[t].lnt >= lastSent'[x]
      /\ \A s \in Subs \ {x} : lastSent'[s] = lastSent[s]
  <2>1. CASE notificationDone(r, NewStatus(r))
    <3>1. SubscribedDoc(r, now).lnt = now
      BY <2>1 DEF SubscribedDoc
    <3>2. lastSent'[x] = now /\ \A s \in Subs \ {x} : lastSent'[s] = lastSent[s]
      BY <1>1, <1>3, <2>1 DEF Send
    <3>3. Past(doc[t].lnt)'
      BY <1>2, <1>3, <3>1 DEF Past, Absent
    <3> QED BY <1>3, <3>1, <3>2, <3>3
  <2>2. CASE ~ notificationDone(r, NewStatus(r))
    <3>1. SubscribedDoc(r, now).lnt = Absent
      BY <2>2 DEF SubscribedDoc
    <3>2. lastSent' = lastSent
      BY <1>1, <2>2
    <3>3. Past(doc[t].lnt)'
      BY <1>2, <1>3, <3>1 DEF Past, Absent
    <3> QED BY <1>3, <1>5, <3>1, <3>2, <3>3
  <2> QED BY <2>1, <2>2
<1>7. ASSUME NEW s \in Subs PROVE SubInv(s)'
  <2>1. CASE s # x
    <3>1. ~ Busy(s, Telling)
      BY <1>4 DEF Busy, Telling, Changing
    <3> QED BY <1>1, <1>2, <1>6, <2>1, <3>1, Settled DEF SerialInv
  <2>2. CASE s = x
    <3>1. db'[x] = NULL /\ cache'[x] = <<>> /\ now' = now /\ x \in created'
      BY <1>1, <1>2, <1>5
    <3>2. Mirror(x)' /\ Known(x)' /\ Len(cache'[x]) =< 1
      BY <3>1 DEF Mirror, Known
    <3> QED BY <1>6, <2>2, <3>1, <3>2 DEF SubInv
  <2> QED BY <2>1, <2>2
<1>8. ThreadInv(t)'
  <2>1. NotBehind(sub[t], doc[t].lnt)'
    BY <1>3, <1>6 DEF NotBehind
  <2> QED BY <1>2, <1>3, <1>4, <1>5, <1>6, <2>1 DEF ThreadInv
<1> QED BY <1>4, <1>7, <1>8 DEF SerialInv

\* A database operation that fails before anything was changed.
LEMMA FailSerial ==
  ASSUME TypeInv, SerialInv, ReqSemUsed, NEW t \in Threads, NEW from, FailAndFinish(t, from),
         from \in {"insert", "remove", "write"}
  PROVE  SerialInv'
<1>1. /\ Finish(t, from, {}) /\ pc[t] = from
      /\ UNCHANGED <<db, cache, now, restarts, lastSent, created>>
  BY DEF FailAndFinish, Finish, Goto, bounds, history
<1>2. Serial' /\ \A u \in Threads : ThreadInv(u)'
  BY <1>1, FinishAlone DEF SerialInv
<1>3. ASSUME NEW s \in Subs PROVE SubInv(s)'
  <2>1. ~ Busy(s, Telling)
    <3>1. \A u \in Threads \ {t} : pc[u] = "idle"
      BY <1>1, Alone DEF SerialInv
    <3> QED BY <1>1, <3>1 DEF Busy, Telling, Changing
  <2> QED BY <1>1, <2>1, Settled DEF SerialInv
<1> QED BY <1>2, <1>3 DEF SerialInv

\* The document is inserted, then the item made from it.
LEMMA SubscribeSerial ==
  ASSUME TypeInv, SerialInv, ReqSemUsed, NEW t \in Threads, SubscribeInsert(t) \/ SubscribeCache(t)
  PROVE  SerialInv'
<1>0. PICK x, d : x = sub[t] /\ d = doc[t]
  OBVIOUS
<1>1. CASE FailAndFinish(t, "insert")
  BY <1>1, FailSerial
<1>2. CASE SubscribeInsert(t) /\ ~ FailAndFinish(t, "insert")
  <2>1. /\ Goto(t, "insert", "cacheInsert") /\ UNCHANGED <<cache, reqSem, now, sub, doc, restarts, lastSent, created>>
        /\ db' = [db EXCEPT ![x] = d]
    BY <1>0, <1>2 DEF SubscribeInsert, bounds, history
  <2>2. /\ pc[t] = "insert" /\ pc'[t] = "cacheInsert" /\ Serial'
        /\ \A u \in Threads \ {t} : pc[u] = "idle" /\ pc'[u] = "idle" /\ ThreadInv(u)'
    BY <2>1, GoesOn DEF SerialInv
  <2>3. /\ x \in Subs /\ db \in [Subs -> Fields \cup {NULL}] /\ cache[x] = <<>> /\ Past(d.lnt) /\ NotBehind(x, d.lnt)
    BY <1>0, <2>2 DEF TypeInv, TypeOK, LocalsOK, SerialInv, ThreadInv
  <2>4. db'[x] = d /\ \A s \in Subs \ {x} : db'[s] = db[s]
    BY <2>1, <2>3
  <2>5. ASSUME NEW s \in Subs, s # x PROVE SubInv(s)'
    <3>1. ~ Busy(s, Telling)
      BY <1>0, <2>2, <2>5 DEF Busy, Telling, Changing
    <3> QED BY <2>1, <2>4, <2>5, <3>1, Settled DEF SerialInv
  <2>6. SubInv(x)'
    <3>1. Busy(x, Changing)' /\ Busy(x, Telling)'
      BY <1>0, <2>1, <2>2 DEF Busy, Changing, Telling
    <3>2. lastSent[x] =< now /\ (x \notin created => lastSent[x] = 0)
      BY <2>3 DEF SerialInv, SubInv
    <3> QED BY <2>1, <2>3, <2>4, <3>1, <3>2 DEF SubInv, Past
  <2>7. ThreadInv(t)'
    BY <1>0, <2>1, <2>2, <2>3, <2>4 DEF ThreadInv, NotBehind
  <2>8. \A s \in Subs : SubInv(s)'
    BY <2>5, <2>6
  <2> QED BY <2>2, <2>7, <2>8 DEF SerialInv
<1>3. CASE SubscribeCache(t)
  <2>1. /\ Finish(t, "cacheInsert", {}) /\ UNCHANGED <<db, now, restarts, lastSent, created>> /\ pc[t] = "cacheInsert"
        /\ cache' = [cache EXCEPT ![x] = subCacheItemInsert(cache[x], NewItem(d))]
    BY <1>0, <1>3 DEF SubscribeCache, Finish, Goto, bounds, history
  <2>2. Serial' /\ \A u \in Threads : ThreadInv(u)'
    BY <2>1, FinishAlone DEF SerialInv
  <2>3. /\ x \in Subs /\ cache \in [Subs -> Seq(Fields)] /\ cache[x] = <<>> /\ d \in Fields
        /\ db[x] = d /\ NotBehind(x, d.lnt)
        /\ \A u \in Threads \ {t} : pc[u] = "idle"
    BY <1>0, <2>1, Alone DEF TypeInv, TypeOK, LocalsOK, SerialInv, ThreadInv
  <2> DEFINE item == NewItem(d)
  <2>4. /\ item.status = d.status /\ Period(item.throttling) = Period(d.throttling)
        /\ item.lnt = IF d.lnt = Absent THEN 0 ELSE d.lnt
        /\ item \in Fields
    BY <2>3, ItemTypes DEF NewItem, FieldOr, Period, Absent
  <2> HIDE DEF item
  <2>5. cache'[x] = <<item>> /\ \A s \in Subs \ {x} : cache'[s] = cache[s]
    <3>1. cache'[x] = Append(<<>>, item)
      BY <2>1, <2>3 DEF item, subCacheItemInsert
    <3> QED BY <2>1, <2>3, <3>1
  <2>6. ASSUME NEW s \in Subs, s # x PROVE SubInv(s)'
    <3>1. ~ Busy(s, Telling)
      BY <1>0, <2>1, <2>3, <2>6 DEF Busy, Telling, Changing
    <3> QED BY <2>1, <2>5, <2>6, <3>1, Settled DEF SerialInv
  <2>7. SubInv(x)'
    <3>1. Past(d.lnt) /\ lastSent[x] =< now /\ (x \notin created => lastSent[x] = 0)
      BY <2>3, SubCacheAssumption DEF SerialInv, SubInv
    <3>2. Past(item.lnt)' /\ item.lnt >= d.lnt /\ now \in Nat /\ d.lnt \in Int
      BY <2>1, <2>3, <2>4, <3>1 DEF Past, Absent, TypeInv, TypeOK, Fields
    <3>3. Len(cache'[x]) = 1 /\ cache'[x][1] = item /\ cache'[x] # <<>>
      BY <2>5
    <3>4. Mirror(x)'
      BY <2>1, <2>3, <2>4, <3>2, <3>3, SubCacheAssumption DEF Mirror
    <3>5. lastSent[x] \in Nat
      BY <2>3 DEF TypeInv, TypeOK
    <3>6. NotBehind(x, item.lnt)
      BY <2>3, <2>4, <3>2, <3>5 DEF NotBehind, Absent
    <3>7. Known(x)'
      BY <2>1, <3>3, <3>6 DEF Known, NotBehind
    <3>8. Past(db[x].lnt)' /\ Past(cache[x][1].lnt)' /\ lastSent'[x] =< now'
      BY <2>1, <2>3, <3>1, <3>2, <3>3 DEF Past
    <3>9. Len(cache'[x]) =< 1
      BY <3>3
    <3>10. x \notin created' => lastSent'[x] = 0
      BY <2>1, <3>1
    <3> QED BY <3>4, <3>7, <3>8, <3>9, <3>10 DEF SubInv
  <2>8. \A s \in Subs : SubInv(s)'
    BY <2>6, <2>7
  <2> QED BY <2>2, <2>8 DEF SerialInv
<1> QED BY <1>1, <1>2, <1>3

\* One item at most, and one at least.
LEMMA OneItem ==
  ASSUME NEW items \in Seq(Fields), Len(items) =< 1, items # <<>>
  PROVE  Len(items) = 1 /\ Tail(items) = <<>>
<1>1. Len(items) \in Nat /\ Len(items) # 0
  OBVIOUS
<1>2. Len(items) = 1
  BY <1>1
<1>3. Tail(items) \in Seq(Fields) /\ Len(Tail(items)) = 0
  BY <1>2
<1>4. Tail(items) = <<>>
  BY <1>3
<1> QED BY <1>2, <1>4

\* Taking the only item away leaves none.
LEMMA RemoveOnly ==
  ASSUME NEW items \in Seq(Fields), Len(items) =< 1
  PROVE  subCacheItemRemove(items) = <<>>
BY OneItem DEF subCacheItemRemove

\* The document is found, removed, and then the item.
LEMMA UnsubscribeSerial ==
  ASSUME TypeInv, SerialInv, ReqSemUsed, NEW t \in Threads,
         UnsubscribeBegin(t) \/ UnsubscribeRemove(t) \/ UnsubscribeCache(t)
  PROVE  SerialInv'
<1>0. PICK x : x = sub[t]
  OBVIOUS
<1>1. CASE FailAndFinish(t, "remove")
  BY <1>1, FailSerial
<1>2. CASE UnsubscribeBegin(t)
  <2>1. Begin(t) /\ Goto(t, "idle", "remove") /\ UNCHANGED <<db, cache, now, restarts, lastSent, created>>
    BY <1>2 DEF UnsubscribeBegin, Begin, history
  <2>2. /\ pc[t] = "idle" /\ pc'[t] = "remove" /\ Serial'
        /\ \A u \in Threads \ {t} : pc[u] = "idle" /\ pc'[u] = "idle" /\ ThreadInv(u)'
    BY <2>1, GoesOn DEF SerialInv
  <2>3. ASSUME NEW s \in Subs PROVE SubInv(s)'
    <3>1. ~ Busy(s, Telling)
      BY <2>2 DEF Busy, Telling, Changing
    <3> QED BY <2>1, <3>1, Settled DEF SerialInv
  <2>4. ThreadInv(t)'
    BY <2>2 DEF ThreadInv
  <2> QED BY <2>2, <2>3, <2>4 DEF SerialInv
<1>3. CASE UnsubscribeRemove(t) /\ ~ FailAndFinish(t, "remove")
  <2>1. /\ Goto(t, "remove", "cacheRemove") /\ UNCHANGED <<cache, reqSem, now, sub, restarts, lastSent, created>>
        /\ db' = [db EXCEPT ![x] = NULL]
    BY <1>0, <1>3 DEF UnsubscribeRemove, bounds, history
  <2>2. /\ pc[t] = "remove" /\ pc'[t] = "cacheRemove" /\ Serial'
        /\ \A u \in Threads \ {t} : pc[u] = "idle" /\ pc'[u] = "idle" /\ ThreadInv(u)'
    BY <2>1, GoesOn DEF SerialInv
  <2>3. x \in Subs /\ db \in [Subs -> Fields \cup {NULL}]
    BY <1>0, <2>2 DEF TypeInv, TypeOK, LocalsOK
  <2>4. db'[x] = NULL /\ \A s \in Subs \ {x} : db'[s] = db[s]
    BY <2>1, <2>3
  <2>5. ASSUME NEW s \in Subs, s # x PROVE SubInv(s)'
    <3>1. ~ Busy(s, Telling)
      BY <2>2 DEF Busy, Telling, Changing
    <3> QED BY <2>1, <2>4, <2>5, <3>1, Settled DEF SerialInv
  <2>6. SubInv(x)'
    <3>1. Busy(x, Changing)' /\ Busy(x, Telling)'
      BY <1>0, <2>1, <2>2 DEF Busy, Changing, Telling
    <3>2. SubInv(x)
      BY <2>3 DEF SerialInv
    <3> QED BY <2>1, <2>4, <3>1, <3>2 DEF SubInv, Past
  <2>7. ThreadInv(t)'
    BY <1>0, <2>1, <2>2, <2>4 DEF ThreadInv
  <2>8. \A s \in Subs : SubInv(s)'
    BY <2>5, <2>6
  <2> QED BY <2>2, <2>7, <2>8 DEF SerialInv
<1>4. CASE UnsubscribeCache(t)
  <2>1. /\ Finish(t, "cacheRemove", {sub[t]}) /\ UNCHANGED <<db, now, restarts, lastSent, created>>
        /\ pc[t] = "cacheRemove"
        /\ cache' = [cache EXCEPT ![x] = subCacheItemRemove(cache[x])]
    BY <1>0, <1>4 DEF UnsubscribeCache, Finish, Goto, bounds
  <2>2. Serial' /\ \A u \in Threads : ThreadInv(u)'
    BY <2>1, FinishAlone DEF SerialInv
  <2>3. /\ x \in Subs /\ cache \in [Subs -> Seq(Fields)] /\ db[x] = NULL
        /\ \A u \in Threads \ {t} : pc[u] = "idle"
    BY <1>0, <2>1, Alone DEF TypeInv, TypeOK, LocalsOK, SerialInv, ThreadInv
  <2>4. SubInv(x)
    BY <2>3 DEF SerialInv
  <2>5. cache'[x] = <<>> /\ \A s \in Subs \ {x} : cache'[s] = cache[s]
    <3>1. subCacheItemRemove(cache[x]) = <<>>
      BY <2>3, <2>4, RemoveOnly DEF SubInv
    <3> QED BY <2>1, <2>3, <3>1
  <2>6. ASSUME NEW s \in Subs, s # x PROVE SubInv(s)'
    <3>1. ~ Busy(s, Telling)
      BY <1>0, <2>1, <2>3, <2>6 DEF Busy, Telling, Changing
    <3> QED BY <2>1, <2>5, <2>6, <3>1, Settled DEF SerialInv
  <2>7. SubInv(x)'
    <3>1. Mirror(x)' /\ Known(x)' /\ Len(cache'[x]) =< 1
      BY <2>1, <2>3, <2>5 DEF Mirror, Known
    <3> QED BY <2>1, <2>3, <2>4, <2>5, <3>1 DEF SubInv
  <2>8. \A s \in Subs : SubInv(s)'
    BY <2>6, <2>7
  <2> QED BY <2>2, <2>8 DEF SerialInv
<1> QED BY <1>1, <1>2, <1>3, <1>4

-----------------------------------------------------------------------------
(* The steps of mongoUpdateContext().                                      *)

\* An item that agrees with the document, knows the last notification and is
\* not blocked: the subscription may be notified.
LEMMA OpenIsDue ==
  ASSUME TypeInv, NEW s \in Subs, SubInv(s), Mirror(s), Known(s),
         NEW i \in DOMAIN cache[s], ~ Blocked(cache[s][i], now)
  PROVE  Due(s)
<1>1. cache[s] \in Seq(Fields) /\ db[s] \in Fields \cup {NULL} /\ now \in Nat /\ lastSent[s] \in Nat
  BY DEF TypeInv, TypeOK
<1>2. db[s] # NULL
  BY <1>1 DEF Mirror
<1>3. Len(cache[s]) = 1 /\ i = 1 /\ cache[s][1] \in Fields /\ db[s] \in Fields
  <2>1. Len(cache[s]) = 1
    BY <1>2 DEF Mirror
  <2>2. DOMAIN cache[s] = 1 .. 1
    BY <1>1, <2>1
  <2> QED BY <1>1, <1>2, <2>1, <2>2
<1> DEFINE th == cache[s][1].throttling
           time == cache[s][1].lnt
<1>4. th \in Int /\ time \in Int /\ cache[s][1].status \in {"active", "inactive"} /\ db[s].throttling \in Int
  BY <1>3 DEF Fields
<1>5. cache[s][1].status = "active" /\ (th = -1 \/ time = 0 \/ now - time >= th)
  BY <1>1, <1>3, <1>4 DEF Blocked
<1>6. db[s].status = "active" /\ Period(th) = Period(db[s].throttling)
  BY <1>2, <1>5 DEF Mirror
<1>7. lastSent[s] =< now
  BY DEF SubInv
<1>8. ASSUME restarts = 0, lastSent[s] # 0 PROVE now - lastSent[s] >= Period(th)
  <2>1. time >= lastSent[s]
    BY <1>2, <1>8 DEF Known, NotBehind
  <2> HIDE DEF th, time
  <2> QED BY <1>1, <1>4, <1>5, <1>7, <1>8, <2>1 DEF Period, Absent
<1> QED BY <1>2, <1>6, <1>8 DEF Due

\* The subscriptions triggered by an update are due, and stay so until they are
\* dealt with: nobody else changes anything meanwhile.
LEMMA UpdateMatchSerial ==
  ASSUME TypeInv, SerialInv, ReqSemUsed, NEW t \in Threads, UpdateMatch(t)
  PROVE  SerialInv'
<1>1. PICK hit \in SUBSET Subs, passes \in Outcomes :
         /\ \A s \in hit : \E i \in DOMAIN cache[s] : ~ Blocked(cache[s][i], now)
         /\ trigs' = [trigs EXCEPT ![t] = [s \in hit |-> TriggeredSubscription(cache[s], passes)]]
  BY DEF UpdateMatch
<1>2. Begin(t) /\ Goto(t, "idle", "notify") /\ UNCHANGED <<db, cache, now, restarts, lastSent, created>>
  BY DEF UpdateMatch, Begin, history
<1>3. /\ pc[t] = "idle" /\ pc'[t] = "notify" /\ Serial'
      /\ \A u \in Threads \ {t} : pc[u] = "idle" /\ pc'[u] = "idle" /\ ThreadInv(u)'
  BY <1>2, GoesOn DEF SerialInv
<1>4. \A s \in Subs : ~ Busy(s, Telling) /\ ~ Busy(s, Changing)
  BY <1>3 DEF Busy, Telling, Changing
<1>5. \A s \in Subs : SubInv(s)'
  BY <1>2, <1>4, Settled DEF SerialInv
<1>6. DOMAIN trigs'[t] = hit
  <2>1. DOMAIN trigs = Threads
    BY DEF TypeInv, TypeOK
  <2> HIDE DEF TriggeredSubscription
  <2> QED BY <1>1, <2>1
<1>7. ASSUME NEW s \in hit PROVE Due(s)'
  <2>1. SubInv(s) /\ Mirror(s) /\ Known(s)
    BY <1>4 DEF SerialInv, SubInv
  <2>2. Due(s)
    BY <1>1, <2>1, OpenIsDue
  <2> QED BY <1>2, <2>2 DEF Due
<1>8. ThreadInv(t)'
  BY <1>3, <1>6, <1>7 DEF ThreadInv
<1> QED BY <1>3, <1>5, <1>8 DEF SerialInv

\* The loop of processSubscriptions() goes on with fewer, or ends.
LEMMA DoneWithSerial ==
  ASSUME TypeInv, SerialInv, ReqSemUsed, NEW t \in Threads, NEW from \in {"notify", "record"}, NEW x, DoneWith(t, from, x),
         UNCHANGED <<db, now, restarts, lastSent>>,
         \A s \in DOMAIN trigs[t] \ {x} : Due(s)
  PROVE  /\ Serial' /\ \A u \in Threads : ThreadInv(u)'
         /\ pc[t] = from
<1>1. CASE Finish(t, from, {})
  <2>1. from # "idle" /\ pc[t] = from /\ Serial
    BY <1>1 DEF SerialInv, Finish, Goto
  <2> QED BY <1>1, <2>1, FinishAlone
<1>2. CASE ~ Finish(t, from, {})
  <2>1. /\ Goto(t, from, "notify") /\ UNCHANGED reqSem
        /\ trigs' = [trigs EXCEPT ![t] = Restrict(@, DOMAIN @ \ {x})]
    BY <1>2 DEF DoneWith
  <2>2. /\ pc[t] = from /\ pc'[t] = "notify" /\ Serial'
        /\ \A u \in Threads \ {t} : pc[u] = "idle" /\ pc'[u] = "idle" /\ ThreadInv(u)'
    BY <2>1, GoesOn DEF SerialInv
  <2>3. DOMAIN trigs'[t] = DOMAIN trigs[t] \ {x}
    BY <2>1 DEF TypeInv, TypeOK, Restrict
  <2>4. \A s \in DOMAIN trigs'[t] : Due(s)'
    BY <2>3 DEF Due
  <2>5. ThreadInv(t)'
    BY <2>2, <2>4 DEF ThreadInv
  <2> QED BY <2>2, <2>5
<1> QED BY <1>1, <1>2

\* A subscription is dropped.
LEMMA UpdateSkipSerial ==
  ASSUME TypeInv, SerialInv, ReqSemUsed, NEW t \in Threads, UpdateSkip(t)
  PROVE  SerialInv'
<1>1. PICK x \in DOMAIN trigs[t] : DoneWith(t, "notify", x)
  BY DEF UpdateSkip
<1>2. pc[t] = "notify" /\ UNCHANGED <<db, cache, now, restarts, lastSent, created>>
  BY DEF UpdateSkip, bounds, history
<1>3. \A s \in DOMAIN trigs[t] : Due(s)
  BY <1>2 DEF SerialInv, ThreadInv
<1>4. Serial' /\ \A u \in Threads : ThreadInv(u)'
  BY <1>1, <1>2, <1>3, DoneWithSerial
<1>5. \A s \in Subs : ~ Busy(s, Telling)
  <2>1. \A u \in Threads \ {t} : pc[u] = "idle"
    BY <1>2, Alone DEF SerialInv
  <2> QED BY <1>2, <2>1 DEF Busy, Telling, Changing
<1>6. \A s \in Subs : SubInv(s)'
  BY <1>2, <1>5, Settled DEF SerialInv
<1> QED BY <1>4, <1>6 DEF SerialInv

\* A subscription that is due is notified ...
LEMMA UpdateNotifySerial ==
  ASSUME TypeInv, OneItemInv, SerialInv, ReqSemUsed, NEW t \in Threads, UpdateNotify(t)
  PROVE  SerialInv'
<1>1. PICK x \in DOMAIN trigs[t] : Send(x) /\ sub' = [sub EXCEPT ![t] = x]
  BY DEF UpdateNotify
<1>2. /\ Goto(t, "notify", "record") /\ UNCHANGED <<db, cache, reqSem, now, trigs, restarts, created>>
      /\ lnt' = [lnt EXCEPT ![t] = now]
  BY DEF UpdateNotify, bounds
<1>3. /\ pc[t] = "notify" /\ pc'[t] = "record" /\ Serial'
      /\ \A u \in Threads \ {t} : pc[u] = "idle" /\ pc'[u] = "idle" /\ ThreadInv(u)'
  BY <1>2, GoesOn DEF SerialInv
<1>4. x \in Subs /\ sub'[t] = x /\ lnt'[t] = now /\ now \in Nat /\ lastSent \in [Subs -> Nat]
  <2>1. DOMAIN trigs[t] \subseteq Subs
    BY DEF TypeInv, TypeOK
  <2> QED BY <1>1, <1>2, <2>1 DEF TypeInv, TypeOK
<1>5. lastSent'[x] = now /\ \A s \in Subs \ {x} : lastSent'[s] = lastSent[s]
  BY <1>1, <1>4 DEF Send
<1>6. \A s \in DOMAIN trigs[t] : Due(s)
  BY <1>3 DEF SerialInv, ThreadInv
<1>7. \A s \in Subs : ~ Busy(s, Telling) /\ ~ Busy(s, Changing)
  BY <1>3 DEF Busy, Telling, Changing
<1>8. ASSUME NEW s \in Subs, s # x PROVE SubInv(s)'
  BY <1>2, <1>5, <1>7, <1>8, Settled DEF SerialInv
<1>9. SubInv(x) /\ Mirror(x) /\ Past(db[x].lnt) /\ db[x] # NULL
  BY <1>4, <1>6, <1>7 DEF SerialInv, SubInv, Due
<1>10. SubInv(x)'
  <2>1. Mirror(x)'
    BY <1>2, <1>9 DEF Mirror
  <2>2. Busy(x, Telling)'
    BY <1>3, <1>4 DEF Busy, Telling
  <2>3. lastSent'[x] =< now' /\ (x \notin created' => lastSent'[x] = 0)
    <3>1. x \in created
      BY <1>4, <1>9 DEF OneItemInv
    <3> QED BY <1>2, <1>4, <1>5, <3>1
  <2> QED BY <1>2, <1>9, <2>1, <2>2, <2>3 DEF SubInv, Past
<1>11. ThreadInv(t)'
  <2>1. \A s \in DOMAIN trigs'[t] \ {x} : Due(s)'
    <3>1. \A s \in DOMAIN trigs[t] : s \in Subs
      BY DEF TypeInv, TypeOK
    <3> QED BY <1>2, <1>5, <1>6, <3>1 DEF Due
  <2>2. Past(lnt[t])' /\ lnt'[t] >= db'[x].lnt /\ NotBehind(x, lnt[t])'
    BY <1>2, <1>4, <1>5, <1>9 DEF Past, NotBehind, Absent
  <2> QED BY <1>2, <1>3, <1>4, <1>9, <2>1, <2>2 DEF ThreadInv
<1> QED BY <1>3, <1>8, <1>10, <1>11 DEF SerialInv

\* ... and its item, which is still there, takes the time.
LEMMA UpdateRecordSerial ==
  ASSUME TypeInv, SerialInv, ReqSemUsed, NEW t \in Threads, UpdateRecord(t)
  PROVE  SerialInv'
<1>0. PICK x, time : x = sub[t] /\ time = lnt[t]
  OBVIOUS
<1>1. /\ DoneWith(t, "record", x) /\ pc[t] = "record" /\ UNCHANGED <<db, now, restarts, lastSent, created>>
      /\ cache' = IF Cached(cache[x]) THEN [cache EXCEPT ![x][1] = Noted(@, time)] ELSE cache
  BY <1>0 DEF UpdateRecord, CacheSection, bounds, history
<1>2. /\ x \in Subs /\ cache \in [Subs -> Seq(Fields)] /\ time \in Int
      /\ \A u \in Threads \ {t} : pc[u] = "idle"
  BY <1>0, <1>1, Alone DEF TypeInv, TypeOK, LocalsOK, SerialInv
<1>3. /\ \A s \in DOMAIN trigs[t] \ {x} : Due(s)
      /\ db[x] # NULL /\ Past(time) /\ time >= db[x].lnt /\ NotBehind(x, time)
  BY <1>0, <1>1 DEF SerialInv, ThreadInv
<1>4. Serial' /\ \A u \in Threads : ThreadInv(u)'
  BY <1>1, <1>3, DoneWithSerial
<1>5. SubInv(x) /\ Mirror(x) /\ cache[x] # <<>>
  <2>1. SubInv(x) /\ ~ Busy(x, Changing)
    BY <1>1, <1>2 DEF SerialInv, Busy, Changing
  <2> QED BY <1>2, <1>3, <2>1 DEF SubInv, Mirror
<1>6. cache'[x] = [cache[x] EXCEPT ![1] = Noted(cache[x][1], time)] /\ \A s \in Subs \ {x} : cache'[s] = cache[s]
  BY <1>1, <1>2, <1>5 DEF Cached
<1>7. ASSUME NEW s \in Subs, s # x PROVE SubInv(s)'
  <2>1. ~ Busy(s, Telling)
    BY <1>0, <1>2, <1>7 DEF Busy, Telling, Changing
  <2> QED BY <1>1, <1>6, <1>7, <2>1, Settled DEF SerialInv
<1>8. Mirror(x)' /\ cache'[x][1].lnt = time /\ Len(cache'[x]) = 1
  BY <1>1, <1>2, <1>3, <1>5, <1>6, MirrorNoted
<1>9. SubInv(x)'
  <2>1. Known(x)' /\ Past(cache[x][1].lnt)'
    BY <1>1, <1>3, <1>8 DEF Known, NotBehind, Past
  <2>2. Len(cache'[x]) =< 1
    BY <1>8
  <2> QED BY <1>1, <1>5, <1>8, <2>1, <2>2 DEF SubInv, Past
<1>10. \A s \in Subs : SubInv(s)'
  BY <1>7, <1>9
<1> QED BY <1>4, <1>10 DEF SerialInv

-----------------------------------------------------------------------------
(* The steps of mongoUpdateContextSubscription().                          *)

\* The document is read; a notification that is sent here is not yet noted.
LEMMA UpdateSubBeginSerial ==
  ASSUME TypeInv, OneItemInv, SerialInv, ReqSemUsed, NEW t \in Threads, UpdateSubBegin(t)
  PROVE  SerialInv'
<1>1. PICK x \in Subs, r \in Patches :
         /\ db[x] # NULL
         /\ sub' = [sub EXCEPT ![t] = x]
         /\ req' = [req EXCEPT ![t] = r]
         /\ doc' = [doc EXCEPT ![t] = db[x]]
         /\ IF notificationDone(r, UpdatedStatus(db[x], r)) THEN Send(x) ELSE UNCHANGED <<sent, lastSent>>
  BY DEF UpdateSubBegin
<1>2. Begin(t) /\ Goto(t, "idle", "read") /\ UNCHANGED <<db, cache, now, restarts, created>>
  BY DEF UpdateSubBegin, Begin
<1>3. /\ pc[t] = "idle" /\ pc'[t] = "read" /\ Serial'
      /\ \A u \in Threads \ {t} : pc[u] = "idle" /\ pc'[u] = "idle" /\ ThreadInv(u)'
  BY <1>2, GoesOn DEF SerialInv
<1>4. /\ sub'[t] = x /\ req'[t] = r /\ doc'[t] = db[x] /\ now \in Nat /\ lastSent \in [Subs -> Nat]
  BY <1>1 DEF TypeInv, TypeOK
<1>5. \A s \in Subs : ~ Busy(s, Telling) /\ ~ Busy(s, Changing)
  BY <1>3 DEF Busy, Telling, Changing
<1>6. /\ lastSent'[x] =< now /\ \A s \in Subs \ {x} : lastSent'[s] = lastSent[s]
      /\ notificationDone(r, UpdatedStatus(db[x], r)) \/ lastSent'[x] = lastSent[x]
  BY <1>1, <1>4 DEF Send, SerialInv, SubInv
<1>7. ASSUME NEW s \in Subs, s # x PROVE SubInv(s)'
  BY <1>2, <1>5, <1>6, <1>7, Settled DEF SerialInv
<1>8. SubInv(x) /\ Mirror(x) /\ Known(x) /\ x \in created
  BY <1>1, <1>5 DEF SerialInv, SubInv, OneItemInv
<1>9. SubInv(x)'
  <2>1. Mirror(x)'
    BY <1>2, <1>8 DEF Mirror
  <2>2. Busy(x, Telling)'
    BY <1>3, <1>4 DEF Busy, Telling
  <2> QED BY <1>2, <1>6, <1>8, <2>1, <2>2 DEF SubInv, Past
<1>10. ThreadInv(t)'
  <2>1. notificationDone(r, UpdatedStatus(db[x], r)) \/ Known(x)'
    BY <1>2, <1>6, <1>8 DEF Known, NotBehind
  <2> QED BY <1>2, <1>3, <1>4, <2>1 DEF ThreadInv
<1>11. \A s \in Subs : SubInv(s)'
  BY <1>7, <1>9
<1> QED BY <1>3, <1>10, <1>11 DEF SerialInv

\* The time of the new document.
LEMMA UpdatedTime ==
  ASSUME NEW d, NEW r, NEW count, NEW time
  PROVE  UpdatedDoc(d, r, count, time).lnt =
           IF notificationDone(r, UpdatedStatus(d, r)) THEN time
           ELSE IF d.lnt = Absent \/ time < d.lnt THEN d.lnt ELSE time
BY DEF UpdatedDoc

\* The new document is prepared from the old one and from the item, and a
\* notification is noted in the item.
LEMMA UpdateSubReadSerial ==
  ASSUME TypeInv, SerialInv, ReqSemUsed, NEW t \in Threads, UpdateSubRead(t)
  PROVE  SerialInv'
<1>0. PICK x, d, r : x = sub[t] /\ d = doc[t] /\ r = req[t]
  OBVIOUS
<1>1. Goto(t, "read", "write") /\ UNCHANGED <<db, reqSem, now, sub, restarts, lastSent, created>>
  BY DEF UpdateSubRead, bounds, history
<1>2. /\ pc[t] = "read" /\ pc'[t] = "write" /\ Serial'
      /\ \A u \in Threads \ {t} : pc[u] = "idle" /\ pc'[u] = "idle" /\ ThreadInv(u)'
  BY <1>1, GoesOn DEF SerialInv
<1>3. /\ x \in Subs /\ d \in Fields /\ db[x] = d /\ db[x] # NULL /\ cache \in [Subs -> Seq(Fields)] /\ now \in Nat
  <2>1. x \in Subs /\ d \in Fields /\ db[x] = d
    BY <1>0, <1>2 DEF TypeInv, LocalsOK, SerialInv, ThreadInv
  <2>2. cache \in [Subs -> Seq(Fields)] /\ now \in Nat
    BY DEF TypeInv, TypeOK
  <2> QED BY <2>1, <2>2, SubCacheAssumption
<1>4. SubInv(x) /\ Mirror(x) /\ cache[x] # <<>> /\ Cached(cache[x])
  <2>1. SubInv(x) /\ ~ Busy(x, Changing)
    BY <1>2, <1>3 DEF SerialInv, Busy, Changing
  <2> QED BY <1>3, <2>1 DEF SubInv, Mirror, Cached
<1> DEFINE done == notificationDone(r, UpdatedStatus(d, r))
<1>5. PICK time, old, count :
         /\ old = cache[x][1].lnt
         /\ time = IF done THEN now ELSE old
         /\ doc' = [doc EXCEPT ![t] = UpdatedDoc(d, r, count, time)]
         /\ lnt' = [lnt EXCEPT ![t] = time]
         /\ cSubP' = [cSubP EXCEPT ![t] = "item"]
         /\ cache' = IF done THEN [cache EXCEPT ![x][1] = Noted(@, now)] ELSE cache
  BY <1>0, <1>4 DEF UpdateSubRead, subCacheItemLookup
<1>6. done \/ Known(x)
  BY <1>0, <1>2 DEF SerialInv, ThreadInv
<1>7. old \in Int /\ Past(old) /\ old >= d.lnt /\ d.lnt \in Int /\ Past(d.lnt) /\ lastSent[x] =< now /\ lastSent[x] \in Nat
  <2>1. cache[x][1] \in Fields
    BY <1>3, <1>4
  <2> QED BY <1>3, <1>4, <1>5, <2>1 DEF SubInv, Mirror, TypeInv, TypeOK, Fields
<1>8. /\ doc'[t] = UpdatedDoc(d, r, count, time) /\ lnt'[t] = time /\ cSubP'[t] = "item"
      /\ cache'[x] = IF done THEN [cache[x] EXCEPT ![1] = Noted(cache[x][1], now)] ELSE cache[x]
      /\ \A s \in Subs \ {x} : cache'[s] = cache[s]
  BY <1>3, <1>5 DEF TypeInv, TypeOK
<1> HIDE DEF done
<1>9. ASSUME NEW s \in Subs, s # x PROVE SubInv(s)'
  <2>1. ~ Busy(s, Telling)
    BY <1>0, <1>2, <1>9 DEF Busy, Telling, Changing
  <2> QED BY <1>1, <1>8, <1>9, <2>1, Settled DEF SerialInv
<1>10. Mirror(x)' /\ Len(cache'[x]) = 1 /\ cache'[x][1].lnt = time
  <2>1. CASE done
    <3>1. now \in Int /\ now >= db[x].lnt /\ time = now
      BY <1>3, <1>5, <1>7, <2>1 DEF Past
    <3>2. db'[x] = db[x] /\ cache'[x] = [cache[x] EXCEPT ![1] = Noted(cache[x][1], now)]
      BY <1>1, <1>8, <2>1
    <3> QED BY <1>3, <1>4, <3>1, <3>2, MirrorNoted
  <2>2. CASE ~ done
    BY <1>1, <1>3, <1>4, <1>5, <1>8, <2>2 DEF Mirror
  <2> QED BY <2>1, <2>2
<1>11. time \in Int /\ Past(time) /\ time >= d.lnt /\ NotBehind(x, time)
  <2>1. CASE done
    BY <1>3, <1>5, <1>7, <2>1 DEF Past, NotBehind, Absent
  <2>2. CASE ~ done
    BY <1>3, <1>5, <1>6, <1>7, <2>2 DEF Known
  <2> QED BY <2>1, <2>2
<1>12. SubInv(x)'
  <2>1. Known(x)' /\ Past(cache[x][1].lnt)'
    BY <1>1, <1>10, <1>11 DEF Known, NotBehind, Past
  <2>2. Len(cache'[x]) =< 1
    BY <1>10
  <2> QED BY <1>1, <1>4, <1>10, <2>1, <2>2 DEF SubInv, Past
<1>13. ThreadInv(t)'
  <2>1. doc'[t].lnt = IF done THEN time ELSE IF d.lnt = Absent \/ time < d.lnt THEN d.lnt ELSE time
    BY <1>8, UpdatedTime DEF done
  <2>2. Past(doc[t].lnt)' /\ lnt'[t] >= doc'[t].lnt
    BY <1>1, <1>7, <1>8, <1>11, <2>1 DEF Past
  <2>3. Past(lnt[t])' /\ NotBehind(x, lnt[t])'
    BY <1>1, <1>8, <1>11 DEF Past, NotBehind
  <2>4. cache'[x] # <<>>
    BY <1>10
  <2>5. Prepared(t)'
    BY <1>0, <1>1, <2>2, <2>3, <2>4 DEF Prepared
  <2> QED BY <1>0, <1>1, <1>2, <1>3, <1>8, <2>5 DEF ThreadInv
<1>14. \A s \in Subs : SubInv(s)'
  BY <1>9, <1>12
<1> QED BY <1>2, <1>13, <1>14 DEF SerialInv

\* The document is replaced.
LEMMA UpdateSubWriteSerial ==
  ASSUME TypeInv, SerialInv, ReqSemUsed, NEW t \in Threads, UpdateSubWrite(t)
  PROVE  SerialInv'
<1>0. PICK x, d : x = sub[t] /\ d = doc[t]
  OBVIOUS
<1>1. CASE FailAndFinish(t, "write")
  BY <1>1, FailSerial
<1>2. CASE ~ FailAndFinish(t, "write")
  <2>1. /\ Goto(t, "write", "reset") /\ UNCHANGED <<cache, reqSem, now, sub, doc, cSubP, lnt, restarts, lastSent, created>>
        /\ db' = [db EXCEPT ![x] = IF @ = NULL THEN NULL ELSE d]
    BY <1>0, <1>2 DEF UpdateSubWrite, bounds, history
  <2>2. /\ pc[t] = "write" /\ pc'[t] = "reset" /\ Serial'
        /\ \A u \in Threads \ {t} : pc[u] = "idle" /\ pc'[u] = "idle" /\ ThreadInv(u)'
    BY <2>1, GoesOn DEF SerialInv
  <2>3. x \in Subs /\ db \in [Subs -> Fields \cup {NULL}] /\ db[x] # NULL /\ Prepared(t) /\ cSubP[t] = "item"
    BY <1>0, <2>2 DEF TypeInv, TypeOK, LocalsOK, SerialInv, ThreadInv
  <2>4. db'[x] = d /\ \A s \in Subs \ {x} : db'[s] = db[s]
    BY <2>1, <2>3
  <2>5. ASSUME NEW s \in Subs, s # x PROVE SubInv(s)'
    <3>1. ~ Busy(s, Telling)
      BY <2>2 DEF Busy, Telling, Changing
    <3> QED BY <2>1, <2>4, <2>5, <3>1, Settled DEF SerialInv
  <2>6. SubInv(x)'
    <3>1. Busy(x, Changing)' /\ Busy(x, Telling)'
      BY <1>0, <2>1, <2>2 DEF Busy, Changing, Telling
    <3>2. SubInv(x)
      BY <2>3 DEF SerialInv
    <3>3. Past(db[x].lnt)'
      BY <1>0, <2>1, <2>3, <2>4 DEF Prepared, Past
    <3> QED BY <2>1, <3>1, <3>2, <3>3 DEF SubInv, Past
  <2>7. ThreadInv(t)'
    <3>1. Prepared(t)'
      BY <2>1, <2>3 DEF Prepared, Past, NotBehind
    <3> QED BY <1>0, <2>1, <2>2, <2>3, <2>4, <3>1 DEF ThreadInv
  <2>8. \A s \in Subs : SubInv(s)'
    BY <2>5, <2>6
  <2> QED BY <2>2, <2>7, <2>8 DEF SerialInv
<1> QED BY <1>1, <1>2

\* Setting the count of an item to 0 keeps its time.
LEMMA ResetTime ==
  ASSUME NEW items \in Seq(Fields), Len(items) = 1
  PROVE  LET new == [items EXCEPT ![1].count = 0]
         IN  Len(new) = 1 /\ new # <<>> /\ new[1].lnt = items[1].lnt
<1> DEFINE item == [items[1] EXCEPT !.count = 0]
           new == [items EXCEPT ![1] = item]
<1>0. items[1] \in Fields /\ 1 \in DOMAIN items
  OBVIOUS
<1>1. item \in Fields /\ item.lnt = items[1].lnt
  BY <1>0 DEF Fields
<1> HIDE DEF item
<1>2. Len(new) = 1
  BY WriteLen
<1>3. new[1] = item /\ new # <<>>
  <2>1. new[1] = item
    BY <1>0
  <2>2. new # <<>>
    <3> HIDE DEF new
    <3> QED BY <1>2
  <2> QED BY <2>1, <2>2
<1>4. new = [items EXCEPT ![1].count = 0]
  BY DEF item
<1> HIDE DEF new
<1> QED BY <1>1, <1>2, <1>3, <1>4

\* The pointer to the item is still good, and its count is set to 0.
LEMMA UpdateSubResetSerial ==
  ASSUME TypeInv, SerialInv, ReqSemUsed, NEW t \in Threads, UpdateSubReset(t)
  PROVE  SerialInv'
<1>0. PICK x : x = sub[t]
  OBVIOUS
<1>1. Goto(t, "reset", "cacheUpdate") /\ UNCHANGED <<db, reqSem, now, sub, doc, lnt, restarts, lastSent, created>>
  BY DEF UpdateSubReset, bounds, history
<1>2. /\ pc[t] = "reset" /\ pc'[t] = "cacheUpdate" /\ Serial'
      /\ \A u \in Threads \ {t} : pc[u] = "idle" /\ pc'[u] = "idle" /\ ThreadInv(u)'
  BY <1>1, GoesOn DEF SerialInv
<1>3. x \in Subs /\ cache \in [Subs -> Seq(Fields)] /\ db[x] = doc[t] /\ Prepared(t) /\ cSubP[t] = "item"
  BY <1>0, <1>2 DEF TypeInv, TypeOK, LocalsOK, SerialInv, ThreadInv
<1>4. cache' = cache \/ cache' = [cache EXCEPT ![x] = [cache[x] EXCEPT ![1].count = 0]]
  BY <1>0, <1>3 DEF UpdateSubReset
<1>5. SubInv(x) /\ Len(cache[x]) = 1 /\ cache[x] \in Seq(Fields)
  <2>1. SubInv(x) /\ cache[x] \in Seq(Fields) /\ cache[x] # <<>> /\ Len(cache[x]) =< 1
    BY <1>0, <1>3 DEF SerialInv, SubInv, Prepared
  <2> QED BY <2>1, OneItem
<1>6. /\ Len(cache'[x]) = 1 /\ cache'[x] # <<>> /\ cache'[x][1].lnt = cache[x][1].lnt
      /\ \A s \in Subs \ {x} : cache'[s] = cache[s]
  <2>1. CASE cache' = cache
    BY <1>5, <2>1
  <2>2. CASE cache' = [cache EXCEPT ![x] = [cache[x] EXCEPT ![1].count = 0]]
    BY <1>3, <1>5, <2>2, ResetTime
  <2> QED BY <1>4, <2>1, <2>2
<1>7. ASSUME NEW s \in Subs, s # x PROVE SubInv(s)'
  <2>1. ~ Busy(s, Telling)
    BY <1>0, <1>2, <1>7 DEF Busy, Telling, Changing
  <2> QED BY <1>1, <1>6, <1>7, <2>1, Settled DEF SerialInv
<1>8. SubInv(x)'
  <2>1. Busy(x, Changing)' /\ Busy(x, Telling)'
    BY <1>0, <1>1, <1>2 DEF Busy, Changing, Telling
  <2>2. Len(cache'[x]) =< 1
    BY <1>6
  <2>3. Past(cache[x][1].lnt)'
    <3>1. cache[x] # <<>>
      BY <1>0, <1>3 DEF Prepared
    <3> QED BY <1>1, <1>5, <1>6, <3>1 DEF SubInv, Past
  <2> QED BY <1>1, <1>5, <2>1, <2>2, <2>3 DEF SubInv, Past
<1>9. ThreadInv(t)'
  <2>1. Prepared(t)'
    BY <1>0, <1>1, <1>3, <1>6 DEF Prepared, Past, NotBehind
  <2> QED BY <1>0, <1>1, <1>2, <1>3, <2>1 DEF ThreadInv
<1>10. \A s \in Subs : SubInv(s)'
  BY <1>7, <1>8
<1> QED BY <1>2, <1>9, <1>10 DEF SerialInv

\* Appending an item and removing the first leaves the new one.
LEMMA ReplaceOnly ==
  ASSUME NEW items \in Seq(Fields), Len(items) =< 1, items # <<>>, NEW item \in Fields
  PROVE  subCacheItemRemove(subCacheItemInsert(items, item)) = <<item>>
<1>1. PICK new : new = Tail(Append(items, item))
  OBVIOUS
<1>2. Len(items) = 1 /\ Len(Append(items, item)) = 2
  BY OneItem
<1>3. new \in Seq(Fields) /\ Len(new) = 1 /\ new[1] = item
  BY <1>1, <1>2
<1>4. new = <<item>>
  BY <1>3
<1>5. Append(items, item) # <<>>
  BY <1>2
<1> QED BY <1>1, <1>4, <1>5 DEF subCacheItemRemove, subCacheItemInsert

\* The item is replaced by one made from the new document.
LEMMA UpdateSubCacheSerial ==
  ASSUME TypeInv, SerialInv, ReqSemUsed, NEW t \in Threads, UpdateSubCache(t)
  PROVE  SerialInv'
<1>0. PICK x, d, time, f : x = sub[t] /\ d = doc[t] /\ time = lnt[t] /\ f = (req[t].filter = "set")
  OBVIOUS
<1>1. /\ Finish(t, "cacheUpdate", {sub[t]}) /\ UNCHANGED <<db, now, restarts, lastSent, created>> /\ pc[t] = "cacheUpdate"
      /\ cache' = [cache EXCEPT ![x] = IF Cached(@) THEN subCacheItemRemove(subCacheItemInsert(@, UpdatedItem(d, time, f))) ELSE @]
  BY <1>0 DEF UpdateSubCache, Finish, Goto, bounds, history
<1>2. Serial' /\ \A u \in Threads : ThreadInv(u)'
  BY <1>1, FinishAlone DEF SerialInv
<1>3. /\ x \in Subs /\ cache \in [Subs -> Seq(Fields)] /\ d \in Fields /\ db[x] = d /\ Prepared(t)
      /\ time \in Int /\ f \in BOOLEAN
      /\ \A u \in Threads \ {t} : pc[u] = "idle"
  <2>1. x \in Subs /\ d \in Fields /\ db[x] = d /\ Prepared(t)
    BY <1>0, <1>1 DEF TypeInv, LocalsOK, SerialInv, ThreadInv
  <2>2. cache \in [Subs -> Seq(Fields)] /\ time \in Int
    BY <1>0 DEF TypeInv, TypeOK
  <2>3. \A u \in Threads \ {t} : pc[u] = "idle"
    BY <1>1, Alone DEF SerialInv
  <2> QED BY <1>0, <2>1, <2>2, <2>3
<1>4. /\ cache[x] # <<>> /\ Past(d.lnt) /\ Past(time) /\ (time # Absent => time >= d.lnt) /\ NotBehind(x, time)
  BY <1>0, <1>3 DEF Prepared
<1>5. SubInv(x) /\ Len(cache[x]) = 1 /\ cache[x] \in Seq(Fields)
  <2>1. SubInv(x) /\ cache[x] \in Seq(Fields) /\ Len(cache[x]) =< 1
    BY <1>3 DEF SerialInv, SubInv
  <2> QED BY <1>4, <2>1, OneItem
<1> DEFINE item == UpdatedItem(d, time, f)
<1>6. /\ item \in Fields /\ item.status = d.status /\ item.throttling = d.throttling
      /\ item.lnt = IF time = -1 THEN d.lnt ELSE time
  BY <1>3, ItemTypes DEF UpdatedItem
<1> HIDE DEF item
<1>7. cache'[x] = <<item>> /\ \A s \in Subs \ {x} : cache'[s] = cache[s]
  <2>1. subCacheItemRemove(subCacheItemInsert(cache[x], item)) = <<item>>
    <3>1. cache[x] \in Seq(Fields) /\ Len(cache[x]) =< 1 /\ cache[x] # <<>> /\ item \in Fields
      BY <1>4, <1>5, <1>6
    <3> QED BY <3>1, ReplaceOnly
  <2> QED BY <1>1, <1>3, <1>4, <2>1 DEF item, Cached
<1>8. Len(cache'[x]) = 1 /\ cache'[x][1] = item
  BY <1>7
<1>9. item.lnt >= d.lnt /\ Past(item.lnt) /\ NotBehind(x, item.lnt)
  <2>1. d.lnt \in Int /\ lastSent[x] \in Nat
    BY <1>3 DEF Fields, TypeInv, TypeOK
  <2> QED BY <1>3, <1>4, <1>6, <2>1 DEF NotBehind, Absent
<1>10. ASSUME NEW s \in Subs, s # x PROVE SubInv(s)'
  <2>1. ~ Busy(s, Telling)
    BY <1>0, <1>3, <1>10 DEF Busy, Telling, Changing
  <2> QED BY <1>1, <1>7, <1>10, <2>1, Settled DEF SerialInv
<1>11. SubInv(x)'
  <2>1. Mirror(x)'
    BY <1>1, <1>3, <1>6, <1>8, <1>9, SubCacheAssumption DEF Mirror
  <2>2. Known(x)' /\ Past(cache[x][1].lnt)'
    BY <1>1, <1>8, <1>9 DEF Known, NotBehind, Past
  <2>3. Len(cache'[x]) =< 1
    BY <1>8
  <2> QED BY <1>1, <1>5, <2>1, <2>2, <2>3 DEF SubInv, Past
<1>12. \A s \in Subs : SubInv(s)'
  BY <1>10, <1>11
<1> QED BY <1>2, <1>12 DEF SerialInv

-----------------------------------------------------------------------------
(* The invariant.                                                          *)

\* Time passes: what was past and what was due stay so.
LEMMA TickSerial ==
  ASSUME TypeInv, SerialInv, Tick
  PROVE  SerialInv'
<1>1. /\ now' = now + 1 /\ now \in Nat
      /\ UNCHANGED <<db, cache, reqSem, pc, sub, req, doc, cSubP, lnt, trigs, restarts, lastSent, created>>
  BY DEF Tick, threadVars, bounds, history, TypeInv, TypeOK
<1>2. \A s \in Subs : lastSent[s] \in Nat
  BY DEF TypeInv, TypeOK
<1>3. ASSUME NEW time \in Int, Past(time) PROVE Past(time)'
  BY <1>1, <1>3 DEF Past, Absent
<1>4. ASSUME NEW s \in Subs PROVE SubInv(s)'
  <2>1. SubInv(s) /\ db[s] \in Fields \cup {NULL} /\ cache[s] \in Seq(Fields)
    BY DEF SerialInv, TypeInv, TypeOK
  <2>2. (Mirror(s) => Mirror(s)') /\ (Known(s) => Known(s)')
    BY <1>1 DEF Mirror, Known, NotBehind
  <2>3. (Busy(s, Changing) => Busy(s, Changing)') /\ (Busy(s, Telling) => Busy(s, Telling)')
    BY <1>1 DEF Busy
  <2>4. db'[s] # NULL => Past(db[s].lnt)'
    <3> SUFFICES ASSUME db[s] # NULL PROVE Past(db[s].lnt)'
      BY <1>1
    <3>1. db[s].lnt \in Int /\ Past(db[s].lnt)
      BY <2>1 DEF Fields, SubInv
    <3> QED BY <1>1, <3>1 DEF Past
  <2>5. cache'[s] # <<>> => Past(cache[s][1].lnt)'
    <3> SUFFICES ASSUME cache[s] # <<>> PROVE Past(cache[s][1].lnt)'
      BY <1>1
    <3>1. cache[s][1] \in Fields
      BY <2>1
    <3>2. cache[s][1].lnt \in Int /\ Past(cache[s][1].lnt)
      BY <2>1, <3>1 DEF Fields, SubInv
    <3> QED BY <1>1, <3>2 DEF Past
  <2> QED BY <1>1, <1>2, <2>1, <2>2, <2>3, <2>4, <2>5 DEF SubInv
<1>5. ASSUME NEW s \in Subs, Due(s) PROVE Due(s)'
  <2>1. db[s] \in Fields
    BY <1>5 DEF TypeInv, TypeOK, Due
  <2>2. Period(db[s].throttling) \in Int
    BY <2>1 DEF Fields, Period
  <2> QED BY <1>1, <1>2, <1>5, <2>2 DEF Due
<1>6. ASSUME NEW t \in Threads PROVE ThreadInv(t)'
  <2>1. ThreadInv(t) /\ lnt[t] \in Int /\ \A s \in DOMAIN trigs[t] : s \in Subs
    BY DEF SerialInv, TypeInv, TypeOK
  <2>2. pc[t] \in {"insert", "write", "reset", "cacheUpdate"} => doc[t].lnt \in Int
    BY DEF TypeInv, LocalsOK, Fields
  <2>3. pc[t] \in {"insert", "write", "reset", "cacheUpdate"} /\ Past(doc[t].lnt) => Past(doc[t].lnt)'
    BY <1>1, <2>2 DEF Past
  <2>4. Past(lnt[t]) => Past(lnt[t])'
    BY <1>1, <2>1 DEF Past
  <2>5. \A s, time : NotBehind(s, time) => NotBehind(s, time)'
    BY <1>1 DEF NotBehind
  <2>6. pc[t] \in {"write", "reset", "cacheUpdate"} /\ Prepared(t) => Prepared(t)'
    BY <1>1, <2>3, <2>4 DEF Prepared, NotBehind
  <2>7. Known(sub[t]) => Known(sub[t])'
    BY <1>1 DEF Known, NotBehind
  <2>8. pc'[t] = "insert" => /\ db'[sub'[t]] = NULL /\ cache'[sub'[t]] = <<>>
                             /\ Past(doc[t].lnt)' /\ NotBehind(sub[t], doc[t].lnt)'
    BY <1>1, <2>1, <2>3 DEF ThreadInv, NotBehind
  <2>9. pc'[t] = "record" => /\ \A s \in DOMAIN trigs'[t] \ {sub'[t]} : Due(s)'
                             /\ db'[sub'[t]] # NULL
                             /\ Past(lnt[t])' /\ lnt'[t] >= db'[sub'[t]].lnt /\ NotBehind(sub[t], lnt[t])'
    BY <1>1, <1>5, <2>1, <2>4 DEF ThreadInv, NotBehind
  <2>10. /\ pc'[t] = "cacheInsert" => /\ db'[sub'[t]] = doc'[t] /\ cache'[sub'[t]] = <<>>
                                      /\ NotBehind(sub[t], doc[t].lnt)'
         /\ pc'[t] = "cacheRemove" => db'[sub'[t]] = NULL
         /\ pc'[t] = "notify" => \A s \in DOMAIN trigs'[t] : Due(s)'
    BY <1>1, <1>5, <2>1 DEF ThreadInv, NotBehind
  <2>11. /\ pc'[t] = "read" => /\ db'[sub'[t]] = doc'[t]
                               /\ notificationDone(req'[t], UpdatedStatus(doc'[t], req'[t])) \/ Known(sub[t])'
         /\ pc'[t] = "write" => db'[sub'[t]] # NULL /\ Prepared(t)' /\ cSubP'[t] = "item"
         /\ pc'[t] = "reset" => db'[sub'[t]] = doc'[t] /\ Prepared(t)' /\ cSubP'[t] = "item"
         /\ pc'[t] = "cacheUpdate" => db'[sub'[t]] = doc'[t] /\ Prepared(t)'
    BY <1>1, <2>1, <2>6, <2>7 DEF ThreadInv
  <2> QED BY <2>8, <2>9, <2>10, <2>11 DEF ThreadInv
<1>7. Serial'
  BY <1>1 DEF SerialInv, Serial
<1> QED BY <1>4, <1>6, <1>7 DEF SerialInv

\* Startup fills the cache from the documents.
LEMMA StartMirror ==
  ASSUME NEW d \in [Subs -> Fields \cup {NULL}], NEW s \in Subs
  PROVE  /\ d[s] = NULL => CacheOf(d)[s] = <<>>
         /\ d[s] # NULL => /\ Len(CacheOf(d)[s]) = 1 /\ CacheOf(d)[s][1].lnt = d[s].lnt
                           /\ CacheOf(d)[s][1].status = d[s].status
                           /\ CacheOf(d)[s][1].throttling = d[s].throttling
<1>1. d[s] = NULL => CacheOf(d)[s] = <<>>
  BY DEF CacheOf
<1>2. ASSUME d[s] # NULL PROVE CacheOf(d)[s] = <<RefreshedItem(d[s])>>
  BY <1>2 DEF CacheOf
<1>3. PICK item : item = RefreshedItem(d[s])
  OBVIOUS
<1>4. item.lnt = d[s].lnt /\ item.status = d[s].status /\ item.throttling = d[s].throttling
  BY <1>3 DEF RefreshedItem
<1>5. d[s] # NULL => CacheOf(d)[s] = <<item>>
  BY <1>2, <1>3
<1>6. <<item>>[1] = item /\ Len(<<item>>) = 1
  OBVIOUS
<1>7. PICK items : items = CacheOf(d)[s]
  OBVIOUS
<1>8. d[s] # NULL => Len(items) = 1 /\ items[1] = item
  BY <1>5, <1>6, <1>7
<1> QED BY <1>1, <1>4, <1>7, <1>8

\* A restart makes the cache anew.
LEMMA RestartSerial ==
  ASSUME TypeInv, SerialInv, Restart
  PROVE  SerialInv'
<1>1. /\ cache' = CacheOf(db) /\ restarts' = restarts + 1 /\ \A t \in Threads : pc'[t] = "idle"
      /\ UNCHANGED <<db, now, lastSent, created>>
  BY DEF Restart, history
<1>2. restarts' # 0 /\ db \in [Subs -> Fields \cup {NULL}]
  BY <1>1 DEF TypeInv, TypeOK
<1>3. ASSUME NEW s \in Subs PROVE SubInv(s)'
  <2>1. SubInv(s)
    BY DEF SerialInv
  <2>2. Known(s)'
    BY <1>2 DEF Known, NotBehind
  <2>3. CASE db[s] = NULL
    <3>1. cache'[s] = <<>>
      BY <1>1, <1>2, <2>3, StartMirror
    <3>2. Mirror(s)' /\ Len(cache'[s]) =< 1
      BY <1>1, <2>3, <3>1 DEF Mirror
    <3> QED BY <1>1, <2>1, <2>2, <2>3, <3>1, <3>2 DEF SubInv
  <2>4. CASE db[s] # NULL
    <3>1. /\ Len(cache'[s]) = 1 /\ cache'[s][1].lnt = db[s].lnt /\ cache'[s][1].status = db[s].status
          /\ cache'[s][1].throttling = db[s].throttling
      BY <1>1, <1>2, <2>4, StartMirror
    <3>2. db[s].lnt \in Int
      BY <1>2, <2>4 DEF Fields
    <3>3. Mirror(s)' /\ Len(cache'[s]) =< 1
      BY <1>1, <2>4, <3>1, <3>2 DEF Mirror
    <3>4. Past(db[s].lnt)' /\ Past(cache[s][1].lnt)'
      BY <1>1, <2>1, <2>4, <3>1 DEF SubInv, Past
    <3> QED BY <1>1, <2>1, <2>2, <3>3, <3>4 DEF SubInv
  <2> QED BY <2>3, <2>4
<1>4. \A t \in Threads : ThreadInv(t)'
  BY <1>1 DEF ThreadInv
<1>5. Serial'
  BY <1>1 DEF Serial
<1> QED BY <1>3, <1>4, <1>5 DEF SerialInv

\* At startup the cache has just been filled and nothing has been sent.
LEMMA SerialInit == Init => SerialInv
<1> SUFFICES ASSUME Init PROVE SerialInv
  OBVIOUS
<1>1. /\ db \in [Subs -> StoredDoc \cup {NULL}] /\ cache = CacheOf(db) /\ now = StartTime /\ StartTime \in Nat
      /\ \A t \in Threads : pc[t] = "idle"
      /\ \A s \in Subs : lastSent[s] = 0
  BY SubCacheAssumption DEF Init
<1>2. TypeInv
  BY TypeInit
<1>3. ASSUME NEW s \in Subs PROVE SubInv(s)
  <2>1. db \in [Subs -> Fields \cup {NULL}]
    BY <1>2 DEF TypeInv, TypeOK
  <2>2. Known(s) /\ lastSent[s] =< now
    BY <1>1 DEF Known, NotBehind
  <2>3. CASE db[s] = NULL
    <3>1. cache[s] = <<>>
      BY <1>1, <2>1, <2>3, StartMirror
    <3> QED BY <1>1, <2>2, <2>3, <3>1 DEF SubInv, Mirror
  <2>4. CASE db[s] # NULL
    <3>1. /\ Len(cache[s]) = 1 /\ cache[s][1].lnt = db[s].lnt /\ cache[s][1].status = db[s].status
          /\ cache[s][1].throttling = db[s].throttling
      BY <1>1, <2>1, <2>4, StartMirror
    <3>2. db[s].lnt = Absent
      BY <1>1, <2>4 DEF StoredDoc
    <3>3. Mirror(s) /\ Len(cache[s]) =< 1
      BY <2>4, <3>1, <3>2 DEF Mirror, Absent
    <3>4. Past(db[s].lnt) /\ Past(cache[s][1].lnt)
      BY <1>1, <3>1, <3>2 DEF Past, Absent
    <3> QED BY <1>1, <2>2, <3>3, <3>4 DEF SubInv
  <2> QED BY <2>3, <2>4
<1> QED BY <1>1, <1>3 DEF SerialInv, Serial, ThreadInv

\* Every step keeps it.
LEMMA SerialNext ==
  ASSUME TypeInv, OneItemInv, SerialInv, ReqSemUsed, ~ SubCacheIval, [Next]_vars
  PROVE  SerialInv'
<1>1. ASSUME NEW t \in Threads,
             SubscribeBegin(t) \/ UnsubscribeBegin(t) \/ UpdateMatch(t) \/ UpdateSubBegin(t)
      PROVE  SerialInv'
  BY <1>1, SubscribeBeginSerial, UnsubscribeSerial, UpdateMatchSerial, UpdateSubBeginSerial
<1>2. ASSUME NEW t \in Threads, RequestStep(t) \/ CacheStep(t) PROVE SerialInv'
  BY <1>2, SubscribeSerial, UnsubscribeSerial, UpdateSkipSerial, UpdateNotifySerial, UpdateRecordSerial,
     UpdateSubReadSerial, UpdateSubWriteSerial, UpdateSubResetSerial, UpdateSubCacheSerial DEF RequestStep, CacheStep
<1>3. ~ Sync
  BY DEF OneItemInv, Sync, SyncSave, SyncDestroy, SyncRefresh, SyncCompare, SyncFlushCount, SyncFlushTime, SyncEnd, SyncGoto
<1>4. CASE Tick \/ Restart
  BY <1>4, TickSerial, RestartSerial
<1>5. CASE UNCHANGED vars
  <2>1. /\ UNCHANGED <<db, cache, now, reqSem, created, lastSent, restarts>>
        /\ UNCHANGED <<pc, sub, doc, req, lnt, trigs, cSubP>>
    BY <1>5 DEF vars, threadVars, bounds, history
  <2>2. \A s \in Subs : SubInv(s)'
    BY <2>1 DEF SerialInv, SubInv, Mirror, Known, NotBehind, Past, Busy
  <2>3. ASSUME NEW t \in Threads PROVE ThreadInv(t)'
    <3>1. ThreadInv(t)
      BY DEF SerialInv
    <3>2. \A s : Due(s)' = Due(s)
      BY <2>1 DEF Due
    <3>3. Prepared(t)' = Prepared(t) /\ Known(sub[t])' = Known(sub[t])
      BY <2>1 DEF Prepared, Known, Past, NotBehind
    <3> QED BY <2>1, <3>1, <3>2, <3>3 DEF ThreadInv, Past, NotBehind
  <2> QED BY <2>1, <2>2, <2>3 DEF SerialInv, Serial
<1> QED BY <1>1, <1>2, <1>3, <1>4, <1>5 DEF Next, Rest

\* The one step from "notify" to "record" is a notification by an update.
LEMMA NotifyPlace ==
  ASSUME TypeInv, [Next]_vars, NEW t \in Threads, pc[t] = "notify", pc'[t] = "record"
  PROVE  UpdateNotify(t)
<1>0. pc \in [Threads -> PcSet]
  BY DEF TypeInv, TypeOK, PcSet
<1>1. ASSUME NEW u \in Threads, NEW from, NEW S, Finish(u, from, S) PROVE FALSE
  BY <1>0, <1>1 DEF Finish, Goto
<1>2. ASSUME NEW u \in Threads, NEW from, NEW s, DoneWith(u, from, s) PROVE FALSE
  BY <1>0, <1>1, <1>2 DEF DoneWith, Goto
<1>3. ASSUME NEW u \in Threads,
             SubscribeBegin(u) \/ UnsubscribeBegin(u) \/ UpdateMatch(u) \/ UpdateSubBegin(u)
      PROVE  FALSE
  BY <1>0, <1>3 DEF SubscribeBegin, UnsubscribeBegin, UpdateMatch, UpdateSubBegin, Goto
<1>4. ASSUME NEW u \in Threads, CacheStep(u) PROVE FALSE
  BY <1>0, <1>1, <1>2, <1>4 DEF CacheStep, SubscribeCache, UnsubscribeCache, UpdateRecord, UpdateSubCache
<1>5. ASSUME NEW u \in Threads, RequestStep(u), ~ UpdateNotify(u) PROVE FALSE
  BY <1>0, <1>1, <1>2, <1>5 DEF RequestStep, SubscribeInsert, UnsubscribeRemove, UpdateSkip, UpdateSubRead, UpdateSubWrite,
     UpdateSubReset, FailAndFinish, Goto
<1>6. ASSUME NEW u \in Threads, UpdateNotify(u), u # t PROVE FALSE
  BY <1>0, <1>6 DEF UpdateNotify, Goto
<1>7. CASE Sync
  BY <1>0, <1>7 DEF Sync, SyncSave, SyncDestroy, SyncRefresh, SyncCompare, SyncFlushCount, SyncFlushTime, SyncEnd, threadVars
<1>8. CASE Tick \/ Restart \/ Rest \/ UNCHANGED vars
  BY <1>0, <1>8 DEF Tick, Restart, Rest, vars, threadVars
<1> QED BY <1>3, <1>4, <1>5, <1>6, <1>7, <1>8 DEF Next

\* What is notified because of an update is due by the database.
LEMMA SentIsDue ==
  ASSUME TypeInv, SerialInv, [Next]_vars, NEW s \in Subs, OnChangeSend(s)
  PROVE  Due(s)
<1>1. PICK t \in Threads : pc[t] = "notify" /\ pc'[t] = "record"
  BY DEF OnChangeSend
<1>2. UpdateNotify(t)
  BY <1>1, NotifyPlace
<1>3. PICK x \in DOMAIN trigs[t] : Send(x)
  BY <1>2 DEF UpdateNotify
<1>4. s = x
  BY <1>3 DEF Send, OnChangeSend, TypeInv, TypeOK
<1> QED BY <1>1, <1>3, <1>4 DEF SerialInv, ThreadInv

-----------------------------------------------------------------------------
(* The theorems.                                                           *)

\* With the request semaphore and without the refresher the cache mirrors the
\* documents whenever no request is between its write to the database and its
\* write to the cache, whatever the clients ask, whatever database operation
\* fails and whenever the broker is restarted.
THEOREM SubCacheMirrorsDb ==
  ASSUME ReqSemUsed, ~ SubCacheIval
  PROVE  Spec => []CacheMirrorsDb
<1>1. SerialInv => CacheMirrorsDb
  BY DEF SerialInv, SubInv, Mirror, Busy, Changing, CacheMirrorsDb, Halfway
<1>2. TypeInv /\ TypeInv' /\ OneItemInv /\ [Next]_vars => OneItemInv'
  BY OneItemNext
<1>3. TypeInv /\ OneItemInv /\ SerialInv /\ [Next]_vars => SerialInv'
  BY SerialNext
<1> QED BY <1>1, <1>2, <1>3, TypeInit, TypeNext, OneItemInit, SerialInit, PTL DEF Spec

\* Under the same conditions processSubscriptions(), which looks only at the
\* cache, sends only for subscriptions that are stored and active.
THEOREM SubCacheSendsOnlyStoredActive ==
  ASSUME ReqSemUsed, ~ SubCacheIval
  PROVE  Spec => SendsOnlyStoredActive
<1>1. TypeInv /\ SerialInv /\ [Next]_vars
        => [\A s \in Subs : OnChangeSend(s) => db[s] # NULL /\ db[s].status = "active"]_vars
  BY SentIsDue DEF Due
<1>2. TypeInv /\ TypeInv' /\ OneItemInv /\ [Next]_vars => OneItemInv'
  BY OneItemNext
<1>3. TypeInv /\ OneItemInv /\ SerialInv /\ [Next]_vars => SerialInv'
  BY SerialNext
<1> QED BY <1>1, <1>2, <1>3, TypeInit, TypeNext, OneItemInit, SerialInit, PTL DEF Spec, SendsOnlyStoredActive

\* Under the same conditions an update never notifies a subscription before the
\* period it has in the database is over, although the time of the last
\* notification is kept in the cache only.
THEOREM SubCacheThrottlingRespected ==
  ASSUME ReqSemUsed, ~ SubCacheIval
  PROVE  Spec => ThrottlingRespected
<1>1. TypeInv /\ SerialInv /\ [Next]_vars
        => [\A s \in Subs : OnChangeSend(s) /\ restarts = 0 /\ lastSent[s] # 0 /\ db[s] # NULL
                              => now - lastSent[s] >= Period(db[s].throttling)]_vars
  BY SentIsDue DEF Due
<1>2. TypeInv /\ TypeInv' /\ OneItemInv /\ [Next]_vars => OneItemInv'
  BY OneItemNext
<1>3. TypeInv /\ OneItemInv /\ SerialInv /\ [Next]_vars => SerialInv'
  BY SerialNext
<1> QED BY <1>1, <1>2, <1>3, TypeInit, TypeNext, OneItemInit, SerialInit, PTL DEF Spec, ThrottlingRespected
=============================================================================
