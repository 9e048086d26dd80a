------------------------ MODULE SubCacheCountProofs ------------------------
(***************************************************************************)
(* No notification is lost from the counts, and none is counted twice,     *)
(* while the refresher moves the counts of the cache to the database: a    *)
(* proof of SubCache!CountsConserved for any number of subscriptions and   *)
(* threads.                                                                *)
(***************************************************************************)
EXTENDS SubCacheProofs, FiniteSetTheorems

\* The broker at work between two changes of its subscriptions: requests
\* unsubscribe and update context, the database answers, nothing is restarted.
\* Each of these conditions is needed: an initial notification is counted in the document
\* and in the item (mongoSubscribeContext), a subscription update without
\* notification may forget the count of the item, a failing $inc loses the
\* count it was to add, and so does a crash.
Undisturbed ==
  Stored = Subs /\ Patches = {} /\ ~ DbMayFail /\ MaxRestarts = 0 /\ IsFiniteSet(Threads)

\* The four places where a notification is counted.
InDoc(s)     == FieldOr(db[s].count, 0)
InCache(s)   == IF spc # "destroy" /\ Cached(cache[s]) THEN cache[s][1].count ELSE 0
InSync(s)    == IF s \in DOMAIN saved THEN saved[s].count ELSE 0
Recorders(s) == {t \in Threads : pc[t] = "record" /\ sub[t] = s}

\* A stored subscription has one item except while the refresher has none, the
\* refresher's loop leaves no count behind, and what is counted is what was sent.
StoredCounted(s) ==
  /\ db[s].count \in Nat \cup {Absent}
  /\ spc # "refresh" => Len(cache[s]) = 1 /\ cache[s][1].count \in Nat
  /\ s \in DOMAIN saved => saved[s].count \in Nat
  /\ s \in DOMAIN saved /\ spc = "flush" /\ s \notin todo => saved[s].count = 0
  /\ Accounted(s) = sent[s]

\* The inductive invariant.
CountInv ==
  /\ spc = "sleep" => saved = EmptyFcn
  /\ \A t \in Threads : pc[t] = "cacheRemove" => db[sub[t]] = NULL
  /\ \A s \in Subs : db[s] # NULL => StoredCounted(s)

-----------------------------------------------------------------------------
(* The setting, and the terms of the sum.                                  *)

\* The provers that try a step, in this order.
USE ZenonT(6), SMTT(15)

\* What the invariants of SubCacheProofs say here: nobody inserts, nobody
\* updates a subscription, and a refresh starts from an empty list.
LEMMA Setting ==
  ASSUME Undisturbed, TypeInv, OneItemInv
  PROVE  /\ \A t \in Threads : pc[t] \in {"idle", "remove", "cacheRemove", "notify", "record"}
         /\ created = Subs
         /\ \A s \in Subs : Len(cache[s]) =< 1
         /\ spc = "refresh" => \A s \in Subs : cache[s] = <<>>
         /\ restarts >= MaxRestarts
<1>1. \A t \in Threads : ~ Inserting(t)
  BY DEF Undisturbed, OneItemInv
<1>2. \A t \in Threads : pc[t] \notin {"read", "write", "reset", "cacheUpdate"}
  BY DEF Undisturbed, TypeInv, LocalsOK
<1>3. \A t \in Threads : pc[t] \in PcSet
  BY DEF TypeInv, TypeOK, PcSet
<1>4. spc = "refresh" => \A s \in Subs : cache[s] = <<>>
  <2>1. cache \in [Subs -> Seq(Fields)]
    BY DEF TypeInv, TypeOK
  <2> QED BY <2>1 DEF OneItemInv
<1>5. restarts >= MaxRestarts
  BY DEF Undisturbed, TypeInv, TypeOK
<1> QED BY <1>1, <1>2, <1>3, <1>4, <1>5 DEF Inserting, PcSet, OneItemInv, OneItemPerSub, Undisturbed

\* The sum, term by term.
LEMMA Terms ==
  ASSUME NEW s
  PROVE  Accounted(s) = InDoc(s) + InCache(s) + InSync(s) + Cardinality(Recorders(s))
BY DEF Accounted, InDoc, InCache, InSync, Recorders

\* The threads about to note a notification are finitely many.
LEMMA RecordersFinite ==
  ASSUME Undisturbed, NEW s
  PROVE  /\ IsFiniteSet(Recorders(s)) /\ Cardinality(Recorders(s)) \in Nat
         /\ IsFiniteSet(Recorders(s)') /\ Cardinality(Recorders(s)') \in Nat
<1>1. Recorders(s) \subseteq Threads /\ Recorders(s)' \subseteq Threads
  BY DEF Recorders
<1> QED BY <1>1, FS_Subset, FS_CardinalityType DEF Undisturbed

\* Each term is a number.
LEMMA TermTypes ==
  ASSUME Undisturbed, TypeInv, OneItemInv, NEW s \in Subs, StoredCounted(s)
  PROVE  InDoc(s) \in Nat /\ InCache(s) \in Nat /\ InSync(s) \in Nat
<1>1. InDoc(s) \in Nat
  BY DEF StoredCounted, InDoc, FieldOr
<1>2. InCache(s) \in Nat
  BY Setting DEF StoredCounted, InCache, Cached
<1>3. InSync(s) \in Nat
  BY DEF StoredCounted, InSync
<1> QED BY <1>1, <1>2, <1>3

\* A thread that is not, and will not be, about to note leaves the set of those
\* that are.
LEMMA SameRecorders ==
  ASSUME NEW t \in Threads, pc[t] # "record", pc'[t] # "record",
         \A u \in Threads \ {t} : pc'[u] = pc[u] /\ sub'[u] = sub[u],
         NEW s
  PROVE  Recorders(s)' = Recorders(s)
BY DEF Recorders

\* A step that leaves the documents, the items and the refresher alone, and the
\* threads about to note, keeps a stored subscription counted.
LEMMA SameCounts ==
  ASSUME NEW s \in Subs, StoredCounted(s), db'[s] = db[s], cache'[s] = cache[s],
         UNCHANGED <<spc, saved, todo>>, sent'[s] = sent[s], Recorders(s)' = Recorders(s)
  PROVE  StoredCounted(s)'
<1>1. Accounted(s)' = Accounted(s)
  BY DEF Accounted, Recorders
<1> QED BY <1>1 DEF StoredCounted

-----------------------------------------------------------------------------
(* The steps.                                                              *)

\* Requests that begin or go on without touching items, documents or counts.
LEMMA QuietSteps ==
  ASSUME Undisturbed, TypeInv, OneItemInv, CountInv, NEW t \in Threads,
         UnsubscribeBegin(t) \/ UpdateMatch(t) \/ UpdateSkip(t)
  PROVE  CountInv'
<1>1. /\ UNCHANGED <<db, cache, spc, saved, todo, sent>>
      /\ pc[t] # "record" /\ pc'[t] \notin {"record", "cacheRemove"}
      /\ \A u \in Threads \ {t} : pc'[u] = pc[u] /\ sub'[u] = sub[u]
  BY DEF UnsubscribeBegin, UpdateMatch, UpdateSkip, DoneWith, Finish, Goto, CacheSection, syncVars, history, TypeInv, TypeOK
<1>2. ASSUME NEW s \in Subs, db'[s] # NULL PROVE StoredCounted(s)'
  <2>1. StoredCounted(s)
    BY <1>1, <1>2 DEF CountInv
  <2>2. Recorders(s)' = Recorders(s)
    BY <1>1, SameRecorders
  <2> QED BY <1>1, <2>1, <2>2, SameCounts
<1>3. \A u \in Threads : pc'[u] = "cacheRemove" => db'[sub'[u]] = NULL
  BY <1>1 DEF CountInv
<1> QED BY <1>1, <1>2, <1>3 DEF CountInv

\* Unsubscribing takes the document away, and then the item of a subscription
\* that has none.
LEMMA UnsubscribeSteps ==
  ASSUME Undisturbed, TypeInv, OneItemInv, CountInv, NEW t \in Threads,
         UnsubscribeRemove(t) \/ UnsubscribeCache(t)
  PROVE  CountInv'
<1>1. sub[t] \in Subs /\ db \in [Subs -> Fields \cup {NULL}] /\ cache \in [Subs -> Seq(Fields)]
  <2>1. pc[t] \in {"remove", "cacheRemove"}
    BY DEF UnsubscribeRemove, UnsubscribeCache, FailAndFinish, Finish, Goto
  <2> QED BY <2>1 DEF TypeInv, TypeOK, LocalsOK
<1>2. /\ UNCHANGED <<spc, saved, todo, sent>>
      /\ pc[t] # "record" /\ pc'[t] # "record"
      /\ \A u \in Threads \ {t} : pc'[u] = pc[u] /\ sub'[u] = sub[u]
  BY DEF UnsubscribeRemove, UnsubscribeCache, FailAndFinish, Finish, Goto, CacheSection, syncVars, history, TypeInv, TypeOK
<1>3. /\ \A s \in Subs : db'[s] # NULL => db'[s] = db[s] /\ s # sub[t] /\ cache'[s] = cache[s]
      /\ \A s \in Subs : db[s] = NULL => db'[s] = NULL
      /\ pc'[t] = "cacheRemove" => sub'[t] = sub[t] /\ db'[sub[t]] = NULL
  <2>1. CASE UnsubscribeRemove(t)
    <3>1. db' = [db EXCEPT ![sub[t]] = NULL] /\ UNCHANGED <<cache, sub>>
      BY <2>1 DEF UnsubscribeRemove, FailAndFinish, Undisturbed
    <3> QED BY <1>1, <3>1
  <2>2. CASE UnsubscribeCache(t)
    <3>1. /\ UNCHANGED db /\ pc[t] = "cacheRemove" /\ pc'[t] = "idle"
          /\ cache' = [cache EXCEPT ![sub[t]] = subCacheItemRemove(cache[sub[t]])]
      BY <2>2 DEF UnsubscribeCache, CacheSection, Finish, Goto, TypeInv, TypeOK
    <3>2. db[sub[t]] = NULL
      BY <3>1 DEF CountInv
    <3> QED BY <1>1, <3>1, <3>2
  <2> QED BY <2>1, <2>2
<1>4. ASSUME NEW s \in Subs, db'[s] # NULL PROVE StoredCounted(s)'
  <2>1. StoredCounted(s)
    BY <1>3, <1>4 DEF CountInv
  <2>2. Recorders(s)' = Recorders(s)
    BY <1>2, SameRecorders
  <2> QED BY <1>2, <1>3, <1>4, <2>1, <2>2, SameCounts
<1>5. \A u \in Threads : pc'[u] = "cacheRemove" => db'[sub'[u]] = NULL
  <2>1. ASSUME NEW u \in Threads \ {t}, pc'[u] = "cacheRemove" PROVE db'[sub'[u]] = NULL
    <3>1. pc[u] = "cacheRemove" /\ sub'[u] = sub[u]
      BY <1>2, <2>1
    <3>2. db[sub[u]] = NULL /\ sub[u] \in Subs
      BY <3>1 DEF CountInv, TypeInv, LocalsOK
    <3> QED BY <1>3, <3>1, <3>2
  <2> QED BY <1>3, <2>1
<1> QED BY <1>2, <1>4, <1>5 DEF CountInv

\* A notification is sent: one more was sent, and one more thread is to note it.
LEMMA NotifyStep ==
  ASSUME Undisturbed, TypeInv, OneItemInv, CountInv, NEW t \in Threads, UpdateNotify(t)
  PROVE  CountInv'
<1>1. PICK x \in DOMAIN trigs[t] : Send(x) /\ sub' = [sub EXCEPT ![t] = x]
  BY DEF UpdateNotify
<1>2. /\ UNCHANGED <<db, cache, spc, saved, todo>>
      /\ pc[t] = "notify" /\ pc'[t] = "record" /\ sub'[t] = x /\ x \in Subs
      /\ \A u \in Threads \ {t} : pc'[u] = pc[u] /\ sub'[u] = sub[u]
      /\ sent' = [sent EXCEPT ![x] = @ + 1] /\ sent \in [Subs -> Nat]
  <2>1. x \in Subs
    BY <1>1 DEF TypeInv, TypeOK
  <2> QED BY <1>1, <2>1 DEF UpdateNotify, Send, Goto, syncVars, TypeInv, TypeOK
<1>3. ASSUME NEW s \in Subs, db'[s] # NULL PROVE StoredCounted(s)'
  <2>1. StoredCounted(s)
    BY <1>2, <1>3 DEF CountInv
  <2>2. CASE s # x
    <3>1. Recorders(s)' = Recorders(s)
      BY <1>2, <2>2 DEF Recorders
    <3> QED BY <1>2, <2>1, <2>2, <3>1, SameCounts
  <2>3. CASE s = x
    <3>1. Recorders(s)' = Recorders(s) \cup {t} /\ t \notin Recorders(s)
      BY <1>2, <2>3 DEF Recorders
    <3>2. Cardinality(Recorders(s)') = Cardinality(Recorders(s)) + 1
      BY <3>1, RecordersFinite, FS_AddElement
    <3>3. InDoc(s)' = InDoc(s) /\ InCache(s)' = InCache(s) /\ InSync(s)' = InSync(s)
      BY <1>2 DEF InDoc, InCache, InSync
    <3>4. Accounted(s)' = InDoc(s)' + InCache(s)' + InSync(s)' + Cardinality(Recorders(s)')
      BY DEF Accounted, InDoc, InCache, InSync, Recorders
    <3>5. Accounted(s)' = Accounted(s) + 1
      BY <2>1, <3>2, <3>3, <3>4, Terms, TermTypes, RecordersFinite
    <3>6. sent'[s] = sent[s] + 1
      BY <1>2, <2>3
    <3> QED BY <1>2, <2>1, <3>5, <3>6 DEF StoredCounted
  <2> QED BY <2>2, <2>3
<1>4. \A u \in Threads : pc'[u] = "cacheRemove" => db'[sub'[u]] = NULL
  BY <1>2 DEF CountInv
<1> QED BY <1>2, <1>3, <1>4 DEF CountInv

\* Noting adds one to the count and leaves the status and the period alone.
LEMMA NotedCount ==
  ASSUME NEW item \in Fields, NEW time \in Int
  PROVE  Noted(item, time).count = item.count + 1
<1> DEFINE timed == [item EXCEPT !.lnt = time]
<1>1. timed \in Fields /\ timed.count = item.count
  BY DEF Fields
<1>2. Noted(item, time) = [timed EXCEPT !.count = @ + 1]
  BY DEF Noted
<1> HIDE DEF timed
<1> QED BY <1>1, <1>2 DEF Fields

\* The notification is noted: it moves from the thread to the item, which a
\* stored subscription has whenever the refresher does not work.
LEMMA RecordStep ==
  ASSUME Undisturbed, TypeInv, OneItemInv, CountInv, NEW t \in Threads, UpdateRecord(t)
  PROVE  CountInv'
<1> DEFINE x == sub[t]
<1>1. /\ UNCHANGED <<db, spc, saved, todo, sent>>
      /\ pc[t] = "record" /\ pc'[t] \in {"idle", "notify"} /\ spc = "sleep"
      /\ \A u \in Threads \ {t} : pc'[u] = pc[u] /\ sub'[u] = sub[u]
      /\ cache' = IF Cached(cache[x]) THEN [cache EXCEPT ![x][1] = Noted(@, lnt[t])] ELSE cache
  BY DEF UpdateRecord, CacheSection, DoneWith, Finish, Goto, syncVars, history, TypeInv, TypeOK
<1>2. x \in Subs /\ cache \in [Subs -> Seq(Fields)] /\ lnt[t] \in Int
  BY <1>1 DEF TypeInv, TypeOK, LocalsOK
<1>3. ASSUME NEW s \in Subs, db'[s] # NULL PROVE StoredCounted(s)'
  <2>1. StoredCounted(s) /\ Len(cache[s]) = 1 /\ cache[s] \in Seq(Fields)
    BY <1>1, <1>2, <1>3 DEF CountInv, StoredCounted
  <2>2. CASE s # x
    <3>1. Recorders(s)' = Recorders(s)
      BY <1>1, <2>2 DEF Recorders
    <3>2. cache'[s] = cache[s]
      BY <1>1, <1>2, <2>2
    <3> QED BY <1>1, <2>1, <3>1, <3>2, SameCounts
  <2>3. CASE s = x
    <3>1. Recorders(s)' = Recorders(s) \ {t} /\ t \in Recorders(s)
      BY <1>1, <2>3 DEF Recorders
    <3>2. Cardinality(Recorders(s)') = Cardinality(Recorders(s)) - 1
      BY <3>1, RecordersFinite, FS_RemoveElement
    <3>3. Cached(cache[s]) /\ cache[s][1] \in Fields /\ 1 \in DOMAIN cache[s]
      BY <2>1 DEF Cached
    <3>4. cache'[s] = [cache[s] EXCEPT ![1] = Noted(cache[s][1], lnt[t])]
      BY <1>1, <1>2, <2>3, <3>3
    <3>5. Len(cache'[s]) = 1 /\ cache'[s][1].count = cache[s][1].count + 1 /\ Cached(cache'[s])
      <4> DEFINE item == Noted(cache[s][1], lnt[t])
      <4>1. item \in Fields /\ item.count = cache[s][1].count + 1
        BY <1>2, <3>3, NotedTypes, NotedCount
      <4> HIDE DEF item
      <4>2. cache'[s] = [cache[s] EXCEPT ![1] = item]
        BY <3>4 DEF item
      <4>3. Len(cache'[s]) = 1
        BY <2>1, <4>2, WriteLen
      <4>4. cache'[s][1] = item /\ cache'[s] # <<>>
        BY <3>3, <4>2, <4>3
      <4> QED BY <4>1, <4>3, <4>4 DEF Cached
    <3>6. /\ InDoc(s)' = InDoc(s) /\ InSync(s)' = InSync(s)
          /\ InCache(s) = cache[s][1].count /\ InCache(s)' = cache'[s][1].count
      BY <1>1, <3>3, <3>5 DEF InDoc, InCache, InSync
    <3>7. Accounted(s)' = InDoc(s)' + InCache(s)' + InSync(s)' + Cardinality(Recorders(s)')
      BY DEF Accounted, InDoc, InCache, InSync, Recorders
    <3>8. Accounted(s)' = Accounted(s)
      <4>1. InCache(s)' = InCache(s) + 1
        BY <3>5, <3>6
      <4>2. InDoc(s) \in Nat /\ InCache(s) \in Nat /\ InSync(s) \in Nat
        BY <2>1, TermTypes
      <4>3. Cardinality(Recorders(s)) \in Nat
        BY RecordersFinite
      <4>4. Accounted(s) = InDoc(s) + InCache(s) + InSync(s) + Cardinality(Recorders(s))
        BY Terms
      <4> QED BY <3>2, <3>6, <3>7, <4>1, <4>2, <4>3, <4>4
    <3> QED BY <1>1, <2>1, <3>5, <3>8 DEF StoredCounted
  <2> QED BY <2>2, <2>3
<1>4. \A u \in Threads : pc'[u] = "cacheRemove" => db'[sub'[u]] = NULL
  BY <1>1 DEF CountInv
<1> QED BY <1>1, <1>3, <1>4 DEF CountInv

\* What the steps of the refresher have in common: they move counts between
\* the three places and keep the sum.
LEMMA SyncMoves ==
  ASSUME Undisturbed, TypeInv, OneItemInv, CountInv, UNCHANGED <<pc, sub, sent>>,
         \A s \in Subs : db[s] = NULL => db'[s] = NULL,
         spc' = "sleep" => saved' = EmptyFcn,
         \A s \in Subs : db[s] # NULL /\ StoredCounted(s) =>
           /\ db'[s].count \in Nat \cup {Absent}
           /\ spc' # "refresh" => Len(cache'[s]) = 1 /\ cache'[s][1].count \in Nat
           /\ s \in DOMAIN saved' => saved'[s].count \in Nat
           /\ s \in DOMAIN saved' /\ spc' = "flush" /\ s \notin todo' => saved'[s].count = 0
           /\ (InDoc(s) + InCache(s) + InSync(s))' = InDoc(s) + InCache(s) + InSync(s)
  PROVE  CountInv'
<1>1. ASSUME NEW s \in Subs, db'[s] # NULL PROVE StoredCounted(s)'
  <2>1. db[s] # NULL /\ StoredCounted(s)
    BY <1>1 DEF CountInv
  <2>2. Recorders(s)' = Recorders(s)
    BY DEF Recorders
  <2>3. Accounted(s)' = InDoc(s)' + InCache(s)' + InSync(s)' + Cardinality(Recorders(s)')
    BY DEF Accounted, InDoc, InCache, InSync, Recorders
  <2>4. Accounted(s)' = Accounted(s)
    <3>1. InDoc(s)' + InCache(s)' + InSync(s)' = InDoc(s) + InCache(s) + InSync(s)
      BY <2>1
    <3> QED BY <2>2, <2>3, <3>1, Terms
  <2> QED BY <2>1, <2>4 DEF StoredCounted
<1>2. ASSUME NEW u \in Threads, pc'[u] = "cacheRemove" PROVE db'[sub'[u]] = NULL
  <2>1. sub[u] \in Subs /\ db[sub[u]] = NULL /\ sub'[u] = sub[u]
    BY <1>2 DEF CountInv, TypeInv, LocalsOK
  <2> QED BY <2>1
<1> QED BY <1>1, <1>2 DEF CountInv

\* Step 1 of subCacheSync(): the counts of the items are saved. The loop ends,
\* since no id is in the list twice.
LEMMA SaveStep ==
  ASSUME Undisturbed, TypeInv, OneItemInv, CountInv, SyncSave
  PROVE  CountInv'
<1>1. \A s \in Subs : ~ (Len(cache[s]) > 1)
  <2>1. \A s \in Subs : Len(cache[s]) \in Nat /\ Len(cache[s]) =< 1
    BY Setting DEF TypeInv, TypeOK
  <2> QED BY <2>1
<1>2. /\ spc = "sleep" /\ spc' = "destroy" /\ UNCHANGED <<pc, sub, sent, db, cache>> /\ saved = EmptyFcn
      /\ saved' = [s \in {x \in Subs : Cached(cache[x])} |-> [lnt |-> cache[s][1].lnt, count |-> cache[s][1].count]]
  BY <1>1 DEF SyncSave, SyncGoto, threadVars, history, CountInv
<1>3. ASSUME NEW s \in Subs, StoredCounted(s)
      PROVE  /\ s \in DOMAIN saved' => saved'[s].count \in Nat
             /\ (InDoc(s) + InCache(s) + InSync(s))' = InDoc(s) + InCache(s) + InSync(s)
  <2>1. Len(cache[s]) = 1 /\ cache[s][1].count \in Nat /\ Cached(cache[s])
    BY <1>2, <1>3 DEF StoredCounted, Cached
  <2>2. s \in DOMAIN saved' /\ saved'[s].count = cache[s][1].count /\ s \notin DOMAIN saved
    BY <1>2, <2>1 DEF EmptyFcn
  <2>3. InDoc(s)' = InDoc(s) /\ InDoc(s) \in Nat
    BY <1>2, <1>3, TermTypes DEF InDoc
  <2>4. InCache(s) = cache[s][1].count /\ InCache(s)' = 0 /\ InSync(s) = 0 /\ InSync(s)' = cache[s][1].count
    BY <1>2, <2>1, <2>2 DEF InCache, InSync
  <2> QED BY <2>1, <2>2, <2>3, <2>4
<1>4. ASSUME NEW s \in Subs, StoredCounted(s)
      PROVE  db'[s].count \in Nat \cup {Absent} /\ Len(cache'[s]) = 1 /\ cache'[s][1].count \in Nat
  BY <1>2, <1>4 DEF StoredCounted
<1> QED BY <1>2, <1>3, <1>4, SyncMoves

\* Step 2: the items are deleted and made anew from the documents, with a
\* count of 0.
LEMMA DestroyStep ==
  ASSUME Undisturbed, TypeInv, OneItemInv, CountInv, SyncDestroy
  PROVE  CountInv'
<1>1. /\ spc = "destroy" /\ spc' = "refresh" /\ UNCHANGED <<pc, sub, sent, db, saved>>
      /\ \A s \in Subs : cache'[s] = <<>>
  BY DEF SyncDestroy, SyncGoto, history
<1>2. ASSUME NEW s \in Subs
      PROVE  (InDoc(s) + InCache(s) + InSync(s))' = InDoc(s) + InCache(s) + InSync(s)
  <2>1. InCache(s) = 0 /\ InCache(s)' = 0 /\ InDoc(s)' = InDoc(s) /\ InSync(s)' = InSync(s)
    BY <1>1 DEF InCache, InDoc, InSync, Cached
  <2> QED BY <2>1
<1>3. ASSUME NEW s \in Subs, StoredCounted(s)
      PROVE  db'[s].count \in Nat \cup {Absent} /\ (s \in DOMAIN saved' => saved'[s].count \in Nat)
  BY <1>1, <1>3 DEF StoredCounted
<1> QED BY <1>1, <1>2, <1>3, SyncMoves

\* ... The refresh reads every document, and finds a list without items.
LEMMA RefreshStep ==
  ASSUME Undisturbed, TypeInv, OneItemInv, CountInv, SyncRefresh
  PROVE  CountInv'
<1>1. /\ spc = "refresh" /\ spc' = "compare" /\ UNCHANGED <<pc, sub, sent, db, saved>>
      /\ cache' = [s \in Subs |-> IF db[s] # NULL THEN subCacheItemInsert(cache[s], RefreshedItem(db[s])) ELSE cache[s]]
  <2>1. cache' = [s \in Subs |-> IF s \in {x \in Subs : db[x] # NULL} THEN subCacheItemInsert(cache[s], RefreshedItem(db[s])) ELSE cache[s]]
    BY DEF SyncRefresh, Undisturbed
  <2> QED BY <2>1 DEF SyncRefresh, SyncGoto, threadVars, history
<1>2. ASSUME NEW s \in Subs, db[s] # NULL
      PROVE  Len(cache'[s]) = 1 /\ cache'[s][1].count = 0 /\ Cached(cache'[s]) /\ cache[s] = <<>>
  <2>1. cache[s] = <<>>
    BY <1>1, Setting
  <2>2. cache'[s] = Append(<<>>, RefreshedItem(db[s]))
    BY <1>1, <1>2, <2>1 DEF subCacheItemInsert
  <2>3. RefreshedItem(db[s]).count = 0
    BY DEF RefreshedItem
  <2> HIDE DEF RefreshedItem
  <2> QED BY <2>1, <2>2, <2>3 DEF Cached
<1>3. ASSUME NEW s \in Subs, db[s] # NULL
      PROVE  (InDoc(s) + InCache(s) + InSync(s))' = InDoc(s) + InCache(s) + InSync(s)
  <2>1. InCache(s) = 0 /\ InCache(s)' = 0 /\ InDoc(s)' = InDoc(s) /\ InSync(s)' = InSync(s)
    BY <1>1, <1>2, <1>3 DEF InCache, InDoc, InSync, Cached
  <2> QED BY <2>1
<1>4. ASSUME NEW s \in Subs, StoredCounted(s)
      PROVE  db'[s].count \in Nat \cup {Absent} /\ (s \in DOMAIN saved' => saved'[s].count \in Nat)
  BY <1>1, <1>4 DEF StoredCounted
<1> QED BY <1>1, <1>2, <1>3, <1>4, SyncMoves

\* Step 3: only the times of the saved ones change, and every stored
\* subscription among them is to be visited.
LEMMA CompareStep ==
  ASSUME Undisturbed, TypeInv, OneItemInv, CountInv, SyncCompare
  PROVE  CountInv'
<1>1. /\ spc = "compare" /\ spc' = "flush" /\ UNCHANGED <<pc, sub, sent, db, cache>>
      /\ todo' = {s \in DOMAIN saved : Cached(cache[s])}
      /\ DOMAIN saved' = DOMAIN saved
  BY DEF SyncCompare, SyncGoto, threadVars, history
<1>2. ASSUME NEW s \in DOMAIN saved PROVE saved'[s].count = saved[s].count
  <2>1. saved[s] \in [lnt : Int, count : Int]
    BY DEF TypeInv, TypeOK
  <2>2. saved'[s] = saved[s] \/ saved'[s] = [saved[s] EXCEPT !.lnt = 0]
    BY DEF SyncCompare
  <2> QED BY <2>1, <2>2
<1>3. ASSUME NEW s \in Subs, StoredCounted(s)
      PROVE  /\ db'[s].count \in Nat \cup {Absent} /\ Len(cache'[s]) = 1 /\ cache'[s][1].count \in Nat
             /\ s \in DOMAIN saved' => saved'[s].count \in Nat /\ s \in todo'
             /\ (InDoc(s) + InCache(s) + InSync(s))' = InDoc(s) + InCache(s) + InSync(s)
  <2>1. InCache(s)' = InCache(s) /\ InDoc(s)' = InDoc(s) /\ InSync(s)' = InSync(s)
    BY <1>1, <1>2 DEF InCache, InDoc, InSync
  <2> QED BY <1>1, <1>2, <1>3, <2>1 DEF StoredCounted, Cached
<1> QED BY <1>1, <1>3, SyncMoves

\* The subscription that the loop visits is one it has yet to visit.
LEMMA VisitedIn ==
  ASSUME TypeInv, todo # {}
  PROVE  Visited \in todo /\ Visited \in DOMAIN saved /\ Visited \in Subs
BY DEF Visited, TypeInv, TypeOK

\* Step 4: the saved count goes to the document, if there still is one.
LEMMA FlushCountStep ==
  ASSUME Undisturbed, TypeInv, OneItemInv, CountInv, SyncFlushCount
  PROVE  CountInv'
<1>0. PICK v, n : v = Visited /\ n = saved[v].count
  OBVIOUS
<1>1. /\ spc = "flush" /\ todo # {} /\ n # 0
      /\ UNCHANGED <<pc, sub, sent, cache, spc, todo>>
      /\ db' = [db EXCEPT ![v] = IF db[v] = NULL THEN NULL ELSE CountAdded(db[v], n)]
      /\ saved' = [saved EXCEPT ![v].count = 0]
  BY <1>0 DEF SyncFlushCount, Undisturbed, threadVars, history
<1>2. /\ v \in todo /\ v \in DOMAIN saved /\ v \in Subs
      /\ db \in [Subs -> Fields \cup {NULL}] /\ saved \in [DOMAIN saved -> [lnt : Int, count : Int]]
  BY <1>0, <1>1, VisitedIn DEF TypeInv, TypeOK
<1>3. ASSUME NEW s \in Subs, s # v PROVE db'[s] = db[s] /\ saved'[s] = saved[s]
  <2>1. db'[s] = db[s]
    BY <1>1, <1>2, <1>3
  <2>2. CASE s \in DOMAIN saved
    BY <1>1, <1>2, <1>3, <2>1, <2>2
  <2>3. CASE s \notin DOMAIN saved
    BY <1>1, <1>2, <1>3, <2>1, <2>3
  <2> QED BY <2>2, <2>3
<1>4. DOMAIN saved' = DOMAIN saved /\ saved'[v].count = 0
  BY <1>1, <1>2
<1>5. db[v] = NULL => db'[v] = NULL
  BY <1>1, <1>2
<1>6. ASSUME NEW s \in Subs, db[s] # NULL, StoredCounted(s)
      PROVE  /\ db'[s].count \in Nat \cup {Absent} /\ Len(cache'[s]) = 1 /\ cache'[s][1].count \in Nat
             /\ s \in DOMAIN saved' => saved'[s].count \in Nat
             /\ s \in DOMAIN saved' /\ s \notin todo' => saved'[s].count = 0
             /\ (InDoc(s) + InCache(s) + InSync(s))' = InDoc(s) + InCache(s) + InSync(s)
  <2>1. InCache(s)' = InCache(s)
    BY <1>1 DEF InCache
  <2>2. CASE s # v
    <3>1. InDoc(s)' = InDoc(s) /\ InSync(s)' = InSync(s)
      BY <1>3, <1>4, <2>2 DEF InDoc, InSync
    <3> QED BY <1>1, <1>3, <1>4, <1>6, <2>1, <2>2, <3>1 DEF StoredCounted
  <2>3. CASE s = v
    <3>1. n \in Nat /\ InDoc(v) \in Nat /\ InCache(v) \in Nat /\ InSync(v) = n
      BY <1>0, <1>2, <1>6, <2>3, TermTypes DEF StoredCounted, InSync
    <3>2. db'[v].count = InDoc(v) + n
      <4>1. db[v] \in Fields /\ db'[v] = CountAdded(db[v], n)
        BY <1>1, <1>2, <1>6, <2>3
      <4> QED BY <4>1 DEF CountAdded, Fields, InDoc
    <3>3. InDoc(v)' = InDoc(v) + n
      BY <3>1, <3>2 DEF InDoc, FieldOr, Absent
    <3>4. InSync(v)' = 0
      BY <1>2, <1>4 DEF InSync
    <3>5. (InDoc(v) + InCache(v) + InSync(v))' = InDoc(v) + InCache(v) + InSync(v)
      BY <2>1, <2>3, <3>1, <3>3, <3>4
    <3>6. db'[v].count \in Nat
      BY <3>1, <3>2
    <3> QED BY <1>1, <1>2, <1>4, <1>6, <2>3, <3>5, <3>6 DEF StoredCounted
  <2> QED BY <2>2, <2>3
<1>7. \A s \in Subs : db[s] = NULL => db'[s] = NULL
  BY <1>3, <1>5
<1> QED BY <1>1, <1>6, <1>7, SyncMoves

\* Step 5: the time is written and the subscription is done with.
LEMMA FlushTimeStep ==
  ASSUME Undisturbed, TypeInv, OneItemInv, CountInv, SyncFlushTime
  PROVE  CountInv'
<1>0. PICK v : v = Visited
  OBVIOUS
<1> DEFINE stays == db[v] = NULL \/ saved[v].lnt = 0 \/ (db[v].lnt # Absent /\ db[v].lnt >= saved[v].lnt)
           new == [db[v] EXCEPT !.lnt = saved[v].lnt]
<1>1. /\ spc = "flush" /\ todo # {} /\ saved[v].count = 0
      /\ UNCHANGED <<pc, sub, sent, cache, spc, saved>>
      /\ db' = [db EXCEPT ![v] = IF stays THEN db[v] ELSE new]
      /\ todo' = todo \ {v}
  BY <1>0 DEF SyncFlushTime, Undisturbed, threadVars, history
<1>2. v \in Subs /\ db \in [Subs -> Fields \cup {NULL}]
  BY <1>0, <1>1, VisitedIn DEF TypeInv, TypeOK
<1>3. ~ stays => new.count = db[v].count
  BY <1>2 DEF Fields
<1> HIDE DEF stays, new
<1>4. ASSUME NEW s \in Subs
      PROVE  (db[s] = NULL => db'[s] = NULL) /\ (db[s] # NULL => db'[s].count = db[s].count)
  <2>1. CASE s # v \/ stays
    BY <1>1, <1>2, <2>1
  <2>2. CASE s = v /\ ~ stays
    <3>1. db[v] # NULL
      BY <2>2 DEF stays
    <3> QED BY <1>1, <1>2, <1>3, <2>2, <3>1
  <2> QED BY <2>1, <2>2
<1>5. ASSUME NEW s \in Subs, db[s] # NULL, StoredCounted(s)
      PROVE  /\ db'[s].count \in Nat \cup {Absent} /\ Len(cache'[s]) = 1 /\ cache'[s][1].count \in Nat
             /\ s \in DOMAIN saved' => saved'[s].count \in Nat
             /\ s \in DOMAIN saved' /\ s \notin todo' => saved'[s].count = 0
             /\ (InDoc(s) + InCache(s) + InSync(s))' = InDoc(s) + InCache(s) + InSync(s)
  <2>1. InCache(s)' = InCache(s) /\ InDoc(s)' = InDoc(s) /\ InSync(s)' = InSync(s)
    BY <1>1, <1>4, <1>5 DEF InCache, InDoc, InSync
  <2> QED BY <1>1, <1>4, <1>5, <2>1 DEF StoredCounted
<1> QED BY <1>1, <1>4, <1>5, SyncMoves

\* The end: every stored subscription was visited, so the counts dropped are 0.
LEMMA EndStep ==
  ASSUME Undisturbed, TypeInv, OneItemInv, CountInv, SyncEnd
  PROVE  CountInv'
<1>1. /\ spc = "flush" /\ spc' = "sleep" /\ UNCHANGED <<pc, sub, sent, db, cache>>
      /\ todo = {} /\ saved' = EmptyFcn
  BY DEF SyncEnd, SyncGoto, threadVars, history
<1>2. DOMAIN saved' = {}
  BY <1>1 DEF EmptyFcn
<1>3. ASSUME NEW s \in Subs, StoredCounted(s)
      PROVE  /\ db'[s].count \in Nat \cup {Absent} /\ Len(cache'[s]) = 1 /\ cache'[s][1].count \in Nat
             /\ (InDoc(s) + InCache(s) + InSync(s))' = InDoc(s) + InCache(s) + InSync(s)
  <2>1. InSync(s) = 0 /\ InSync(s)' = 0
    BY <1>1, <1>2, <1>3 DEF InSync, StoredCounted
  <2>2. InCache(s)' = InCache(s) /\ InDoc(s)' = InDoc(s)
    BY <1>1 DEF InCache, InDoc
  <2> QED BY <1>1, <1>3, <2>1, <2>2 DEF StoredCounted
<1> QED BY <1>1, <1>2, <1>3, SyncMoves

\* At startup nothing was sent and nothing is counted.
LEMMA CountInit == Undisturbed /\ Init => CountInv
<1> SUFFICES ASSUME Undisturbed, Init PROVE CountInv
  OBVIOUS
<1>1. ASSUME NEW s \in Subs, db[s] # NULL PROVE StoredCounted(s)
  <2>1. db[s].count = Absent
    BY <1>1 DEF Init, StoredDoc
  <2>2. cache[s] = <<RefreshedItem(db[s])>> /\ RefreshedItem(db[s]).count = 0
    BY <1>1 DEF Init, CacheOf, RefreshedItem
  <2>3. DOMAIN saved = {} /\ spc = "sleep" /\ sent[s] = 0
    BY DEF Init, EmptyFcn
  <2>4. Recorders(s) = {}
    BY DEF Init, Recorders
  <2>5. Len(cache[s]) = 1 /\ cache[s][1].count = 0
    <3> DEFINE item == RefreshedItem(db[s])
    <3> HIDE DEF item
    <3>1. cache[s] = <<item>> /\ item.count = 0
      BY <2>2 DEF item
    <3> QED BY <3>1
  <2>6. InDoc(s) = 0 /\ InCache(s) = 0 /\ InSync(s) = 0 /\ Cardinality(Recorders(s)) = 0
    BY <2>1, <2>3, <2>4, <2>5, FS_EmptySet DEF InDoc, InCache, InSync, FieldOr
  <2>7. Accounted(s) = 0
    BY <2>6, Terms
  <2> QED BY <2>1, <2>3, <2>5, <2>7 DEF StoredCounted
<1>2. spc = "sleep" /\ saved = EmptyFcn /\ \A t \in Threads : pc[t] = "idle"
  BY DEF Init
<1> QED BY <1>1, <1>2 DEF CountInv

\* Every step keeps the invariant.
LEMMA CountNext ==
  ASSUME Undisturbed, TypeInv, OneItemInv, CountInv, [Next]_vars
  PROVE  CountInv'
<1>1. ASSUME NEW t \in Threads
      PROVE  /\ ~ SubscribeBegin(t) /\ ~ SubscribeInsert(t) /\ ~ SubscribeCache(t)
             /\ ~ UpdateSubBegin(t) /\ ~ UpdateSubRead(t) /\ ~ UpdateSubWrite(t)
             /\ ~ UpdateSubReset(t) /\ ~ UpdateSubCache(t)
  <2>1. pc[t] \in {"idle", "remove", "cacheRemove", "notify", "record"} /\ created = Subs
    BY Setting
  <2>2. ~ SubscribeBegin(t) /\ ~ UpdateSubBegin(t)
    BY <2>1 DEF SubscribeBegin, UpdateSubBegin, Undisturbed
  <2>3. ~ SubscribeInsert(t) /\ ~ SubscribeCache(t)
    BY <2>1 DEF SubscribeInsert, SubscribeCache, CacheSection, FailAndFinish, Finish, Goto
  <2>4. ~ UpdateSubRead(t) /\ ~ UpdateSubWrite(t) /\ ~ UpdateSubReset(t) /\ ~ UpdateSubCache(t)
    BY <2>1 DEF UpdateSubRead, UpdateSubWrite, UpdateSubReset, UpdateSubCache, CacheSection, FailAndFinish, Finish, Goto
  <2> QED BY <2>2, <2>3, <2>4
<1>2. ~ Restart
  BY Setting DEF Restart, Undisturbed, TypeInv, TypeOK
<1>3. CASE Tick \/ Rest \/ UNCHANGED vars
  <2>1. UNCHANGED <<db, cache, pc, sub, spc, saved, todo, sent>>
    BY <1>3 DEF Tick, Rest, vars, threadVars, syncVars, history
  <2>2. \A s \in Subs : StoredCounted(s)' <=> StoredCounted(s)
    BY <2>1 DEF StoredCounted, Accounted
  <2> QED BY <2>1, <2>2 DEF CountInv
<1>4. ASSUME NEW t \in Threads, RequestStep(t) \/ CacheStep(t) \/ UnsubscribeBegin(t) \/ UpdateMatch(t)
      PROVE  CountInv'
  BY <1>1, <1>4, QuietSteps, UnsubscribeSteps, NotifyStep, RecordStep DEF RequestStep, CacheStep
<1>5. CASE Sync
  BY <1>5, SaveStep, DestroyStep, RefreshStep, CompareStep, FlushCountStep, FlushTimeStep, EndStep DEF Sync
<1> QED BY <1>1, <1>2, <1>3, <1>4, <1>5 DEF Next

\* Every notification of a stored subscription is counted exactly once, in the
\* document, in the item, in the savedSubV of subCacheSync() or in the thread
\* that has just sent it, however requests and refresher interleave; when
\* nothing is under way, timesSent tells the number sent.
THEOREM SubCacheCountsConserved ==
  ASSUME Stored = Subs, Patches = {}, ~ DbMayFail, MaxRestarts = 0, IsFiniteSet(Threads)
  PROVE  Spec => []CountsConserved
<1>0. Undisturbed
  BY DEF Undisturbed
<1>1. TypeInv /\ OneItemInv /\ CountInv => CountsConserved
  <2> SUFFICES ASSUME TypeInv, OneItemInv, CountInv, NEW s \in Subs, db[s] # NULL
               PROVE  /\ Accounted(s) = sent[s]
                      /\ spc = "sleep" /\ (\A t \in Threads : pc[t] = "idle") => timesSent(db[s], cache[s]) = sent[s]
    BY DEF CountsConserved
  <2>1. StoredCounted(s) /\ Accounted(s) = sent[s]
    BY DEF CountInv, StoredCounted
  <2>2. ASSUME spc = "sleep", \A t \in Threads : pc[t] = "idle" PROVE timesSent(db[s], cache[s]) = sent[s]
    <3>1. Cardinality(Recorders(s)) = 0
      <4>1. Recorders(s) = {}
        BY <2>2 DEF Recorders
      <4> QED BY <4>1, FS_EmptySet
    <3>2. InSync(s) = 0
      BY <2>2 DEF CountInv, InSync, EmptyFcn
    <3>3. timesSent(db[s], cache[s]) = InDoc(s) + InCache(s)
      BY <2>2 DEF timesSent, InDoc, InCache, subCacheItemLookup
    <3> QED BY <1>0, <2>1, <3>1, <3>2, <3>3, Terms, TermTypes
  <2> QED BY <2>1, <2>2
<1>2. Init => CountInv
  BY <1>0, CountInit
<1>3. TypeInv /\ TypeInv' /\ OneItemInv /\ [Next]_vars => OneItemInv'
  BY <1>0, OneItemNext DEF Undisturbed
<1>4. TypeInv /\ OneItemInv /\ CountInv /\ [Next]_vars => CountInv'
  BY <1>0, CountNext
<1> QED BY <1>1, <1>2, <1>3, <1>4, TypeInit, TypeNext, OneItemInit, PTL DEF Spec
=============================================================================
