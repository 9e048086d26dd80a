---------------------------- MODULE SubCacheList ----------------------------
(***************************************************************************)
(* The data of the subscription cache (src/lib/cache/subCache.cpp and      *)
(* src/lib/mongoBackend/mongoSubCache.cpp): what a document of the csubs   *)
(* collection and a CachedSubscription hold, and how one is made from the  *)
(* other.                                                                  *)
(*                                                                         *)
(* The cache is one linked list. Every search of it goes by subscription   *)
(* id and stops at the first hit, so the list is kept here as one sequence *)
(* per subscription: its items in list order. More than one item is an     *)
(* error of the cache, and a possible one.                                 *)
(*                                                                         *)
(* Of a subscription the model keeps the fields that decide whether and    *)
(* when it is notified: count, lastNotificationTime (lnt), throttling,     *)
(* status, and whether it has a string filter (expression.q).              *)
(***************************************************************************)
EXTENDS Integers, Sequences

\* A field that a document does not have, and what the C++ code reads for it.
Absent == -1

\* A throttling that a request leaves out (a status is left out as "unset", the "" of the code).
NotGiven == -1

\* The part of a subscription or subscription-update request that matters:
\* 'notify' tells whether some existing entity fulfils the conditions, so that
\* processConditionVector sends the initial notification.
Request == [throttling : Int, status : {"unset", "active", "inactive"}, filter : {"keep", "set", "clear"}, notify : BOOLEAN]

\* What a document and a cached item both have.
Fields == [count : Int, lnt : Int, throttling : Int, status : {"active", "inactive"}, filter : BOOLEAN]

FieldOr(value, default) == IF value = Absent THEN default ELSE value

-----------------------------------------------------------------------------
(* The three ways in which an item is made.                                *)

\* subCacheItemInsert, called by mongoSubscribeContext: throttling and
\* lastNotificationTime are 0 where the request gave none, and count is 1 if
\* the initial notification was sent.
NewItem(doc) ==
  [count      |-> FieldOr(doc.count, 0),
   lnt        |-> FieldOr(doc.lnt, 0),
   throttling |-> FieldOr(doc.throttling, 0),
   status     |-> doc.status,
   filter     |-> doc.filter]

\* mongoSubCacheItemInsert(tenant, sub), called by a refresh: absent fields are
\* -1, count is 0, and the expression of the document is not read.
RefreshedItem(doc) ==
  [count |-> 0, lnt |-> doc.lnt, throttling |-> doc.throttling, status |-> doc.status, filter |-> FALSE]

\* Mutant: the time of the last notification is the one of the document.
UpdatedItemFromDoc(doc, lnt, filter) ==
  [RefreshedItem(doc) EXCEPT !.filter = filter]

\* mongoSubCacheItemInsert, called by mongoUpdateContextSubscription: the time
\* is the caller's unless that is -1, the filter is the one of the request.
UpdatedItem(doc, lnt, filter) ==
  [count      |-> 0,
   lnt        |-> IF lnt = -1 THEN doc.lnt ELSE lnt,
   throttling |-> doc.throttling,
   status     |-> doc.status,
   filter     |-> filter]

-----------------------------------------------------------------------------
(* The list, restricted to one subscription.                               *)

\* subCacheItemInsert: always at the end of the list.
subCacheItemInsert(items, item) == Append(items, item)

\* subCacheItemLookup: the first item with this id, if any.
Cached(items) == items # <<>>
subCacheItemLookup(items) == items[1]

\* subCacheItemRemove of what subCacheItemLookup found.
subCacheItemRemove(items) == IF items = <<>> THEN <<>> ELSE Tail(items)

\* Mutant: the status is not looked at.
BlockedByTime(item, now) == item.throttling # -1 /\ item.lnt # 0 /\ now - item.lnt < item.throttling

\* addTriggeredSubscriptions_withCache skips inactive subscriptions and those
\* whose last notification is too recent.
Blocked(item, now) ==
  \/ item.status = "inactive"
  \/ item.throttling # -1 /\ item.lnt # 0 /\ now - item.lnt < item.throttling

\* A notification is noted in its item.
Noted(item, time) == [item EXCEPT !.lnt = time, !.count = @ + 1]

-----------------------------------------------------------------------------
(* Documents.                                                              *)

\* processConditionVector notifies at once only for an active subscription.
notificationDone(request, status) == request.notify /\ status = "active"

\* The status of a new and of an updated subscription.
NewStatus(request) == IF request.status = "unset" THEN "active" ELSE request.status
UpdatedStatus(doc, request) == IF request.status = "unset" THEN doc.status ELSE request.status

\* The document that mongoSubscribeContext inserts: count and lastNotification
\* are there only if the initial notification was sent.
SubscribedDoc(request, time) ==
  LET done == notificationDone(request, NewStatus(request))
  IN  [count      |-> IF done THEN 1 ELSE Absent,
       lnt        |-> IF done THEN time ELSE Absent,
       throttling |-> IF request.throttling = NotGiven THEN Absent ELSE request.throttling,
       status     |-> NewStatus(request),
       filter     |-> request.filter = "set"]

\* The document that mongoUpdateContextSubscription writes. It starts empty:
\* what the request leaves out is copied from the old document, throttling 0
\* removes the field, and without a notification count and lastNotification
\* are written only if the old document had them.
UpdatedDoc(doc, request, count, lnt) ==
  LET done      == notificationDone(request, UpdatedStatus(doc, request))
      keptCount == IF doc.count = Absent THEN Absent ELSE count
      keptTime  == IF doc.lnt = Absent \/ lnt < doc.lnt THEN doc.lnt ELSE lnt
  IN  [count      |-> IF done THEN count + 1 ELSE keptCount,
       lnt        |-> IF done THEN lnt ELSE keptTime,
       throttling |-> CASE request.throttling = NotGiven -> doc.throttling
                        [] request.throttling = 0        -> Absent
                        [] OTHER                         -> request.throttling,
       status     |-> UpdatedStatus(doc, request),
       filter     |-> IF request.filter = "keep" THEN doc.filter ELSE request.filter = "set"]

\* mongoSubCacheUpdate ($inc): a document without a count gets one.
CountAdded(doc, count) == [doc EXCEPT !.count = FieldOr(@, 0) + count]

\* mongoGetSubscriptions: the timesSent that a client is shown (0 where the
\* rendering leaves the field out).
timesSent(doc, items) ==
  FieldOr(doc.count, 0) + IF Cached(items) THEN subCacheItemLookup(items).count ELSE 0
=============================================================================
