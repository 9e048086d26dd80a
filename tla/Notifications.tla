---------------------------- MODULE Notifications ----------------------------
(***************************************************************************)
(* From the request that triggers a notification to the attempt to send    *)
(* it: the notifier (ngsiNotify/Notifier.cpp, QueueNotifier.cpp), the      *)
(* queue between the request threads and the workers                       *)
(* (common/SyncQOverflow.h), the workers and the sender threads            *)
(* (QueueWorkers.cpp, senderThread.cpp), and what those threads leave      *)
(* behind for the operator of the broker: the counters of the queue        *)
(* (QueueStatistics.cpp), the alarms (AlarmManager.tla), the transaction   *)
(* numbers (common/globals.cpp) and the periodic summary of the log        *)
(* (logSummary/logSummary.cpp).                                            *)
(*                                                                         *)
(* A critical section is one step, since everything it touches is only     *)
(* touched under the same lock; what a thread does after it has left the   *)
(* section (notify_one, a counter, an alarm) is a step of its own.  A      *)
(* notification is a number and the URL it goes to: the body, the headers  *)
(* and the time it waited are left out.                                    *)
(***************************************************************************)
EXTENDS AlarmManager, Sequences

CONSTANTS
  Requesters,     \* threads that treat requests
  Workers,        \* threads of the pool, -notificationMode threadpool:q:n
  MayFail,        \* the workers for which curl_easy_init() may fail
  Urls,           \* host:port/resource of the receivers
  Ipv6,           \* the receivers whose host is an IPv6 address
  Malformed,      \* a URL that parseUrl rejects
  Instances,      \* what to start with: command line, and bounds (see Instance)
  UseRush,        \* TRUE: the broker was started with -rush
  MaxQ,           \* q, the size of the queue
  INT_MAX,        \* where the transaction number turns around
  MaxRequests     \* bound: the number of requests of any instance

\* The command line (-notificationMode, -simulatedNotification), and the bounds:
\* requests, rounds of the log summary, resets of the statistics, and whether
\* requests with bad input and database operations that fail are part of it.
Instance ==
  [mode : {"threadpool", "transient"}, simulated : BOOLEAN,
   requests : 0 .. MaxRequests, summaries : Nat, resets : 0 .. 1,
   badInput : BOOLEAN, dbFails : BOOLEAN]

ASSUME NotificationsAssumption ==
  /\ IsFiniteSet(Requesters) /\ IsFiniteSet(Workers) /\ Requesters \cap Workers = {} /\ MayFail \subseteq Workers
  /\ Ipv6 \subseteq Urls /\ Malformed \notin Urls
  /\ Instances \subseteq Instance
  /\ UseRush \in BOOLEAN
  /\ MaxQ \in Nat /\ INT_MAX \in Nat \ {0} /\ MaxRequests \in Nat

VARIABLES
  inst,                   \* the instance this is; it never changes
  pc,                     \* where each thread is
  note,                   \* the notification a thread works on
  queue,                  \* SyncQOverflow::queue
  senders,                \* detached threads: the notifications they carry, and where they are
  stats,                  \* the counters of QueueStatistics
  statsReset,             \* how many counters DELETE /statistics has reset
  alarms,                 \* the AlarmManager
  badInputSeen,           \* thread variable of AlarmManager.cpp
  transactionId,          \* the running number of transactionIdGet
  summary,                \* the log summary: the values of the last round
  transactions,           \* history: transactions since the summary read the number
  requests,               \* history: requests started
  taken,                  \* history: the notifications handed to a worker, in order
  outcome                 \* history: how the last attempt for each URL ended

queueVars  == <<queue, taken>>
alarmVars  == <<alarms, badInputSeen>>
vars == <<inst, pc, note, queue, senders, stats, statsReset, alarms,
          badInputSeen, transactionId, summary, transactions, requests, taken, outcome>>

Notification == [id : 1 .. MaxRequests, url : Urls \cup {Malformed}]
Counters == {"in", "out", "reject", "sentOK", "sentError"}
Threads == Requesters \cup Workers
NoNote == [id |-> 0, url |-> Malformed]

Goto(t, from, to) == pc[t] = from /\ pc' = [pc EXCEPT ![t] = to]
Inc(c) == stats' = [stats EXCEPT ![c] = @ + 1]

\* The key under which an attempt to u that fails raises its alarm in
\* httpRequestSendWithCurl: the host is rush when rush is used, and an IPv6
\* host is put between brackets.
CurlUrl(u) == IF UseRush THEN <<"rush", u>> ELSE IF u \in Ipv6 THEN <<"ipv6", u>> ELSE <<"host", u>>

\* Mutant: the address of the receiver in the form that curl needs.
SenderUrlBracketed(u) == <<"ipv6", u>>

\* The key of the sender thread and of the worker: params->ip, port, resource.
SenderUrl(u) == <<"host", u>>
Keys == {"host", "ipv6", "rush"} \X Urls

\* Where a worker is once it has called curl_easy_init(): a thread that got no
\* handle ends.
curl_easy_init(w) == {"pop"} \cup IF w \in MayFail THEN {"exited"} ELSE {}

Init ==
  /\ inst \in Instances
  /\ pc \in [Threads -> {"idle", "pop", "exited"}]
  /\ \A r \in Requesters : pc[r] = "idle"
  /\ \A w \in Workers : pc[w] \in IF inst.mode = "threadpool" THEN curl_easy_init(w) ELSE {"exited"}
  /\ note = [t \in Threads |-> NoNote]
  /\ queue = <<>> /\ taken = <<>>
  /\ senders = {}
  /\ stats = [c \in Counters |-> 0]
  /\ statsReset = 0
  /\ alarms = AlarmInit
  /\ badInputSeen = [t \in Requesters |-> FALSE]
  /\ transactionId = 0 /\ transactions = 0
  /\ summary = [round |-> 0, at |-> "sleep", transactions |-> 0, diff |-> 0,
                since |-> 0, alarms |-> AlarmInit]
  /\ requests = 0
  /\ outcome = [u \in Urls |-> "none"]

-----------------------------------------------------------------------------
(* Transaction numbers.  A writer holds the transaction semaphore, the     *)
(* reader of the log summary does not: at the turn it may see the negative *)
(* number that ++ makes before the 1 is stored.                            *)

transactionIdGet == IF transactionId = INT_MAX THEN 1 ELSE transactionId + 1

transactionIdRead ==
  {transactionId} \cup IF transactionId = INT_MAX THEN {-INT_MAX - 1} ELSE {}

transactionIdSet ==
  /\ transactionId' = transactionIdGet
  /\ transactions' = transactions + 1

-----------------------------------------------------------------------------
(* A request: bad input, or input that is served; the database operation   *)
(* of a served request fails, or works and triggers a notification.        *)

lmTransactionStart(r) ==
  /\ Goto(r, "idle", "parse")
  /\ requests < inst.requests
  /\ requests' = requests + 1
  /\ transactionIdSet
  /\ \E u \in Urls \cup (IF inst.badInput THEN {Malformed} ELSE {}) :
       note' = [note EXCEPT ![r] = [id |-> requests', url |-> u]]
  /\ UNCHANGED <<inst, queueVars, senders, stats, statsReset, alarmVars, summary, outcome>>

\* alarmMgr.badInput(clientIp, ...) by thread r; the client of thread r is r.
\* Nothing sets badInputSeen back to false.
badInput(r) ==
  IF badInputSeen[r]
  THEN UNCHANGED alarmVars
  ELSE /\ badInputSeen' = [badInputSeen EXCEPT ![r] = TRUE]
       /\ alarms' = BadInput(alarms, r)

\* restService: the input is refused.
BadRequest(r) ==
  /\ Goto(r, "parse", "idle")
  /\ inst.badInput
  /\ note' = [note EXCEPT ![r] = NoNote]
  /\ badInput(r)
  /\ UNCHANGED <<inst, queueVars, senders, stats, statsReset, transactionId, summary,
                 transactions, requests, outcome>>

\* restService: the input is right, and the alarm of the client is released.
GoodRequest(r) ==
  /\ Goto(r, "parse", "db")
  /\ alarms' = BadInputReset(alarms, r)
  /\ UNCHANGED <<inst, note, queueVars, senders, stats, statsReset, badInputSeen,
                 transactionId, summary, transactions, requests, outcome>>

\* The operation on the database ends: dbError and dbErrorReset test dbOk.
dbOperation(r) ==
  /\ pc[r] = "db"
  /\ \/ inst.dbFails /\ pc' = [pc EXCEPT ![r] = IF alarms.dbOk THEN "dbError" ELSE "idle"]
     \/ pc' = [pc EXCEPT ![r] = IF alarms.dbOk THEN "send" ELSE "dbErrorReset"]
  /\ note' = [note EXCEPT ![r] = IF pc'[r] = "idle" THEN NoNote ELSE @]
  /\ UNCHANGED <<inst, queueVars, senders, stats, statsReset, alarmVars, transactionId,
                 summary, transactions, requests, outcome>>

dbError(r) ==
  /\ Goto(r, "dbError", "idle")
  /\ alarms' = DbErrorSet(alarms)
  /\ note' = [note EXCEPT ![r] = NoNote]
  /\ UNCHANGED <<inst, queueVars, senders, stats, statsReset, badInputSeen, transactionId,
                 summary, transactions, requests, outcome>>

dbErrorReset(r) ==
  /\ Goto(r, "dbErrorReset", "send")
  /\ alarms' = DbErrorResetSet(alarms)
  /\ UNCHANGED <<inst, note, queueVars, senders, stats, statsReset, badInputSeen,
                 transactionId, summary, transactions, requests, outcome>>

-----------------------------------------------------------------------------
(* The notifier: hand the notification to the pool of workers, or to a     *)
(* thread of its own.                                                      *)

Drop(r) == note' = [note EXCEPT ![r] = NoNote]

\* parseUrl fails.  Only the notifier of the pool raises an alarm.
MalformedUrl(r) ==
  /\ Goto(r, "send", "idle")
  /\ note[r].url = Malformed
  /\ Drop(r)
  /\ IF inst.mode = "threadpool" THEN badInput(r) ELSE UNCHANGED alarmVars
  /\ UNCHANGED <<inst, queueVars, senders, stats, statsReset, transactionId, summary,
                 transactions, requests, outcome>>

try_push(r) ==
  /\ pc[r] = "send" /\ inst.mode = "threadpool" /\ note[r].url # Malformed
  /\ IF Len(queue) < MaxQ
     THEN queue' = Append(queue, note[r]) /\ pc' = [pc EXCEPT ![r] = "notify_one"]
     ELSE pc' = [pc EXCEPT ![r] = "incReject"] /\ UNCHANGED queue
  /\ UNCHANGED <<inst, note, taken, senders, stats, statsReset, alarmVars, transactionId,
                 summary, transactions, requests, outcome>>

\* Mutant: a thread that waits is not woken.
notify_none(r) ==
  /\ Goto(r, "notify_one", "incIn")
  /\ UNCHANGED <<inst, note, queueVars, senders, stats, statsReset, alarmVars, transactionId,
                 summary, transactions, requests, outcome>>

\* addedElement.notify_one(), after the lock is released: one of the workers
\* that wait, if any, will look at the queue again.
notify_one(r) ==
  /\ pc[r] = "notify_one"
  /\ LET waiting == {w \in Workers : pc[w] = "wait"} IN
       IF waiting = {}
       THEN pc' = [pc EXCEPT ![r] = "incIn"]
       ELSE \E w \in waiting : pc' = [pc EXCEPT ![r] = "incIn", ![w] = "pop"]
  /\ UNCHANGED <<inst, note, queueVars, senders, stats, statsReset, alarmVars, transactionId,
                 summary, transactions, requests, outcome>>

\* The counters come last: a worker may have taken the element by then.
incIn(r) ==
  /\ Goto(r, "incIn", "idle")
  /\ Inc("in")
  /\ Drop(r)
  /\ UNCHANGED <<inst, queueVars, senders, statsReset, alarmVars, transactionId, summary,
                 transactions, requests, outcome>>

\* Mutant: the code of a full queue runs on into the code of an accepted
\* notification.
incRejectAndIn(r) ==
  /\ Goto(r, "incReject", "idle")
  /\ stats' = [stats EXCEPT !["reject"] = @ + 1, !["in"] = @ + 1]
  /\ Drop(r)
  /\ UNCHANGED <<inst, queueVars, senders, statsReset, alarmVars, transactionId, summary,
                 transactions, requests, outcome>>

incReject(r) ==
  /\ Goto(r, "incReject", "idle")
  /\ Inc("reject")
  /\ Drop(r)
  /\ UNCHANGED <<inst, queueVars, senders, statsReset, alarmVars, transactionId, summary,
                 transactions, requests, outcome>>

\* Notifier::sendNotifyContextRequest: pthread_create gives the notification
\* a thread, or fails and the notification is lost.
pthread_create(r) ==
  /\ Goto(r, "send", "idle")
  /\ inst.mode = "transient" /\ note[r].url # Malformed
  /\ senders' \in {senders, senders \cup {[note |-> note[r], at |-> "attempt"]}}
  /\ Drop(r)
  /\ UNCHANGED <<inst, queueVars, stats, statsReset, alarmVars, transactionId, summary,
                 transactions, requests, outcome>>

-----------------------------------------------------------------------------
(* The workers of the pool.                                                *)

\* Mutant: the element that came last is taken first.
pop_last(w) ==
  /\ pc[w] = "pop"
  /\ IF queue = <<>>
     THEN pc' = [pc EXCEPT ![w] = "wait"] /\ UNCHANGED <<queueVars, note>>
     ELSE /\ pc' = [pc EXCEPT ![w] = "incOut"]
          /\ note' = [note EXCEPT ![w] = queue[Len(queue)]]
          /\ taken' = Append(taken, queue[Len(queue)])
          /\ queue' = SubSeq(queue, 1, Len(queue) - 1)
  /\ UNCHANGED <<inst, senders, stats, statsReset, alarmVars, transactionId, summary,
                 transactions, requests, outcome>>

\* SyncQOverflow::pop: the loop around addedElement.wait().
pop(w) ==
  /\ pc[w] = "pop"
  /\ IF queue = <<>>
     THEN pc' = [pc EXCEPT ![w] = "wait"] /\ UNCHANGED <<queueVars, note>>
     ELSE /\ pc' = [pc EXCEPT ![w] = "incOut"]
          /\ note' = [note EXCEPT ![w] = Head(queue)]
          /\ taken' = Append(taken, Head(queue))
          /\ queue' = Tail(queue)
  /\ UNCHANGED <<inst, senders, stats, statsReset, alarmVars, transactionId, summary,
                 transactions, requests, outcome>>

\* A condition variable may wake a thread that nobody notified.
SpuriousWakeup(w) ==
  /\ Goto(w, "wait", "pop")
  /\ UNCHANGED <<inst, note, queueVars, senders, stats, statsReset, alarmVars, transactionId,
                 summary, transactions, requests, outcome>>

incOut(w) ==
  /\ Goto(w, "incOut", "attempt")
  /\ Inc("out")
  /\ UNCHANGED <<inst, note, queueVars, senders, statsReset, alarmVars, transactionId, summary,
                 transactions, requests, outcome>>

\* How httpRequestSendWithCurl ends: sent, curl_easy_perform failed (-9), or
\* the message was refused before it was sent (-1 to -8).
Results == {"sent", "performFailed"} \cup IF inst.badInput THEN {"refused"} ELSE {}

workerAttempt(w) ==
  /\ pc[w] = "attempt"
  /\ IF inst.simulated
     THEN /\ pc' = [pc EXCEPT ![w] = "pop"]
          /\ Drop(w)
          /\ UNCHANGED <<transactionId, transactions>>
     ELSE /\ \E r \in Results : pc' = [pc EXCEPT ![w] = r]
          /\ transactionIdSet
          /\ UNCHANGED note
  /\ UNCHANGED <<inst, queueVars, senders, stats, statsReset, alarmVars, summary, requests,
                 outcome>>

\* alarmMgr.notificationError of httpRequestSendWithCurl.
performFailed(w) ==
  /\ Goto(w, "performFailed", "refused")
  /\ alarms' = NotificationError(alarms, CurlUrl(note[w].url))
  /\ outcome' = [outcome EXCEPT ![note[w].url] = "failed"]
  /\ UNCHANGED <<inst, note, queueVars, senders, stats, statsReset, badInputSeen,
                 transactionId, summary, transactions, requests>>

incSent(w) ==
  /\ \/ Goto(w, "sent", "reset") /\ Inc("sentOK")
     \/ Goto(w, "refused", "raise") /\ Inc("sentError")
  /\ UNCHANGED <<inst, note, queueVars, senders, statsReset, alarmVars, transactionId, summary,
                 transactions, requests, outcome>>

workerAlarm(w) ==
  /\ \/ /\ Goto(w, "reset", "pop")
        /\ alarms' = NotificationErrorReset(alarms, SenderUrl(note[w].url))
        /\ outcome' = [outcome EXCEPT ![note[w].url] = "sent"]
     \/ /\ Goto(w, "raise", "pop")
        /\ alarms' = NotificationError(alarms, SenderUrl(note[w].url))
        /\ outcome' = [outcome EXCEPT ![note[w].url] = "failed"]
  /\ Drop(w)
  /\ UNCHANGED <<inst, queueVars, senders, stats, statsReset, badInputSeen, transactionId,
                 summary, transactions, requests>>

-----------------------------------------------------------------------------
(* A sender thread, startSenderThread: one notification, and the end.      *)

Advance(s, at) == senders' = (senders \ {s}) \cup {[s EXCEPT !.at = at]}

senderAttempt(s) ==
  /\ s.at = "attempt"
  /\ IF inst.simulated
     THEN Advance(s, "raise") /\ UNCHANGED <<transactionId, transactions>>
     ELSE /\ \E r \in Results : Advance(s, r)
          /\ transactionIdSet
  /\ UNCHANGED <<inst, pc, note, queueVars, stats, statsReset, alarmVars, summary, requests,
                 outcome>>

\* The alarm of a failed attempt is raised by httpRequestSendWithCurl alone;
\* the thread itself raises one when notifications are simulated.
senderAlarm(s) ==
  /\ \/ /\ s.at = "sent"
        /\ alarms' = NotificationErrorReset(alarms, SenderUrl(s.note.url))
        /\ outcome' = [outcome EXCEPT ![s.note.url] = "sent"]
     \/ /\ s.at = "performFailed"
        /\ alarms' = NotificationError(alarms, CurlUrl(s.note.url))
        /\ outcome' = [outcome EXCEPT ![s.note.url] = "failed"]
     \/ /\ s.at = "raise"
        /\ alarms' = NotificationError(alarms, SenderUrl(s.note.url))
        /\ outcome' = [outcome EXCEPT ![s.note.url] = "failed"]
     \/ /\ s.at = "refused"
        /\ UNCHANGED <<alarms, outcome>>
  /\ senders' = senders \ {s}
  /\ UNCHANGED <<inst, pc, note, queueVars, stats, statsReset, badInputSeen, transactionId,
                 summary, transactions, requests>>

-----------------------------------------------------------------------------
(* DELETE /statistics and the log summary.                                 *)

\* QueueStatistics::reset, one counter after the other.
ResetOrder == <<"in", "out", "reject", "sentOK", "sentError">>

reset ==
  /\ inst.resets = 1 /\ statsReset < Len(ResetOrder)
  /\ statsReset' = statsReset + 1
  /\ stats' = [stats EXCEPT ![ResetOrder[statsReset']] = 0]
  /\ UNCHANGED <<inst, pc, note, queueVars, senders, alarmVars, transactionId, summary,
                 transactions, requests, outcome>>

TransactionsSince(now, last) == IF now < last THEN INT_MAX - last + now ELSE now - last

\* The period is over: the running number is read without its semaphore.
logSummaryTransactions ==
  /\ summary.at = "sleep" /\ summary.round < inst.summaries
  /\ \E now \in transactionIdRead :
       summary' = [summary EXCEPT !.at = "alarms", !.round = @ + 1, !.transactions = now,
                     !.diff = TransactionsSince(now, summary.transactions),
                     !.since = IF now < 0 \/ summary.transactions < 0 THEN -1 ELSE transactions]
  /\ transactions' = 0
  /\ UNCHANGED <<inst, pc, note, queueVars, senders, stats, statsReset, alarmVars,
                 transactionId, requests, outcome>>

\* The counters are copied under the semaphore of the alarm manager.
logSummaryAlarms ==
  /\ summary.at = "alarms"
  /\ summary' = [summary EXCEPT !.at = "sleep", !.alarms = alarms]
  /\ UNCHANGED <<inst, pc, note, queueVars, senders, stats, statsReset, alarmVars,
                 transactionId, transactions, requests, outcome>>

-----------------------------------------------------------------------------

\* The steps of a request thread once it has a request.
RequestStep(r) ==
  \/ BadRequest(r) \/ GoodRequest(r)
  \/ dbOperation(r) \/ dbError(r) \/ dbErrorReset(r)
  \/ MalformedUrl(r) \/ try_push(r) \/ notify_one(r) \/ incIn(r) \/ incReject(r)
  \/ pthread_create(r)

WorkerStep(w) ==
  \/ pop(w) \/ incOut(w)
  \/ workerAttempt(w) \/ performFailed(w) \/ incSent(w) \/ workerAlarm(w)

Next ==
  \/ \E r \in Requesters : lmTransactionStart(r) \/ RequestStep(r)
  \/ \E w \in Workers : WorkerStep(w) \/ SpuriousWakeup(w)
  \/ \E s \in senders : senderAttempt(s) \/ senderAlarm(s)
  \/ reset
  \/ logSummaryTransactions \/ logSummaryAlarms

\* The operating system runs every thread that can run, and an outgoing
\* request ends: curl is given a timeout.  No fairness for clients, for the
\* timer of the summary and for spurious wake-ups.
Fairness ==
  /\ \A r \in Requesters : WF_vars(RequestStep(r))
  /\ \A w \in Workers : WF_vars(WorkerStep(w))

Spec == Init /\ [][Next]_vars /\ Fairness

-----------------------------------------------------------------------------
(* Properties.                                                             *)

At(S, labels) == Cardinality({t \in S : pc[t] \in labels})

\* Until the statistics are reset nothing gets lost between the counters of the
\* queue (QueueStatistics): what request threads pushed is what workers popped
\* and what still waits, and every notification taken ends as sent or as
\* failed, although the counters are incremented outside the lock of the queue.
\* And the summary of the log counts the transactions of its period also when
\* the running number turned around, unless it was read in the middle of the
\* turn or a period saw a whole turn.
CountersAddUp ==
  /\ statsReset = 0 =>
       /\ stats["in"] + At(Requesters, {"notify_one", "incIn"})
            = stats["out"] + Len(queue) + At(Workers, {"incOut"})
       /\ ~inst.simulated => stats["out"]
            = stats["sentOK"] + stats["sentError"]
              + At(Workers, {"attempt", "sent", "performFailed", "refused"})
  /\ summary.since \in 0 .. INT_MAX - 1 => summary.diff = summary.since

\* For notifications and for bad input the number of active alarms is the
\* number of raised minus the number of released ones, at any time and in the
\* copy that the log summary prints; and the alarm of a receiver is released by
\* the next notification that reaches it, whichever thread raised it and
\* whichever thread released it.
AlarmsFollowDelivery ==
  /\ \A a \in {alarms, summary.alarms} :
       /\ Cardinality(a.notificationV) = a.notificationErrors - a.notificationErrorResets
       /\ Cardinality(a.badInputV) = a.badInputs - a.badInputResets
  /\ \A u \in Urls : outcome[u] = "sent" => \A k \in alarms.notificationV : k[2] # u

\* The lock, the condition variable and the loop around its wait implement a
\* bounded queue: notifications leave once each and in the order in which
\* they were accepted, whatever the threads on both sides do.
Q == INSTANCE BoundedQueue WITH
       Element <- Notification, MaxSize <- MaxQ, waiting <- queue, handed <- taken
ImplementsBoundedQueue == Q!Spec

\* Nobody waits for ever.  A request is never held up by the delivery of its
\* notifications, not even when no worker is left and the queue is full.  No
\* wake-up is lost: as long as a worker is left, a notification that was accepted
\* (that of the first request stands for any) is handed to a worker.
NotificationsProgress ==
  /\ \A r \in Requesters : pc[r] # "idle" ~> pc[r] = "idle"
  /\ (\E k \in DOMAIN queue : queue[k].id = 1)
       ~> \/ \E k \in DOMAIN taken : taken[k].id = 1
          \/ \A w \in Workers : pc[w] = "exited"
=============================================================================
