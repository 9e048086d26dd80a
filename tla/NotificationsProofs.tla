------------------------ MODULE NotificationsProofs -------------------------
(***************************************************************************)
(* The counters of the queue, the alarms, the summary of the log and the   *)
(* refinement of BoundedQueue, for any number of threads, receivers and    *)
(* requests, any size of the queue, and any command line.                  *)
(***************************************************************************)
EXTENDS Notifications, FiniteSetTheorems, SequenceTheorems, TLAPS

\* What the notifier lets through: parseUrl has accepted the URL.
Sendable == [id : 1 .. MaxRequests, url : Urls]

RequestPlaces == {"idle", "parse", "db", "dbError", "dbErrorReset", "send", "notify_one", "incIn", "incReject"}
Carrying      == {"incOut", "attempt", "sent", "performFailed", "refused", "reset", "raise"}
WorkerPlaces  == {"pop", "wait", "exited"} \cup Carrying
SenderPlaces  == {"attempt", "sent", "performFailed", "refused", "raise"}

\* Threads and what they carry.
ThreadsInv ==
  /\ inst \in Instance
  /\ requests \in Nat /\ requests =< MaxRequests
  /\ pc \in [Threads -> RequestPlaces \cup WorkerPlaces]
  /\ note \in [Threads -> Notification \cup {NoNote}]
  /\ \A r \in Requesters : pc[r] \in RequestPlaces /\ (pc[r] # "idle" => note[r] \in Notification)
  /\ \A w \in Workers : pc[w] \in WorkerPlaces /\ (pc[w] \in Carrying => note[w] \in Sendable)
  /\ queue \in Seq(Sendable)
  /\ senders \subseteq [note : Sendable, at : SenderPlaces]

\* The provers that try a step, in this order.
USE ZenonT(6), SMTT(15)

\* A thread treats requests or is one of the pool.
LEMMA Parts ==
  /\ Requesters \subseteq Threads /\ Workers \subseteq Threads
  /\ \A r \in Requesters : r \notin Workers
  /\ \A w \in Workers : w \notin Requesters
BY NotificationsAssumption DEF Threads

\* Request threads are idle, workers are about to look at the queue.
LEMMA ThreadsInit == Init => ThreadsInv
<1> SUFFICES ASSUME Init PROVE ThreadsInv
  OBVIOUS
<1>1. inst \in Instance /\ requests = 0 /\ MaxRequests \in Nat
  BY NotificationsAssumption DEF Init
<1>2. pc \in [Threads -> RequestPlaces \cup WorkerPlaces] /\ note \in [Threads -> Notification \cup {NoNote}]
  BY DEF Init, RequestPlaces, WorkerPlaces
<1>3. \A r \in Requesters : pc[r] = "idle"
  BY DEF Init
<1>4. \A w \in Workers : pc[w] \in {"pop", "exited"}
  BY DEF Init, curl_easy_init
<1>5. queue \in Seq(Sendable) /\ senders = {}
  BY EmptySeq DEF Init
<1> QED BY <1>1, <1>2, <1>3, <1>4, <1>5 DEF ThreadsInv, RequestPlaces, WorkerPlaces, Carrying

\* A request comes in.
LEMMA StartThreads ==
  ASSUME ThreadsInv, NEW r \in Requesters, lmTransactionStart(r)
  PROVE  ThreadsInv'
<1>1. PICK u \in Urls \cup {Malformed} : note' = [note EXCEPT ![r] = [id |-> requests', url |-> u]]
  BY DEF lmTransactionStart
<1>2. /\ pc' = [pc EXCEPT ![r] = "parse"] /\ requests < inst.requests /\ requests' = requests + 1
      /\ UNCHANGED <<inst, queue, senders>>
  BY DEF lmTransactionStart, Goto, queueVars
<1>3. requests' \in 1 .. MaxRequests
  <2>1. inst.requests \in 0 .. MaxRequests /\ MaxRequests \in Nat /\ requests \in Nat
    BY NotificationsAssumption DEF ThreadsInv, Instance
  <2> QED BY <1>2, <2>1
<1>4. [id |-> requests', url |-> u] \in Notification
  BY <1>1, <1>3 DEF Notification
<1>5. requests' \in Nat /\ requests' =< MaxRequests
  BY <1>3, NotificationsAssumption
<1> QED BY <1>1, <1>2, <1>4, <1>5, Parts DEF ThreadsInv, RequestPlaces

\* The steps of a request that neither queue nor send.
LEMMA RequestThreads ==
  ASSUME ThreadsInv, NEW r \in Requesters,
         \/ BadRequest(r) \/ GoodRequest(r) \/ dbOperation(r) \/ dbError(r) \/ dbErrorReset(r)
         \/ MalformedUrl(r) \/ incIn(r) \/ incReject(r)
  PROVE  ThreadsInv'
<1>1. UNCHANGED <<inst, requests, queue, senders>>
  BY DEF BadRequest, GoodRequest, dbOperation, dbError, dbErrorReset, MalformedUrl, incIn, incReject, queueVars
<1>2. \E to \in RequestPlaces : pc' = [pc EXCEPT ![r] = to]
  BY DEF BadRequest, GoodRequest, dbOperation, dbError, dbErrorReset, MalformedUrl, incIn, incReject, Goto, RequestPlaces
<1>3. UNCHANGED note \/ (note' = [note EXCEPT ![r] = NoNote] /\ pc'[r] = "idle")
  BY Parts DEF BadRequest, GoodRequest, dbOperation, dbError, dbErrorReset, MalformedUrl, incIn, incReject, Goto, Drop, ThreadsInv
<1>4. pc[r] # "idle"
  BY DEF BadRequest, GoodRequest, dbOperation, dbError, dbErrorReset, MalformedUrl, incIn, incReject, Goto
<1> QED BY <1>1, <1>2, <1>3, <1>4, Parts DEF ThreadsInv

\* try_push() puts the notification at the end of the queue, unless it is full.
LEMMA PushThreads ==
  ASSUME ThreadsInv, NEW r \in Requesters, try_push(r)
  PROVE  /\ ThreadsInv'
         /\ UNCHANGED queue \/ (Len(queue) < MaxQ /\ queue' = Append(queue, note[r]) /\ note[r] \in Sendable)
<1>1. /\ pc[r] = "send" /\ note[r].url # Malformed
      /\ UNCHANGED <<inst, requests, note, senders>>
  BY DEF try_push
<1>2. \/ pc' = [pc EXCEPT ![r] = "incReject"] /\ UNCHANGED queue
      \/ Len(queue) < MaxQ /\ pc' = [pc EXCEPT ![r] = "notify_one"] /\ queue' = Append(queue, note[r])
  BY DEF try_push
<1>3. note[r] \in Sendable
  BY <1>1 DEF ThreadsInv, Notification, Sendable
<1>4. queue' \in Seq(Sendable)
  BY <1>2, <1>3, AppendProperties DEF ThreadsInv
<1> QED BY <1>1, <1>2, <1>3, <1>4, Parts DEF ThreadsInv, RequestPlaces

\* The step that wakes a worker is one of two threads.
LEMMA WakeThreads ==
  ASSUME ThreadsInv, NEW r \in Requesters, notify_one(r)
  PROVE  ThreadsInv'
<1>1. pc[r] = "notify_one" /\ UNCHANGED <<inst, requests, note, queue, senders>>
  BY DEF notify_one, queueVars
<1>2. \/ pc' = [pc EXCEPT ![r] = "incIn"]
      \/ \E w \in Workers : pc[w] = "wait" /\ pc' = [pc EXCEPT ![r] = "incIn", ![w] = "pop"]
  BY DEF notify_one
<1> QED BY <1>1, <1>2, Parts DEF ThreadsInv, RequestPlaces, WorkerPlaces, Carrying

\* A thread of its own for the notification.
LEMMA CreateThreads ==
  ASSUME ThreadsInv, NEW r \in Requesters, pthread_create(r)
  PROVE  ThreadsInv'
<1>1. /\ pc[r] = "send" /\ pc' = [pc EXCEPT ![r] = "idle"] /\ note[r].url # Malformed
      /\ note' = [note EXCEPT ![r] = NoNote]
      /\ UNCHANGED <<inst, requests, queue>>
      /\ senders' \in {senders, senders \cup {[note |-> note[r], at |-> "attempt"]}}
  BY DEF pthread_create, Goto, Drop, queueVars
<1>2. note[r] \in Sendable
  BY <1>1 DEF ThreadsInv, Notification, Sendable
<1>3. [note |-> note[r], at |-> "attempt"] \in [note : Sendable, at : SenderPlaces]
  BY <1>2 DEF SenderPlaces
<1>4. senders' \subseteq [note : Sendable, at : SenderPlaces]
  BY <1>1, <1>3 DEF ThreadsInv
<1> QED BY <1>1, <1>4, Parts DEF ThreadsInv, RequestPlaces

\* pop() takes the first element, or waits.
LEMMA PopThreads ==
  ASSUME ThreadsInv, NEW w \in Workers, pop(w)
  PROVE  ThreadsInv'
<1>1. UNCHANGED <<inst, requests, senders>> /\ pc[w] = "pop"
  BY DEF pop
<1>2. CASE queue = <<>>
  BY <1>1, <1>2, Parts DEF pop, queueVars, ThreadsInv, WorkerPlaces, Carrying
<1>3. CASE queue # <<>>
  <2>1. /\ pc' = [pc EXCEPT ![w] = "incOut"] /\ note' = [note EXCEPT ![w] = Head(queue)]
        /\ queue' = Tail(queue)
    BY <1>3 DEF pop
  <2>2. Head(queue) \in Sendable /\ queue' \in Seq(Sendable)
    BY <1>3, <2>1, HeadTailProperties DEF ThreadsInv
  <2>3. Head(queue) \in Notification
    BY <2>2 DEF Sendable, Notification
  <2> QED BY <1>1, <2>1, <2>2, <2>3, Parts DEF ThreadsInv, WorkerPlaces, Carrying
<1> QED BY <1>2, <1>3

\* The other steps of a worker.
LEMMA WorkerThreads ==
  ASSUME ThreadsInv, NEW w \in Workers,
         incOut(w) \/ workerAttempt(w) \/ performFailed(w) \/ incSent(w) \/ workerAlarm(w) \/ SpuriousWakeup(w)
  PROVE  ThreadsInv'
<1>1. UNCHANGED <<inst, requests, queue, senders>>
  BY DEF incOut, workerAttempt, performFailed, incSent, workerAlarm, SpuriousWakeup, queueVars
<1>2. \/ /\ UNCHANGED note /\ pc[w] \in Carrying
         /\ \E to \in Carrying : pc' = [pc EXCEPT ![w] = to]
      \/ pc' = [pc EXCEPT ![w] = "pop"] /\ (UNCHANGED note \/ note' = [note EXCEPT ![w] = NoNote])
  BY DEF incOut, workerAttempt, performFailed, incSent, workerAlarm, SpuriousWakeup, Goto, Drop, Results, Carrying
<1> QED BY <1>1, <1>2, Parts DEF ThreadsInv, WorkerPlaces, Carrying

\* The steps of a sender thread.
LEMMA SenderThreads ==
  ASSUME ThreadsInv, NEW s \in senders, senderAttempt(s) \/ senderAlarm(s)
  PROVE  ThreadsInv'
<1>1. UNCHANGED <<inst, pc, note, requests, queue>>
  BY DEF senderAttempt, senderAlarm, queueVars
<1>2. s \in [note : Sendable, at : SenderPlaces]
  BY DEF ThreadsInv
<1>3. senders' = senders \ {s} \/ \E to \in SenderPlaces : senders' = (senders \ {s}) \cup {[s EXCEPT !.at = to]}
  BY DEF senderAttempt, senderAlarm, Advance, Results, SenderPlaces
<1>4. senders' \subseteq [note : Sendable, at : SenderPlaces]
  <2>1. \A to \in SenderPlaces : [s EXCEPT !.at = to] \in [note : Sendable, at : SenderPlaces]
    BY <1>2
  <2> QED BY <1>3, <2>1 DEF ThreadsInv
<1> QED BY <1>1, <1>4 DEF ThreadsInv

\* Every step keeps the invariant of the threads.
LEMMA ThreadsNext ==
  ASSUME ThreadsInv, [Next]_vars
  PROVE  ThreadsInv'
<1>1. ASSUME NEW r \in Requesters, lmTransactionStart(r) \/ RequestStep(r) PROVE ThreadsInv'
  BY <1>1, StartThreads, RequestThreads, PushThreads, WakeThreads, CreateThreads DEF RequestStep
<1>2. ASSUME NEW w \in Workers, WorkerStep(w) \/ SpuriousWakeup(w) PROVE ThreadsInv'
  BY <1>2, PopThreads, WorkerThreads DEF WorkerStep
<1>3. ASSUME NEW s \in senders, senderAttempt(s) \/ senderAlarm(s) PROVE ThreadsInv'
  BY <1>3, SenderThreads
<1>4. CASE reset \/ logSummaryTransactions \/ logSummaryAlarms \/ UNCHANGED vars
  BY <1>4 DEF reset, logSummaryTransactions, logSummaryAlarms, vars, queueVars, ThreadsInv
<1> QED BY <1>1, <1>2, <1>3, <1>4 DEF Next

-----------------------------------------------------------------------------
(* The refinement.                                                         *)

\* The queue and the list of what was handed over change as those of a bounded
\* queue do: only try_push() and pop() touch them.
LEMMA QueueStep ==
  ASSUME ThreadsInv, [Next]_vars
  PROVE  [Q!Next]_(Q!vars)
<1>1. ASSUME NEW r \in Requesters, try_push(r) PROVE [Q!Next]_(Q!vars)
  <2>1. UNCHANGED queue \/ (Len(queue) < MaxQ /\ queue' = Append(queue, note[r]) /\ note[r] \in Sendable)
    BY <1>1, PushThreads
  <2>2. UNCHANGED taken /\ Sendable \subseteq Notification
    BY <1>1 DEF try_push, Sendable, Notification
  <2> QED BY <2>1, <2>2 DEF Q!Next, Q!Accept, Q!vars
<1>2. ASSUME NEW r \in Requesters, lmTransactionStart(r) \/ (RequestStep(r) /\ ~ try_push(r)) PROVE UNCHANGED Q!vars
  BY <1>2 DEF RequestStep, lmTransactionStart, BadRequest, GoodRequest, dbOperation, dbError, dbErrorReset, MalformedUrl,
     notify_one, incIn, incReject, pthread_create, queueVars, Q!vars
<1>3. ASSUME NEW w \in Workers, pop(w) PROVE [Q!Next]_(Q!vars)
  BY <1>3 DEF pop, queueVars, Q!Next, Q!HandOver, Q!vars
<1>4. ASSUME NEW w \in Workers, (WorkerStep(w) /\ ~ pop(w)) \/ SpuriousWakeup(w) PROVE UNCHANGED Q!vars
  BY <1>4 DEF WorkerStep, incOut, workerAttempt, performFailed, incSent, workerAlarm, SpuriousWakeup, queueVars, Q!vars
<1>5. ASSUME NEW s \in senders, senderAttempt(s) \/ senderAlarm(s) PROVE UNCHANGED Q!vars
  BY <1>5 DEF senderAttempt, senderAlarm, queueVars, Q!vars
<1>6. CASE reset \/ logSummaryTransactions \/ logSummaryAlarms \/ UNCHANGED vars
  BY <1>6 DEF reset, logSummaryTransactions, logSummaryAlarms, vars, queueVars, Q!vars
<1> QED BY <1>1, <1>2, <1>3, <1>4, <1>5, <1>6 DEF Next

\* SyncQOverflow with its lock, its condition variable and any threads on both
\* sides implements the bounded queue.
THEOREM NotificationsImplementBoundedQueue == Spec => ImplementsBoundedQueue
<1>1. Init => Q!Init
  BY DEF Init, Q!Init
<1>2. ThreadsInv /\ [Next]_vars => ThreadsInv'
  BY ThreadsNext
<1>3. ThreadsInv /\ [Next]_vars => [Q!Next]_(Q!vars)
  BY QueueStep
<1> QED BY <1>1, <1>2, <1>3, ThreadsInit, PTL DEF Spec, ImplementsBoundedQueue, Q!Spec

-----------------------------------------------------------------------------
(* The number of the transaction.                                          *)

\* The running number that is n transactions after the number from, for less
\* than a turn.
After(from, n) == IF from + n =< INT_MAX THEN from + n ELSE from + n - INT_MAX

SummaryFields == {"round", "at", "transactions", "diff", "since", "alarms"}

\* As long as the number that the summary of the log has read is a number, and
\* less than a turn ago, the running number tells the transactions since then.
TurnInv ==
  /\ DOMAIN summary = SummaryFields
  /\ transactionId \in 0 .. INT_MAX
  /\ transactions \in Nat
  /\ summary.transactions \in {-INT_MAX - 1} \cup 0 .. INT_MAX
  /\ summary.transactions >= 0 /\ transactions < INT_MAX => transactionId = After(summary.transactions, transactions)
  /\ summary.since \in 0 .. INT_MAX - 1 => summary.diff = summary.since

\* At the start there was no transaction.
LEMMA TurnInit == Init => TurnInv
BY NotificationsAssumption DEF Init, TurnInv, After, SummaryFields

\* A transaction begins.
LEMMA TurnSet ==
  ASSUME TurnInv, transactionIdSet, UNCHANGED summary
  PROVE  TurnInv'
<1>1. INT_MAX \in Nat \ {0}
  BY NotificationsAssumption
<1> QED BY <1>1 DEF TurnInv, transactionIdSet, transactionIdGet, After

\* The summary reads the running number without its semaphore.
LEMMA TurnRead ==
  ASSUME TurnInv, logSummaryTransactions
  PROVE  TurnInv'
<1>0. INT_MAX \in Nat \ {0}
  BY NotificationsAssumption
<1>1. PICK now \in transactionIdRead :
        summary' = [summary EXCEPT !.at = "alarms", !.round = @ + 1, !.transactions = now,
                      !.diff = TransactionsSince(now, summary.transactions),
                      !.since = IF now < 0 \/ summary.transactions < 0 THEN -1 ELSE transactions]
  BY DEF logSummaryTransactions
<1>2. transactions' = 0 /\ UNCHANGED transactionId
  BY DEF logSummaryTransactions
<1>3. now = transactionId \/ now = -INT_MAX - 1
  BY DEF transactionIdRead
<1>4. /\ summary'.transactions = now
      /\ summary'.diff = TransactionsSince(now, summary.transactions)
      /\ summary'.since = IF now < 0 \/ summary.transactions < 0 THEN -1 ELSE transactions
      /\ DOMAIN summary' = SummaryFields
  BY <1>1 DEF TurnInv, SummaryFields
<1>5. summary'.since \in 0 .. INT_MAX - 1 => summary'.diff = summary'.since
  BY <1>0, <1>3, <1>4 DEF TurnInv, TransactionsSince, After
<1> QED BY <1>0, <1>2, <1>3, <1>4, <1>5 DEF TurnInv, After

\* The number of the transactions, over all steps.
LEMMA TurnNext ==
  ASSUME TurnInv, [Next]_vars
  PROVE  TurnInv'
<1>1. ASSUME UNCHANGED <<transactionId, transactions, summary>> PROVE TurnInv'
  BY <1>1 DEF TurnInv
<1>2. ASSUME NEW r \in Requesters, lmTransactionStart(r) PROVE TurnInv'
  BY <1>2, TurnSet DEF lmTransactionStart
<1>3. ASSUME NEW r \in Requesters, RequestStep(r) PROVE TurnInv'
  BY <1>1, <1>3 DEF RequestStep, BadRequest, GoodRequest, dbOperation, dbError, dbErrorReset, MalformedUrl, try_push,
     notify_one, incIn, incReject, pthread_create
<1>4. ASSUME NEW w \in Workers, workerAttempt(w) PROVE TurnInv'
  BY <1>1, <1>4, TurnSet DEF workerAttempt
<1>5. ASSUME NEW w \in Workers, (WorkerStep(w) /\ ~ workerAttempt(w)) \/ SpuriousWakeup(w) PROVE TurnInv'
  BY <1>1, <1>5 DEF WorkerStep, pop, incOut, performFailed, incSent, workerAlarm, SpuriousWakeup
<1>6. ASSUME NEW s \in senders, senderAttempt(s) \/ senderAlarm(s) PROVE TurnInv'
  BY <1>1, <1>6, TurnSet DEF senderAttempt, senderAlarm
<1>7. CASE logSummaryTransactions
  BY <1>7, TurnRead
<1>8. CASE logSummaryAlarms
  <2>1. /\ summary' = [summary EXCEPT !.at = "sleep", !.alarms = alarms] /\ UNCHANGED <<transactionId, transactions>>
    BY <1>8 DEF logSummaryAlarms
  <2> QED BY <2>1 DEF TurnInv, SummaryFields
<1>9. CASE reset \/ UNCHANGED vars
  BY <1>1, <1>9 DEF reset, vars
<1> QED BY <1>2, <1>3, <1>4, <1>5, <1>6, <1>7, <1>8, <1>9 DEF Next

-----------------------------------------------------------------------------
(* The counters of the queue.                                              *)

\* Whether x is there, as a number.
One(x, T) == IF x \in T THEN 1 ELSE 0

\* The size of a set, with one element counted apart.
LEMMA Apart ==
  ASSUME NEW A, IsFiniteSet(A), NEW t
  PROVE  /\ Cardinality(A) \in Nat /\ Cardinality(A \ {t}) \in Nat
         /\ Cardinality(A) = Cardinality(A \ {t}) + One(t, A)
<1>1. /\ Cardinality(A) \in Nat /\ Cardinality(A \ {t}) \in Nat
  BY FS_CardinalityType, FS_RemoveElement
<1>2. CASE t \in A
  <2>1. Cardinality(A \ {t}) = Cardinality(A) - 1
    BY <1>2, FS_RemoveElement
  <2> QED BY <1>1, <1>2, <2>1 DEF One
<1>3. CASE t \notin A
  <2>1. Cardinality(A \ {t}) = Cardinality(A)
    BY <1>3, FS_RemoveElement
  <2>2. One(t, A) = 0
    BY <1>3 DEF One
  <2> QED BY ONLY <1>1, <2>1, <2>2
<1> QED BY <1>2, <1>3

\* How the size of a set changes with one element.
LEMMA OneMoves ==
  ASSUME NEW S, IsFiniteSet(S), NEW A \in SUBSET S, NEW B \in SUBSET S, NEW t \in S,
         \A u \in S \ {t} : u \in A <=> u \in B
  PROVE  /\ Cardinality(A) \in Nat /\ Cardinality(B) \in Nat
         /\ Cardinality(B) + One(t, A) = Cardinality(A) + One(t, B)
<1>1. IsFiniteSet(A) /\ IsFiniteSet(B)
  BY FS_Subset
<1>2. /\ Cardinality(A) \in Nat /\ Cardinality(B) \in Nat /\ Cardinality(A \ {t}) \in Nat
      /\ Cardinality(A) = Cardinality(A \ {t}) + One(t, A)
      /\ Cardinality(B) = Cardinality(B \ {t}) + One(t, B)
  BY <1>1, Apart
<1>3. A \ {t} = B \ {t}
  OBVIOUS
<1>4. One(t, A) \in Nat /\ One(t, B) \in Nat
  BY DEF One
<1>5. Cardinality(B \ {t}) = Cardinality(A \ {t})
  BY <1>3
<1> QED BY ONLY <1>2, <1>4, <1>5

\* How the number of the threads at some places changes with one thread.
LEMMA AtMoves ==
  ASSUME NEW S, IsFiniteSet(S), NEW labels, NEW t \in S, \A u \in S \ {t} : pc'[u] = pc[u]
  PROVE  /\ At(S, labels) \in Nat /\ At(S, labels)' \in Nat
         /\ At(S, labels)' + One(pc[t], labels) = At(S, labels) + One(pc'[t], labels)
<1> DEFINE A == {u \in S : pc[u] \in labels}
           B == {u \in S : pc'[u] \in labels}
<1>1. /\ Cardinality(A) \in Nat /\ Cardinality(B) \in Nat
      /\ Cardinality(B) + One(t, A) = Cardinality(A) + One(t, B)
  BY OneMoves
<1>2. One(t, A) = One(pc[t], labels) /\ One(t, B) = One(pc'[t], labels)
  BY DEF One
<1>3. At(S, labels) = Cardinality(A) /\ At(S, labels)' = Cardinality(B)
  BY DEF At
<1> QED BY <1>1, <1>2, <1>3

\* Threads that stay where they are stay as many.
LEMMA AtStays ==
  ASSUME NEW S, NEW labels, \A u \in S : pc'[u] = pc[u]
  PROVE  At(S, labels)' = At(S, labels)
<1>1. {u \in S : pc[u] \in labels}' = {u \in S : pc[u] \in labels}
  OBVIOUS
<1> QED BY <1>1 DEF At

PushedAt == {"notify_one", "incIn"}
TryingAt == {"attempt", "sent", "performFailed", "refused"}

Pushed == At(Requesters, PushedAt)
Popped == At(Workers, {"incOut"})
Trying == At(Workers, TryingAt)

\* What was pushed, what was popped and what was tried, whether it is counted
\* already or not.
QueueInv ==
  /\ stats \in [Counters -> Nat]
  /\ statsReset \in 0 .. Len(ResetOrder)
  /\ statsReset = 0 =>
       /\ stats["in"] + Pushed = stats["out"] + Len(queue) + Popped
       /\ ~inst.simulated => stats["out"] = stats["sentOK"] + stats["sentError"] + Trying

\* At the start all is zero.
LEMMA QueueInit == Init => QueueInv
<1> SUFFICES ASSUME Init PROVE QueueInv
  OBVIOUS
<1>1. /\ \A r \in Requesters : pc[r] = "idle"
      /\ \A w \in Workers : pc[w] \in {"pop", "exited"}
  BY DEF Init, curl_easy_init
<1>2. /\ {u \in Requesters : pc[u] \in PushedAt} = {} /\ {u \in Workers : pc[u] \in {"incOut"}} = {}
      /\ {u \in Workers : pc[u] \in TryingAt} = {}
  BY <1>1 DEF PushedAt, TryingAt
<1>3. Pushed = 0 /\ Popped = 0 /\ Trying = 0
  BY <1>2, FS_EmptySet DEF Pushed, Popped, Trying, At
<1>4. Len(queue) = 0 /\ \A c \in Counters : stats[c] = 0
  BY DEF Init
<1>5. stats \in [Counters -> Nat] /\ statsReset \in 0 .. Len(ResetOrder)
  BY DEF Init, ResetOrder
<1> QED BY <1>3, <1>4, <1>5 DEF QueueInv, Counters

\* A step of a request thread.
LEMMA RequesterMoves ==
  ASSUME NEW r \in Requesters, \A u \in Threads \ {r} : pc'[u] = pc[u]
  PROVE  /\ Pushed \in Nat /\ Pushed' \in Nat /\ Popped \in Nat /\ Trying \in Nat
         /\ Pushed' + One(pc[r], PushedAt) = Pushed + One(pc'[r], PushedAt)
         /\ UNCHANGED <<Popped, Trying>>
<1>1. \A w \in Workers : pc'[w] = pc[w]
  BY Parts
<1>2. UNCHANGED <<Popped, Trying>>
  BY <1>1, AtStays DEF Popped, Trying
<1>3. \A u \in Requesters \ {r} : pc'[u] = pc[u]
  BY Parts
<1>4. Popped \in Nat /\ Trying \in Nat
  BY NotificationsAssumption, FS_Subset, FS_CardinalityType DEF Popped, Trying, At
<1>5. /\ Pushed \in Nat /\ Pushed' \in Nat
      /\ Pushed' + One(pc[r], PushedAt) = Pushed + One(pc'[r], PushedAt)
  BY <1>3, AtMoves, NotificationsAssumption DEF Pushed
<1> QED BY <1>2, <1>4, <1>5

\* A step of a worker.
LEMMA WorkerMoves ==
  ASSUME NEW w \in Workers, \A u \in Threads \ {w} : pc'[u] = pc[u]
  PROVE  /\ Pushed \in Nat /\ Popped \in Nat /\ Popped' \in Nat /\ Trying \in Nat /\ Trying' \in Nat
         /\ Popped' + One(pc[w], {"incOut"}) = Popped + One(pc'[w], {"incOut"})
         /\ Trying' + One(pc[w], TryingAt) = Trying + One(pc'[w], TryingAt)
         /\ UNCHANGED Pushed
<1>1. \A r \in Requesters : pc'[r] = pc[r]
  BY Parts
<1>2. UNCHANGED Pushed
  BY <1>1, AtStays DEF Pushed
<1>3. \A u \in Workers \ {w} : pc'[u] = pc[u]
  BY Parts
<1>4. Pushed \in Nat
  BY NotificationsAssumption, FS_Subset, FS_CardinalityType DEF Pushed, At
<1>5. /\ Popped \in Nat /\ Popped' \in Nat /\ Trying \in Nat /\ Trying' \in Nat
      /\ Popped' + One(pc[w], {"incOut"}) = Popped + One(pc'[w], {"incOut"})
      /\ Trying' + One(pc[w], TryingAt) = Trying + One(pc'[w], TryingAt)
  BY <1>3, AtMoves, NotificationsAssumption DEF Popped, Trying
<1> QED BY <1>2, <1>4, <1>5

\* The steps of a request that do not concern the queue.
LEMMA RequestQueue ==
  ASSUME ThreadsInv, QueueInv, NEW r \in Requesters,
         \/ lmTransactionStart(r) \/ BadRequest(r) \/ GoodRequest(r) \/ dbOperation(r) \/ dbError(r) \/ dbErrorReset(r)
         \/ MalformedUrl(r) \/ pthread_create(r) \/ incReject(r)
  PROVE  QueueInv'
<1>1. /\ \A u \in Threads \ {r} : pc'[u] = pc[u]
      /\ pc[r] \notin PushedAt /\ pc'[r] \notin PushedAt
  BY Parts DEF lmTransactionStart, BadRequest, GoodRequest, dbOperation, dbError, dbErrorReset, MalformedUrl, pthread_create,
     incReject, Goto, PushedAt, ThreadsInv
<1>2. UNCHANGED <<Pushed, Popped, Trying>>
  BY <1>1, RequesterMoves DEF One
<1>3. UNCHANGED <<inst, queue, statsReset>>
  BY DEF lmTransactionStart, BadRequest, GoodRequest, dbOperation, dbError, dbErrorReset, MalformedUrl, pthread_create,
     incReject, queueVars
<1>4. UNCHANGED stats \/ stats' = [stats EXCEPT !["reject"] = @ + 1]
  BY DEF lmTransactionStart, BadRequest, GoodRequest, dbOperation, dbError, dbErrorReset, MalformedUrl, pthread_create,
     incReject, Inc
<1> QED BY <1>2, <1>3, <1>4 DEF QueueInv, Counters

\* An element is accepted, and counted later.
LEMMA PushQueue ==
  ASSUME ThreadsInv, QueueInv, NEW r \in Requesters, try_push(r) \/ incIn(r)
  PROVE  QueueInv'
<1>1. /\ \A u \in Threads \ {r} : pc'[u] = pc[u]
      /\ UNCHANGED <<inst, statsReset>>
  BY Parts DEF try_push, incIn, Goto, ThreadsInv
<1>2. /\ Len(queue) \in Nat
      /\ Pushed \in Nat /\ Pushed' \in Nat /\ Popped \in Nat /\ Trying \in Nat /\ Popped' = Popped /\ Trying' = Trying
      /\ stats["in"] \in Nat /\ stats["out"] \in Nat
  BY <1>1, RequesterMoves DEF ThreadsInv, QueueInv, Counters
<1>3. CASE try_push(r)
  <2>1. pc[r] = "send" /\ UNCHANGED stats
    BY <1>3 DEF try_push
  <2>2. CASE Len(queue) < MaxQ
    <3>1. pc'[r] = "notify_one" /\ queue' = Append(queue, note[r])
      BY <1>3, <2>2, Parts DEF try_push, ThreadsInv
    <3>2. Len(queue') = Len(queue) + 1
      BY <3>1, AppendProperties DEF ThreadsInv
    <3>3. Pushed' = Pushed + 1
      BY <1>1, <2>1, <3>1, RequesterMoves DEF One, PushedAt
    <3>4. stats["in"] + Pushed = stats["out"] + Len(queue) + Popped
            => stats'["in"] + Pushed' = stats'["out"] + Len(queue') + Popped'
      BY <1>2, <2>1, <3>2, <3>3
    <3> QED BY <1>1, <1>2, <2>1, <3>4 DEF QueueInv
  <2>3. CASE ~ (Len(queue) < MaxQ)
    <3>1. pc'[r] = "incReject" /\ UNCHANGED queue
      BY <1>3, <2>3, Parts DEF try_push, ThreadsInv
    <3>2. Pushed' = Pushed
      BY <1>1, <2>1, <3>1, RequesterMoves DEF One, PushedAt
    <3> QED BY <1>1, <2>1, <3>1, <3>2, RequesterMoves DEF QueueInv
  <2> QED BY <2>2, <2>3
<1>4. CASE incIn(r)
  <2>1. pc[r] = "incIn" /\ pc'[r] = "idle" /\ stats' = [stats EXCEPT !["in"] = @ + 1] /\ UNCHANGED queue
    BY <1>4, Parts DEF incIn, Goto, Inc, queueVars, ThreadsInv
  <2>2. Pushed = Pushed' + 1
    BY <1>1, <2>1, RequesterMoves DEF One, PushedAt
  <2>3. /\ stats' \in [Counters -> Nat] /\ stats'["in"] = stats["in"] + 1
        /\ \A c \in Counters \ {"in"} : stats'[c] = stats[c]
    BY <2>1 DEF QueueInv, Counters
  <2>4. stats["in"] + Pushed = stats["out"] + Len(queue) + Popped
          => stats'["in"] + Pushed' = stats["out"] + Len(queue) + Popped
    <3>1. stats'["in"] + Pushed' = stats["in"] + Pushed
      <4>1. stats["in"] \in Nat /\ Pushed \in Nat /\ Pushed' \in Nat
        BY <1>2
      <4>2. stats'["in"] = stats["in"] + 1
        BY <2>3
      <4> QED BY <2>2, <4>1, <4>2
    <3> QED BY <3>1
  <2> QED BY <1>1, <1>2, <2>1, <2>3, <2>4 DEF QueueInv, Counters
<1> QED BY <1>3, <1>4

\* Waking a worker counts nothing.
LEMMA WakeQueue ==
  ASSUME ThreadsInv, QueueInv, NEW r \in Requesters, notify_one(r)
  PROVE  QueueInv'
<1>1. /\ pc[r] = "notify_one" /\ UNCHANGED <<inst, queue, stats, statsReset>>
      /\ \/ pc' = [pc EXCEPT ![r] = "incIn"]
         \/ \E w \in Workers : pc[w] = "wait" /\ pc' = [pc EXCEPT ![r] = "incIn", ![w] = "pop"]
  BY DEF notify_one, queueVars
<1>2. /\ {u \in Requesters : pc'[u] \in PushedAt} = {u \in Requesters : pc[u] \in PushedAt}
      /\ {u \in Workers : pc'[u] \in {"incOut"}} = {u \in Workers : pc[u] \in {"incOut"}}
      /\ {u \in Workers : pc'[u] \in TryingAt} = {u \in Workers : pc[u] \in TryingAt}
  BY <1>1, Parts DEF PushedAt, TryingAt, ThreadsInv
<1>3. UNCHANGED <<Pushed, Popped, Trying>>
  BY <1>2 DEF Pushed, Popped, Trying, At
<1> QED BY <1>1, <1>3 DEF QueueInv

\* An element is taken, and counted later; it is tried, and counted later.
LEMMA WorkerQueue ==
  ASSUME ThreadsInv, QueueInv, NEW w \in Workers, WorkerStep(w) \/ SpuriousWakeup(w)
  PROVE  QueueInv'
<1>1. /\ \A u \in Threads \ {w} : pc'[u] = pc[u]
      /\ UNCHANGED <<inst, statsReset>>
  BY Parts DEF WorkerStep, pop, incOut, workerAttempt, performFailed, incSent, workerAlarm, SpuriousWakeup, Goto, ThreadsInv
<1>2. /\ Len(queue) \in Nat
      /\ Pushed \in Nat /\ Pushed' = Pushed
      /\ Popped \in Nat /\ Popped' \in Nat /\ Trying \in Nat /\ Trying' \in Nat
      /\ stats \in [Counters -> Nat] /\ statsReset \in 0 .. Len(ResetOrder)
  BY <1>1, WorkerMoves DEF ThreadsInv, QueueInv
<1>3. CASE pop(w) /\ queue # <<>>
  <2>1. pc[w] = "pop" /\ pc'[w] = "incOut" /\ queue' = Tail(queue) /\ UNCHANGED stats
    BY <1>3, Parts DEF pop, ThreadsInv
  <2>2. Len(queue) = Len(queue') + 1
    BY <1>2, <1>3, <2>1, HeadTailProperties DEF ThreadsInv
  <2>3. Popped' = Popped + 1 /\ Trying' = Trying
    BY <1>1, <2>1, WorkerMoves DEF One, TryingAt
  <2>4. Len(queue) + Popped = Len(queue') + Popped' /\ Len(queue') \in Nat
    BY <1>2, <2>2, <2>3, <2>1, HeadTailProperties, <1>3 DEF ThreadsInv
  <2>5. stats["out"] + Len(queue) + Popped = stats["out"] + Len(queue') + Popped'
    <3>1. stats["out"] \in Nat
      BY <1>2 DEF Counters
    <3>2. \A a, b, c, d, e \in Nat : b + c = d + e => a + b + c = a + d + e
      OBVIOUS
    <3> QED BY <1>2, <2>4, <3>1, <3>2
  <2> QED BY <1>1, <1>2, <2>1, <2>3, <2>5 DEF QueueInv
<1>4. CASE incOut(w)
  <2>1. pc[w] = "incOut" /\ pc'[w] = "attempt" /\ stats' = [stats EXCEPT !["out"] = @ + 1] /\ UNCHANGED queue
    BY <1>4, Parts DEF incOut, Goto, Inc, queueVars, ThreadsInv
  <2>2. Popped = Popped' + 1 /\ Trying' = Trying + 1
    BY <1>1, <2>1, WorkerMoves DEF One, TryingAt
  <2>3. /\ stats' \in [Counters -> Nat] /\ stats'["out"] = stats["out"] + 1
        /\ \A c \in Counters \ {"out"} : stats'[c] = stats[c]
    BY <1>2, <2>1 DEF Counters
  <2>4. stats["out"] + Len(queue) + Popped = stats'["out"] + Len(queue) + Popped'
    BY <1>2, <2>2, <2>3 DEF Counters
  <2>5. stats["out"] = stats["sentOK"] + stats["sentError"] + Trying
          => stats'["out"] = stats["sentOK"] + stats["sentError"] + Trying'
    BY <1>2, <2>2, <2>3 DEF Counters
  <2> QED BY <1>1, <1>2, <2>1, <2>3, <2>4, <2>5 DEF QueueInv, Counters
<1>5. CASE incSent(w)
  <2>1. PICK c \in {"sentOK", "sentError"} : stats' = [stats EXCEPT ![c] = @ + 1]
    BY <1>5 DEF incSent, Inc
  <2>2. pc[w] \in {"sent", "refused"} /\ pc'[w] \in {"reset", "raise"} /\ UNCHANGED queue
    BY <1>5, Parts DEF incSent, Goto, queueVars, ThreadsInv
  <2>3. Popped' = Popped /\ Trying = Trying' + 1
    BY <1>1, <2>2, WorkerMoves DEF One, TryingAt
  <2>4. /\ stats' \in [Counters -> Nat] /\ stats'["in"] = stats["in"] /\ stats'["out"] = stats["out"]
        /\ stats'["sentOK"] + stats'["sentError"] = stats["sentOK"] + stats["sentError"] + 1
    BY <1>2, <2>1 DEF Counters
  <2>5. stats["sentOK"] + stats["sentError"] + Trying = stats'["sentOK"] + stats'["sentError"] + Trying'
    BY <1>2, <2>3, <2>4 DEF Counters
  <2> QED BY <1>1, <1>2, <2>2, <2>3, <2>4, <2>5 DEF QueueInv
<1>6. CASE workerAttempt(w) \/ performFailed(w) \/ workerAlarm(w) \/ SpuriousWakeup(w) \/ (pop(w) /\ queue = <<>>)
  <2>1. /\ UNCHANGED <<queue, stats>> /\ pc[w] # "incOut" /\ pc'[w] # "incOut"
        /\ ~inst.simulated => (pc[w] \in TryingAt <=> pc'[w] \in TryingAt)
    BY <1>6, Parts DEF pop, workerAttempt, performFailed, workerAlarm, SpuriousWakeup, Results, Goto, queueVars, TryingAt, ThreadsInv
  <2>2. Popped' = Popped
    <3>1. Popped' + One(pc[w], {"incOut"}) = Popped + One(pc'[w], {"incOut"})
      BY <1>1, WorkerMoves
    <3>2. One(pc[w], {"incOut"}) = 0 /\ One(pc'[w], {"incOut"}) = 0
      BY <2>1 DEF One
    <3> QED BY <1>2, <3>1, <3>2
  <2>3. ~inst.simulated => Trying' = Trying
    <3> SUFFICES ASSUME ~inst.simulated PROVE Trying' = Trying
      OBVIOUS
    <3>1. Trying' + One(pc[w], TryingAt) = Trying + One(pc'[w], TryingAt)
      BY <1>1, WorkerMoves
    <3>2. One(pc[w], TryingAt) \in {0, 1} /\ One(pc'[w], TryingAt) = One(pc[w], TryingAt)
      BY <2>1 DEF One
    <3> QED BY <1>2, <3>1, <3>2
  <2> QED BY <1>1, <1>2, <2>1, <2>2, <2>3 DEF QueueInv
<1> QED BY <1>3, <1>4, <1>5, <1>6 DEF WorkerStep

\* The counters, over all steps.
LEMMA QueueNext ==
  ASSUME ThreadsInv, QueueInv, [Next]_vars
  PROVE  QueueInv'
<1>1. ASSUME NEW r \in Requesters, lmTransactionStart(r) \/ RequestStep(r) PROVE QueueInv'
  BY <1>1, RequestQueue, PushQueue, WakeQueue DEF RequestStep
<1>2. ASSUME NEW w \in Workers, WorkerStep(w) \/ SpuriousWakeup(w) PROVE QueueInv'
  BY <1>2, WorkerQueue
<1>3. ASSUME UNCHANGED <<inst, pc, queue, stats, statsReset>> PROVE QueueInv'
  <2>1. UNCHANGED <<Pushed, Popped, Trying>>
    BY <1>3, AtStays DEF Pushed, Popped, Trying
  <2> QED BY <1>3, <2>1 DEF QueueInv
<1>4. ASSUME NEW s \in senders, senderAttempt(s) \/ senderAlarm(s) PROVE QueueInv'
  BY <1>3, <1>4 DEF senderAttempt, senderAlarm, queueVars
<1>5. CASE reset
  <2>1. /\ statsReset < Len(ResetOrder) /\ statsReset' = statsReset + 1
        /\ stats' = [stats EXCEPT ![ResetOrder[statsReset']] = 0]
    BY <1>5 DEF reset
  <2>2. statsReset' \in 0 .. Len(ResetOrder) /\ statsReset' # 0
    BY <2>1 DEF QueueInv, ResetOrder
  <2>3. stats' \in [Counters -> Nat]
    BY <2>1 DEF QueueInv
  <2> QED BY <2>2, <2>3 DEF QueueInv
<1>6. CASE logSummaryTransactions \/ logSummaryAlarms \/ UNCHANGED vars
  BY <1>3, <1>6 DEF logSummaryTransactions, logSummaryAlarms, vars, queueVars
<1> QED BY <1>1, <1>2, <1>4, <1>5, <1>6 DEF Next

\* The counters of QueueStatistics add up at any time until they are reset, for
\* any number of threads, although every thread counts outside the lock of the
\* queue; and the summary of the log counts the transactions of its period.
THEOREM NotificationsCountersAddUp == Spec => []CountersAddUp
<1>1. QueueInv /\ TurnInv => CountersAddUp
  BY DEF QueueInv, TurnInv, CountersAddUp, Pushed, Popped, Trying, PushedAt, TryingAt
<1>2. ThreadsInv /\ [Next]_vars => ThreadsInv'
  BY ThreadsNext
<1>3. ThreadsInv /\ QueueInv /\ [Next]_vars => QueueInv'
  BY QueueNext
<1>4. TurnInv /\ [Next]_vars => TurnInv'
  BY TurnNext
<1> QED BY <1>1, <1>2, <1>3, <1>4, ThreadsInit, QueueInit, TurnInit, PTL DEF Spec

-----------------------------------------------------------------------------
(* The alarms.                                                             *)

AlarmFields == {"dbOk", "dbErrors", "dbErrorResets", "notificationV", "notificationErrors", "notificationErrorResets",
                "badInputV", "badInputs", "badInputResets"}

\* As many active alarms of a kind as were raised and not released.
Balanced(a) ==
  /\ DOMAIN a = AlarmFields
  /\ a.notificationErrors \in Nat /\ a.notificationErrorResets \in Nat /\ a.badInputs \in Nat /\ a.badInputResets \in Nat
  /\ IsFiniteSet(a.notificationV) /\ IsFiniteSet(a.badInputV)
  /\ Cardinality(a.notificationV) = a.notificationErrors - a.notificationErrorResets
  /\ Cardinality(a.badInputV) = a.badInputs - a.badInputResets

\* No alarm, nothing raised.
LEMMA InitBalanced == Balanced(AlarmInit)
BY FS_EmptySet DEF Balanced, AlarmInit, AlarmFields

\* The alarm of the database has nothing to do with the others.
LEMMA DbBalanced ==
  ASSUME NEW a, Balanced(a)
  PROVE  /\ Balanced(DbErrorSet(a)) /\ Balanced(DbErrorResetSet(a))
         /\ DbErrorSet(a).notificationV = a.notificationV
         /\ DbErrorResetSet(a).notificationV = a.notificationV
BY DEF Balanced, DbErrorSet, DbErrorResetSet, AlarmFields

\* The alarm of a receiver is raised once ...
LEMMA RaiseBalanced ==
  ASSUME NEW a, Balanced(a), NEW url
  PROVE  /\ Balanced(NotificationError(a, url))
         /\ NotificationError(a, url).notificationV = a.notificationV \cup {url}
<1>1. CASE url \in a.notificationV
  BY <1>1 DEF NotificationError
<1>2. CASE url \notin a.notificationV
  <2>1. NotificationError(a, url) = [a EXCEPT !.notificationErrors = @ + 1, !.notificationV = @ \cup {url}]
    BY <1>2 DEF NotificationError
  <2>2. PICK b : b = [a EXCEPT !.notificationErrors = @ + 1, !.notificationV = @ \cup {url}]
    OBVIOUS
  <2>3. /\ DOMAIN b = AlarmFields /\ b.notificationV = a.notificationV \cup {url}
        /\ b.notificationErrors = a.notificationErrors + 1 /\ b.notificationErrorResets = a.notificationErrorResets
        /\ b.badInputV = a.badInputV /\ b.badInputs = a.badInputs /\ b.badInputResets = a.badInputResets
    BY <2>2 DEF Balanced, AlarmFields
  <2>4. IsFiniteSet(b.notificationV) /\ Cardinality(b.notificationV) = Cardinality(a.notificationV) + 1
    <3>1. IsFiniteSet(a.notificationV)
      BY DEF Balanced
    <3>2. IsFiniteSet(a.notificationV \cup {url}) /\ Cardinality(a.notificationV \cup {url}) = Cardinality(a.notificationV) + 1
      BY <1>2, <3>1, FS_AddElement
    <3> QED BY <2>3, <3>2
  <2>5. a.notificationErrors \in Nat /\ a.notificationErrorResets \in Nat
    BY DEF Balanced, AlarmFields
  <2>6. Cardinality(b.notificationV) = b.notificationErrors - b.notificationErrorResets
    BY <2>3, <2>4, <2>5 DEF Balanced
  <2> QED BY <2>1, <2>2, <2>3, <2>4, <2>5, <2>6 DEF Balanced
<1> QED BY <1>1, <1>2

\* ... and released once.
LEMMA ReleaseBalanced ==
  ASSUME NEW a, Balanced(a), NEW url
  PROVE  /\ Balanced(NotificationErrorReset(a, url))
         /\ NotificationErrorReset(a, url).notificationV = a.notificationV \ {url}
<1>1. CASE url \notin a.notificationV
  BY <1>1 DEF NotificationErrorReset
<1>2. CASE url \in a.notificationV
  <2>1. NotificationErrorReset(a, url) = [a EXCEPT !.notificationErrorResets = @ + 1, !.notificationV = @ \ {url}]
    BY <1>2 DEF NotificationErrorReset
  <2>2. PICK b : b = [a EXCEPT !.notificationErrorResets = @ + 1, !.notificationV = @ \ {url}]
    OBVIOUS
  <2>3. /\ DOMAIN b = AlarmFields /\ b.notificationV = a.notificationV \ {url}
        /\ b.notificationErrors = a.notificationErrors /\ b.notificationErrorResets = a.notificationErrorResets + 1
        /\ b.badInputV = a.badInputV /\ b.badInputs = a.badInputs /\ b.badInputResets = a.badInputResets
    BY <2>2 DEF Balanced, AlarmFields
  <2>4. IsFiniteSet(b.notificationV) /\ Cardinality(b.notificationV) = Cardinality(a.notificationV) - 1
    BY <1>2, <2>3, FS_RemoveElement DEF Balanced
  <2>5. a.notificationErrors \in Nat /\ a.notificationErrorResets \in Nat
    BY DEF Balanced, AlarmFields
  <2>6. Cardinality(b.notificationV) = b.notificationErrors - b.notificationErrorResets
    BY <2>3, <2>4, <2>5 DEF Balanced
  <2> QED BY <2>1, <2>2, <2>3, <2>4, <2>5, <2>6 DEF Balanced
<1> QED BY <1>1, <1>2

\* The same for the alarm of a client.
LEMMA BadInputBalanced ==
  ASSUME NEW a, Balanced(a), NEW ip
  PROVE  /\ Balanced(BadInput(a, ip)) /\ Balanced(BadInputReset(a, ip))
         /\ BadInput(a, ip).notificationV = a.notificationV
         /\ BadInputReset(a, ip).notificationV = a.notificationV
<1>0. a.badInputs \in Nat /\ a.badInputResets \in Nat
  BY DEF Balanced, AlarmFields
<1>1. CASE ip \notin a.badInputV
  <2>1. /\ BadInput(a, ip) = [a EXCEPT !.badInputs = @ + 1, !.badInputV = @ \cup {ip}]
        /\ BadInputReset(a, ip) = a
    BY <1>1 DEF BadInput, BadInputReset
  <2>2. PICK b : b = [a EXCEPT !.badInputs = @ + 1, !.badInputV = @ \cup {ip}]
    OBVIOUS
  <2>3. /\ DOMAIN b = AlarmFields /\ b.badInputV = a.badInputV \cup {ip}
        /\ b.badInputs = a.badInputs + 1 /\ b.badInputResets = a.badInputResets
        /\ b.notificationV = a.notificationV /\ b.notificationErrors = a.notificationErrors
        /\ b.notificationErrorResets = a.notificationErrorResets
    BY <2>2 DEF Balanced, AlarmFields
  <2>4. IsFiniteSet(b.badInputV) /\ Cardinality(b.badInputV) = Cardinality(a.badInputV) + 1
    <3>1. IsFiniteSet(a.badInputV)
      BY DEF Balanced
    <3>2. IsFiniteSet(a.badInputV \cup {ip}) /\ Cardinality(a.badInputV \cup {ip}) = Cardinality(a.badInputV) + 1
      BY <1>1, <3>1, FS_AddElement
    <3> QED BY <2>3, <3>2
  <2>5. Cardinality(b.badInputV) = b.badInputs - b.badInputResets
    BY <1>0, <2>3, <2>4 DEF Balanced
  <2> QED BY <2>1, <2>2, <2>3, <2>4, <2>5 DEF Balanced
<1>2. CASE ip \in a.badInputV
  <2>1. /\ BadInputReset(a, ip) = [a EXCEPT !.badInputResets = @ + 1, !.badInputV = @ \ {ip}]
        /\ BadInput(a, ip) = a
    BY <1>2 DEF BadInput, BadInputReset
  <2>2. PICK b : b = [a EXCEPT !.badInputResets = @ + 1, !.badInputV = @ \ {ip}]
    OBVIOUS
  <2>3. /\ DOMAIN b = AlarmFields /\ b.badInputV = a.badInputV \ {ip}
        /\ b.badInputs = a.badInputs /\ b.badInputResets = a.badInputResets + 1
        /\ b.notificationV = a.notificationV /\ b.notificationErrors = a.notificationErrors
        /\ b.notificationErrorResets = a.notificationErrorResets
    BY <2>2 DEF Balanced, AlarmFields
  <2>4. IsFiniteSet(b.badInputV) /\ Cardinality(b.badInputV) = Cardinality(a.badInputV) - 1
    BY <1>2, <2>3, FS_RemoveElement DEF Balanced
  <2>5. Cardinality(b.badInputV) = b.badInputs - b.badInputResets
    BY <1>0, <2>3, <2>4 DEF Balanced
  <2> QED BY <2>1, <2>2, <2>3, <2>4, <2>5 DEF Balanced
<1> QED BY <1>1, <1>2

\* The invariant of the alarms: they balance, now and in the summary.
AlarmInv == Balanced(alarms) /\ Balanced(summary.alarms)

\* The alarm of a receiver that the last notification reached is off.
DeliveryInv == \A u \in Urls : outcome[u] = "sent" => \A k \in alarms.notificationV : k[2] # u

\* The keys of the sender and of curl are keys of receivers.
LEMMA KeysOfUrls ==
  ASSUME NEW u \in Urls
  PROVE  /\ SenderUrl(u) \in Keys /\ SenderUrl(u)[2] = u /\ CurlUrl(u) \in Keys /\ CurlUrl(u)[2] = u
         /\ ~ UseRush /\ Ipv6 = {} => CurlUrl(u) = SenderUrl(u)
BY DEF SenderUrl, CurlUrl, Keys

\* The steps of a request: no alarm of a receiver comes or goes.
LEMMA RequestAlarms ==
  ASSUME AlarmInv, NEW r \in Requesters, lmTransactionStart(r) \/ RequestStep(r)
  PROVE  AlarmInv' /\ alarms'.notificationV = alarms.notificationV /\ UNCHANGED outcome
<1>1. UNCHANGED <<summary, outcome>>
  BY DEF lmTransactionStart, RequestStep, BadRequest, GoodRequest, dbOperation, dbError, dbErrorReset, MalformedUrl, try_push,
     notify_one, incIn, incReject, pthread_create
<1>2. \/ UNCHANGED alarms \/ alarms' = BadInput(alarms, r) \/ alarms' = BadInputReset(alarms, r)
      \/ alarms' = DbErrorSet(alarms) \/ alarms' = DbErrorResetSet(alarms)
  BY DEF lmTransactionStart, RequestStep, BadRequest, GoodRequest, dbOperation, dbError, dbErrorReset, MalformedUrl, try_push,
     notify_one, incIn, incReject, pthread_create, badInput, alarmVars
<1>3. Balanced(alarms) /\ Balanced(summary.alarms)
  BY DEF AlarmInv
<1>4. Balanced(alarms') /\ alarms'.notificationV = alarms.notificationV
  BY <1>2, <1>3, BadInputBalanced, DbBalanced
<1> QED BY <1>1, <1>3, <1>4 DEF AlarmInv

\* The alarm of a receiver is raised with an attempt that fails, and released
\* with one that works.
Attempted(u, k) ==
  \/ /\ alarms' = NotificationErrorReset(alarms, SenderUrl(u))
     /\ outcome' = [outcome EXCEPT ![u] = "sent"]
  \/ /\ alarms' = NotificationError(alarms, k)
     /\ outcome' = [outcome EXCEPT ![u] = "failed"]

\* What a thread that sends does to the alarms.
LEMMA SenderAlarms ==
  ASSUME ThreadsInv, [Next]_vars, ~ UNCHANGED <<alarms, outcome>>,
         ~ \E r \in Requesters : lmTransactionStart(r) \/ RequestStep(r)
  PROVE  \E u \in Urls : \E k \in {SenderUrl(u), CurlUrl(u)} : Attempted(u, k) /\ UNCHANGED summary
<1>1. ASSUME NEW w \in Workers, WorkerStep(w) \/ SpuriousWakeup(w)
      PROVE  \E u \in Urls : \E k \in {SenderUrl(u), CurlUrl(u)} : Attempted(u, k) /\ UNCHANGED summary
  <2>1. performFailed(w) \/ workerAlarm(w)
    BY <1>1 DEF WorkerStep, pop, incOut, workerAttempt, incSent, SpuriousWakeup, alarmVars
  <2>2. pc[w] \in Carrying /\ UNCHANGED summary
    BY <2>1 DEF performFailed, workerAlarm, Goto, Carrying
  <2>3. note[w].url \in Urls
    BY <2>2 DEF ThreadsInv, Sendable
  <2>4. \E k \in {SenderUrl(note[w].url), CurlUrl(note[w].url)} : Attempted(note[w].url, k)
    BY <2>1 DEF performFailed, workerAlarm, Attempted
  <2> QED BY <2>2, <2>3, <2>4
<1>2. ASSUME NEW s \in senders, senderAttempt(s) \/ senderAlarm(s)
      PROVE  \E u \in Urls : \E k \in {SenderUrl(u), CurlUrl(u)} : Attempted(u, k) /\ UNCHANGED summary
  <2>1. senderAlarm(s) /\ UNCHANGED summary
    BY <1>2 DEF senderAttempt, senderAlarm, alarmVars
  <2>2. s.note.url \in Urls
    BY DEF ThreadsInv, Sendable
  <2>3. \E k \in {SenderUrl(s.note.url), CurlUrl(s.note.url)} : Attempted(s.note.url, k)
    BY <2>1 DEF senderAlarm, Attempted
  <2> QED BY <2>1, <2>2, <2>3
<1>3. ~ (reset \/ logSummaryTransactions \/ logSummaryAlarms \/ UNCHANGED vars)
  BY DEF reset, logSummaryTransactions, logSummaryAlarms, vars, alarmVars
<1> QED BY <1>1, <1>2, <1>3 DEF Next

\* The alarms balance after every step.
LEMMA AlarmNext ==
  ASSUME ThreadsInv, TurnInv, AlarmInv, [Next]_vars
  PROVE  AlarmInv'
<1>1. CASE \E r \in Requesters : lmTransactionStart(r) \/ RequestStep(r)
  BY <1>1, RequestAlarms
<1>2. CASE ~ UNCHANGED <<alarms, outcome>> /\ ~ \E r \in Requesters : lmTransactionStart(r) \/ RequestStep(r)
  <2>1. PICK u \in Urls : \E k \in {SenderUrl(u), CurlUrl(u)} : Attempted(u, k) /\ UNCHANGED summary
    BY <1>2, SenderAlarms
  <2>2. Balanced(alarms')
    BY <2>1, RaiseBalanced, ReleaseBalanced DEF Attempted, AlarmInv
  <2> QED BY <2>1, <2>2 DEF AlarmInv
<1>3. CASE UNCHANGED <<alarms, outcome>> /\ ~ \E r \in Requesters : lmTransactionStart(r) \/ RequestStep(r)
  <2>1. summary'.alarms \in {summary.alarms, alarms}
    <3>1. CASE logSummaryTransactions \/ logSummaryAlarms
      BY <3>1 DEF logSummaryTransactions, logSummaryAlarms, TurnInv, SummaryFields
    <3>2. CASE UNCHANGED summary
      BY <3>2
    <3>3. logSummaryTransactions \/ logSummaryAlarms \/ UNCHANGED summary
      BY <1>3 DEF Next, WorkerStep, pop, incOut, workerAttempt, performFailed, incSent, workerAlarm, SpuriousWakeup, senderAttempt,
         senderAlarm, reset, vars
    <3> QED BY <3>1, <3>2, <3>3
  <2> QED BY <1>3, <2>1 DEF AlarmInv
<1> QED BY <1>1, <1>2, <1>3

\* Without rush and without IPv6 receivers, an alarm has one key, and the
\* thread that delivers releases it.
HostKeys == alarms.notificationV \subseteq {SenderUrl(u) : u \in Urls}

\* Every step keeps that.
LEMMA DeliveryNext ==
  ASSUME ~ UseRush, Ipv6 = {}, ThreadsInv, AlarmInv, HostKeys, DeliveryInv, outcome \in [Urls -> {"none", "sent", "failed"}],
         [Next]_vars
  PROVE  HostKeys' /\ DeliveryInv' /\ outcome' \in [Urls -> {"none", "sent", "failed"}]
<1>1. CASE \E r \in Requesters : lmTransactionStart(r) \/ RequestStep(r)
  BY <1>1, RequestAlarms DEF HostKeys, DeliveryInv
<1>2. CASE ~ UNCHANGED <<alarms, outcome>> /\ ~ \E r \in Requesters : lmTransactionStart(r) \/ RequestStep(r)
  <2>1. PICK u \in Urls : \E k \in {SenderUrl(u), CurlUrl(u)} : Attempted(u, k)
    BY <1>2, SenderAlarms
  <2>2. Attempted(u, SenderUrl(u))
    BY <2>1, KeysOfUrls
  <2>3. \/ alarms'.notificationV = alarms.notificationV \ {SenderUrl(u)} /\ outcome' = [outcome EXCEPT ![u] = "sent"]
        \/ alarms'.notificationV = alarms.notificationV \cup {SenderUrl(u)} /\ outcome' = [outcome EXCEPT ![u] = "failed"]
    BY <2>2, RaiseBalanced, ReleaseBalanced DEF Attempted, AlarmInv
  <2>4. HostKeys'
    BY <2>3 DEF HostKeys
  <2>5. \A v \in Urls : SenderUrl(v)[2] = v
    BY KeysOfUrls
  <2>6. DeliveryInv'
    BY <2>3, <2>5 DEF HostKeys, DeliveryInv
  <2> QED BY <2>3, <2>4, <2>6
<1> QED BY <1>1, <1>2 DEF HostKeys, DeliveryInv

OutcomeType == outcome \in [Urls -> {"none", "sent", "failed"}]

\* At the start no alarm is on.
LEMMA AlarmsAtStart == Init => AlarmInv /\ HostKeys /\ DeliveryInv /\ OutcomeType
<1> SUFFICES ASSUME Init PROVE AlarmInv /\ HostKeys /\ DeliveryInv /\ OutcomeType
  OBVIOUS
<1>1. alarms = AlarmInit /\ summary.alarms = AlarmInit /\ AlarmInit.notificationV = {}
  BY DEF Init, AlarmInit
<1>2. outcome = [u \in Urls |-> "none"]
  BY DEF Init
<1> QED BY <1>1, <1>2, InitBalanced DEF AlarmInv, HostKeys, DeliveryInv, OutcomeType

\* At any time the alarms of a kind that are on are those raised and not
\* released, in the alarm manager and in the copy of the summary.
AlarmsBalance ==
  \A a \in {alarms, summary.alarms} :
    /\ Cardinality(a.notificationV) = a.notificationErrors - a.notificationErrorResets
    /\ Cardinality(a.badInputV) = a.badInputs - a.badInputResets

\* The balance of the alarm manager holds for every command line, with rush and
\* with IPv6 receivers too, where the alarm of a receiver has two keys.
THEOREM NotificationsAlarmsBalance == Spec => []AlarmsBalance
<1>1. AlarmInv => AlarmsBalance
  BY DEF AlarmInv, Balanced, AlarmsBalance
<1>2. ThreadsInv /\ [Next]_vars => ThreadsInv'
  BY ThreadsNext
<1>3. TurnInv /\ [Next]_vars => TurnInv'
  BY TurnNext
<1>4. ThreadsInv /\ TurnInv /\ AlarmInv /\ [Next]_vars => AlarmInv'
  BY AlarmNext
<1> QED BY <1>1, <1>2, <1>3, <1>4, ThreadsInit, TurnInit, AlarmsAtStart, PTL DEF Spec

\* Without rush and without IPv6 receivers the alarm of a receiver is off from
\* the moment a thread of the pool, or one of its own, reports that a
\* notification reached it, whichever thread raised it.
THEOREM NotificationsAlarmsFollowDelivery ==
  ASSUME ~ UseRush, Ipv6 = {}
  PROVE  Spec => []AlarmsFollowDelivery
<1>1. AlarmInv /\ DeliveryInv => AlarmsFollowDelivery
  BY DEF AlarmInv, Balanced, DeliveryInv, AlarmsFollowDelivery
<1>2. ThreadsInv /\ [Next]_vars => ThreadsInv'
  BY ThreadsNext
<1>3. TurnInv /\ [Next]_vars => TurnInv'
  BY TurnNext
<1>4. ThreadsInv /\ TurnInv /\ AlarmInv /\ [Next]_vars => AlarmInv'
  BY AlarmNext
<1>5. ThreadsInv /\ AlarmInv /\ HostKeys /\ DeliveryInv /\ OutcomeType /\ [Next]_vars => HostKeys' /\ DeliveryInv' /\ OutcomeType'
  BY DeliveryNext DEF OutcomeType
<1> QED BY <1>1, <1>2, <1>3, <1>4, <1>5, ThreadsInit, TurnInit, AlarmsAtStart, PTL DEF Spec
=============================================================================
