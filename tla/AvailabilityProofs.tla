------------------------- MODULE AvailabilityProofs -------------------------
(***************************************************************************)
(* The promises to the subscribers of NGSI9, for any threads, requests and *)
(* clock: the counters of the notifications, that no notification is sent  *)
(* for a subscription that is gone, and that a subscriber knows all the    *)
(* providers a discovery would find.                                       *)
(***************************************************************************)
EXTENDS Availability, FiniteSetTheorems, WellFoundedInduction, TLAPS

Registering == {"findRegistration", "triggered", "store"}
Places == {"idle", "insert", "findSubscription", "updateSubscription", "unsubscribe", "registrations", "count"} \cup Registering

OpFields  == {"req", "id", "ix", "ens", "subs", "read"}
SubFields == {"entities", "attrs", "expiration", "count"}
IsSub(d)  == DOMAIN d = SubFields /\ d.count \in Nat /\ d.expiration \in Nat

\* What a thread has in its hands, by how far it has come.
OpType(t) ==
  /\ DOMAIN op[t] = OpFields
  /\ op[t].req \in Requests
  /\ DOMAIN op[t].subs \subseteq 1 .. requests
  /\ pc[t] \in Registering => op[t].req.kind \in {"register", "notify"}
  /\ pc[t] = "insert" => op[t].req.kind = "subscribe" /\ op[t].id \in 1 .. requests
  /\ pc[t] = "findSubscription" => op[t].req.kind \in {"updateSubscription", "unsubscribe"}
  /\ pc[t] = "updateSubscription" => /\ op[t].req.kind = "updateSubscription"
                                     /\ op[t].id \in 1 .. requests /\ IsSub(op[t].read)
  /\ pc[t] = "count" => DOMAIN op[t].subs # {}

TypeInv ==
  /\ inst \in Configurations
  /\ now \in Nat /\ requests \in Nat /\ requests =< MaxRequests
  /\ notices \in [Ids -> Nat]
  /\ pc \in [Threads -> Places]
  /\ DOMAIN op = Threads
  /\ DOMAIN casubs \subseteq 1 .. requests
  /\ \A s \in DOMAIN casubs : IsSub(casubs[s])
  /\ \A t \in Threads : pc[t] # "idle" => OpType(t)

\* Where the operations that write are serialised, the thread at work has the
\* semaphore, and what it has read is still what is stored.
SerialInv ==
  Exclusive => \A t \in Threads : pc[t] # "idle" =>
    /\ semaphore = t
    /\ DOMAIN op[t].subs \subseteq DOMAIN casubs
    /\ pc[t] = "insert" => op[t].id \notin DOMAIN casubs /\ notices[op[t].id] = 0
    /\ pc[t] = "updateSubscription" => op[t].id \in DOMAIN casubs /\ op[t].read = casubs[op[t].id]

\* The threads that have sent a notification and not yet counted it.
Counting(s) == {t \in Threads : pc[t] = "count" /\ CurrentSub(t) = s}
Pending(s)  == Cardinality(Counting(s))

\* What is counted and what is still to be counted has been sent.
CountInv ==
  /\ \A s \in Ids : s > requests => notices[s] = 0
  /\ \A s \in Ids : Pending(s) <= notices[s]
  /\ \A s \in DOMAIN casubs :
       /\ casubs[s].count + Pending(s) <= notices[s]
       /\ Exclusive /\ ~inst.dbFails => casubs[s].count + Pending(s) = notices[s]
  /\ \A t \in Threads : pc[t] = "updateSubscription" =>
       op[t].read.count + Pending(op[t].id) <= notices[op[t].id]

Inv == TypeInv /\ SerialInv /\ CountInv

\* A step of t is a step of t alone.
OthersStay(t) == \A u \in Threads \ {t} : pc'[u] = pc[u] /\ op'[u] = op[u]

-----------------------------------------------------------------------------
(* The operators of the model.                                             *)

\* The provers that try a step, in this order.
USE ZenonT(6), SMTT(15)

\* A set of ids has a first one.
LEMMA FirstIsIn ==
  ASSUME NEW S, S \subseteq Nat, S # {}
  PROVE  First(S) \in S
<1>1. \E x \in S : \A y \in S : ~ (<<y, x>> \in OpToRel(<, Nat))
  BY NatLessThanWellFounded, WFMin
<1>2. \A x, y \in Nat : ~ (<<y, x>> \in OpToRel(<, Nat)) => x <= y
  BY DEF OpToRel
<1>3. \E x \in S : \A y \in S : x <= y
  BY <1>1, <1>2
<1> QED BY <1>3 DEF First

-----------------------------------------------------------------------------
(* Types.                                                                  *)

\* At the start there is nothing.
LEMMA TypeInit == Init => TypeInv
<1> SUFFICES ASSUME Init PROVE TypeInv
  OBVIOUS
<1>1. casubs = <<>> /\ DOMAIN casubs = {}
  BY DEF Init
<1> QED BY <1>1, AvailabilityAssumption DEF Init, TypeInv, Places

\* What a step of one thread must leave well-typed.
LEMMA TypeFrame ==
  ASSUME TypeInv, NEW t \in Threads, OthersStay(t), inst' = inst, now' = now, requests' = requests,
         notices' \in [Ids -> Nat], DOMAIN casubs' \subseteq 1 .. requests,
         \A s \in DOMAIN casubs' : IsSub(casubs'[s]),
         pc' \in [Threads -> Places], DOMAIN op' = Threads, pc'[t] # "idle" => OpType(t)'
  PROVE  TypeInv'
<1>1. ASSUME NEW u \in Threads \ {t}, pc'[u] # "idle" PROVE OpType(u)'
  <2>1. OpType(u) /\ pc'[u] = pc[u] /\ op'[u] = op[u]
    BY <1>1 DEF TypeInv, OthersStay
  <2> QED BY <2>1 DEF OpType
<1> QED BY <1>1 DEF TypeInv

\* The threads that have notifications to count, and how many they are.
LEMMA CountingFinite ==
  ASSUME NEW s
  PROVE  IsFiniteSet(Counting(s)) /\ Pending(s) \in Nat
<1>1. IsFiniteSet(Threads) /\ Counting(s) \subseteq Threads
  BY AvailabilityAssumption DEF Counting
<1>2. IsFiniteSet(Counting(s))
  BY <1>1, FS_Subset
<1> QED BY <1>2, FS_CardinalityType DEF Pending

\* A step that neither sends nor counts a notification.
LEMMA PendingSame ==
  ASSUME TypeInv, NEW t \in Threads, OthersStay(t), pc[t] # "count", pc'[t] # "count", NEW s
  PROVE  Pending(s)' = Pending(s)
<1>1. Counting(s)' = Counting(s)
  BY DEF Counting, OthersStay, CurrentSub
<1> QED BY <1>1 DEF Pending

\* What such a step must leave countable.
LEMMA CountFrame ==
  ASSUME TypeInv, CountInv, NEW t \in Threads, OthersStay(t), pc[t] # "count", pc'[t] # "count",
         inst' = inst, notices' = notices, requests' \in {requests, requests + 1},
         \A s \in DOMAIN casubs' : \/ s \in DOMAIN casubs /\ casubs'[s].count = casubs[s].count
                                  \/ /\ casubs'[s].count + Pending(s) <= notices[s]
                                     /\ Exclusive /\ ~inst.dbFails => casubs'[s].count + Pending(s) = notices[s],
         pc'[t] = "updateSubscription" => op'[t].read.count + Pending(op'[t].id) <= notices[op'[t].id]
  PROVE  CountInv'
<1>1. \A s : Pending(s)' = Pending(s)
  BY PendingSame
<1>2. \A s \in Ids : (s > requests => notices[s] = 0)'
  BY DEF CountInv, Ids, TypeInv
<1>3. \A s \in Ids : (Pending(s) <= notices[s])'
  BY <1>1 DEF CountInv
<1>4. ASSUME NEW s \in DOMAIN casubs'
      PROVE (/\ casubs[s].count + Pending(s) <= notices[s]
             /\ Exclusive /\ ~inst.dbFails => casubs[s].count + Pending(s) = notices[s])'
  BY <1>1 DEF CountInv, Exclusive
<1>5. ASSUME NEW u \in Threads, pc'[u] = "updateSubscription"
      PROVE (op[u].read.count + Pending(op[u].id) <= notices[op[u].id])'
  <2>1. CASE u = t
    BY <1>1, <1>5, <2>1
  <2>2. CASE u # t
    <3>1. pc'[u] = pc[u] /\ op'[u] = op[u]
      BY <2>2 DEF OthersStay
    <3>2. op[u].read.count + Pending(op[u].id) <= notices[op[u].id]
      BY <1>5, <3>1 DEF CountInv
    <3> QED BY <1>1, <3>1, <3>2
  <2> QED BY <2>1, <2>2
<1> QED BY <1>2, <1>3, <1>4, <1>5 DEF CountInv

\* What a step of a thread at work must leave for itself: nobody else is at work.
LEMMA SerialFrame ==
  ASSUME TypeInv, SerialInv, NEW t \in Threads, OthersStay(t), pc[t] # "idle", inst' = inst,
         Exclusive /\ pc'[t] # "idle" =>
           /\ semaphore' = semaphore
           /\ DOMAIN op'[t].subs \subseteq DOMAIN casubs'
           /\ pc'[t] # "insert"
           /\ pc'[t] = "updateSubscription" => op'[t].id \in DOMAIN casubs' /\ op'[t].read = casubs'[op'[t].id]
  PROVE  SerialInv'
<1> SUFFICES ASSUME Exclusive', NEW u \in Threads, pc'[u] # "idle"
             PROVE  (/\ semaphore = u
                     /\ DOMAIN op[u].subs \subseteq DOMAIN casubs
                     /\ pc[u] = "insert" => op[u].id \notin DOMAIN casubs /\ notices[op[u].id] = 0
                     /\ pc[u] = "updateSubscription" => op[u].id \in DOMAIN casubs /\ op[u].read = casubs[op[u].id])'
  BY DEF SerialInv
<1>1. Exclusive /\ semaphore = t
  BY DEF Exclusive, SerialInv
<1>2. u = t
  BY <1>1 DEF SerialInv, OthersStay
<1> QED BY <1>1, <1>2

\* A request comes in.
LEMMA ReceiveType ==
  ASSUME TypeInv, NEW t \in Threads, receive(t)
  PROVE  /\ TypeInv' /\ OthersStay(t)
         /\ pc[t] = "idle" /\ pc'[t] \in Registering \cup {"insert", "findSubscription"}
         /\ op'[t].subs = <<>> /\ op'[t].ix = 1
<1>1. PICK r \in Requests :
        /\ requests < MaxRequests
        /\ Goto(t, "idle", FirstStep(r))
        /\ requests' = requests + 1
        /\ op' = [op EXCEPT ![t] = [req |-> r, id |-> IF r.id = 0 THEN requests + 1 ELSE r.id, ix |-> 1,
                                    ens |-> {}, subs |-> <<>>, read |-> <<>>]]
  BY DEF receive
<1>2. UNCHANGED <<inst, regs, casubs, now, told, notices>>
  BY DEF receive
<1>3. PICK o : o = [req |-> r, id |-> IF r.id = 0 THEN requests + 1 ELSE r.id, ix |-> 1,
                    ens |-> {}, subs |-> <<>>, read |-> <<>>]
  OBVIOUS
<1>4. DOMAIN o = OpFields /\ o.req = r /\ o.id = (IF r.id = 0 THEN requests + 1 ELSE r.id) /\ o.subs = <<>> /\ o.ix = 1
  BY <1>3 DEF OpFields
<1>5. op'[t] = o /\ pc[t] = "idle" /\ pc'[t] = FirstStep(r)
  BY <1>1, <1>3 DEF Goto, TypeInv
<1>6. /\ r.kind \in {"register", "notify"} => FirstStep(r) \in Registering
      /\ r.kind = "subscribe" => FirstStep(r) = "insert" /\ r.id = 0
      /\ r.kind \in {"updateSubscription", "unsubscribe"} => FirstStep(r) = "findSubscription"
      /\ r.kind \in {"register", "notify", "subscribe", "updateSubscription", "unsubscribe"}
  BY AvailabilityAssumption DEF FirstStep, Registering
<1>7. requests' \in Nat /\ requests' =< MaxRequests /\ requests' = requests + 1 /\ requests \in Nat
  BY <1>1, AvailabilityAssumption DEF TypeInv
<1>8. 1 .. requests \subseteq 1 .. requests'
  BY <1>7
<1>9. OpType(t)'
  <2>1. DOMAIN o.subs \subseteq 1 .. requests'
    BY <1>4
  <2>2. pc'[t] = "insert" => o.id \in 1 .. requests'
    BY <1>4, <1>5, <1>6, <1>7 DEF Registering
  <2> QED BY <1>4, <1>5, <1>6, <2>1, <2>2 DEF OpType, Registering
<1>10. ASSUME NEW u \in Threads \ {t} PROVE pc'[u] = pc[u] /\ op'[u] = op[u]
  BY <1>1 DEF Goto, TypeInv
<1>11. ASSUME NEW u \in Threads \ {t}, pc'[u] # "idle" PROVE OpType(u)'
  <2>1. OpType(u)
    BY <1>10, <1>11 DEF TypeInv
  <2> QED BY <1>8, <1>10, <2>1 DEF OpType
<1>12. pc' \in [Threads -> Places] /\ DOMAIN op' = Threads
  BY <1>1, <1>6 DEF Goto, TypeInv, Places, Registering
<1>13. pc'[t] \in Registering \cup {"insert", "findSubscription"}
  BY <1>5, <1>6
<1> QED BY <1>2, <1>4, <1>5, <1>7, <1>8, <1>9, <1>10, <1>11, <1>12, <1>13 DEF TypeInv, OthersStay

\* A request comes in where nobody is at work.
LEMMA ReceiveInv ==
  ASSUME Inv, NEW t \in Threads, receive(t)
  PROVE  Inv'
<1>1. /\ TypeInv' /\ OthersStay(t)
      /\ pc[t] = "idle" /\ pc'[t] \in Registering \cup {"insert", "findSubscription"}
      /\ op'[t].subs = <<>>
  BY ReceiveType DEF Inv
<1>2. /\ UNCHANGED <<inst, casubs, notices>> /\ requests' = requests + 1
      /\ Serialised => semaphore = Nobody /\ semaphore' = t
  BY DEF receive
<1>3. requests + 1 \in Ids /\ requests \in Nat /\ MaxRequests \in Nat
  BY AvailabilityAssumption DEF receive, Inv, TypeInv, Ids
<1>4. CountInv'
  BY <1>1, <1>2, CountFrame DEF Inv, Registering
<1>5. pc'[t] = "insert" => op'[t].id = requests + 1
  <2>1. PICK r \in Requests :
          /\ pc' = [pc EXCEPT ![t] = FirstStep(r)]
          /\ op' = [op EXCEPT ![t] = [req |-> r, id |-> IF r.id = 0 THEN requests + 1 ELSE r.id, ix |-> 1,
                                      ens |-> {}, subs |-> <<>>, read |-> <<>>]]
    BY DEF receive, Goto
  <2>2. op'[t].req = r /\ op'[t].id = (IF r.id = 0 THEN requests + 1 ELSE r.id)
    BY <2>1 DEF Inv, TypeInv
  <2>3. pc'[t] = "insert" => r.kind = "subscribe"
    BY <1>1, <2>2 DEF TypeInv, OpType
  <2> QED BY <2>2, <2>3, AvailabilityAssumption
<1>6. SerialInv'
  <2> SUFFICES ASSUME Exclusive', NEW u \in Threads, pc'[u] # "idle"
               PROVE  (/\ semaphore = u
                       /\ DOMAIN op[u].subs \subseteq DOMAIN casubs
                       /\ pc[u] = "insert" => op[u].id \notin DOMAIN casubs /\ notices[op[u].id] = 0
                       /\ pc[u] = "updateSubscription" => op[u].id \in DOMAIN casubs /\ op[u].read = casubs[op[u].id])'
    BY DEF SerialInv
  <2>1. Exclusive /\ semaphore = Nobody /\ semaphore' = t
    BY <1>2 DEF Exclusive, Serialised
  <2>2. u = t
    BY <1>1, <2>1, AvailabilityAssumption DEF Inv, SerialInv, OthersStay, Nobody
  <2>3. DOMAIN op'[u].subs = {}
    BY <1>1, <2>2
  <2>4. requests + 1 \notin DOMAIN casubs /\ notices[requests + 1] = 0
    BY <1>3 DEF Inv, TypeInv, CountInv
  <2> QED BY <1>1, <1>2, <1>5, <2>1, <2>2, <2>3, <2>4 DEF Registering
<1> QED BY <1>1, <1>4, <1>6 DEF Inv

\* The clock moves.
LEMMA ClockInv ==
  ASSUME Inv, clock
  PROVE  Inv'
<1>1. now' \in Nat /\ UNCHANGED <<inst, casubs, semaphore, pc, op, requests, notices>>
  BY DEF clock, Inv, TypeInv
<1>2. TypeInv'
  BY <1>1 DEF Inv, TypeInv, OpType
<1>3. \A s : Pending(s)' = Pending(s)
  BY <1>1 DEF Pending, Counting, CurrentSub
<1>4. CountInv'
  BY <1>1, <1>3 DEF Inv, CountInv, Exclusive
<1>5. SerialInv'
  BY <1>1 DEF Inv, SerialInv, Exclusive
<1> QED BY <1>2, <1>4, <1>5 DEF Inv

\* An operation that ends, with what it has written.
LEMMA AnswerInv ==
  ASSUME Inv, NEW t \in Threads, pc[t] # "idle", pc[t] # "count", Answer(t), UNCHANGED <<inst, now, requests, notices>>,
         DOMAIN casubs' \subseteq DOMAIN casubs, \A s \in DOMAIN casubs' : casubs'[s] = casubs[s]
  PROVE  Inv' /\ OthersStay(t) /\ pc'[t] = "idle"
<1>1. OthersStay(t) /\ pc'[t] = "idle" /\ pc' \in [Threads -> Places] /\ DOMAIN op' = Threads
  BY DEF Answer, Inv, TypeInv, OthersStay, Places
<1>2. TypeInv'
  BY <1>1, TypeFrame DEF Inv, TypeInv
<1>3. CountInv'
  BY <1>1, CountFrame DEF Inv
<1>4. SerialInv'
  BY <1>1, SerialFrame DEF Inv
<1> QED BY <1>1, <1>2, <1>3, <1>4 DEF Inv

\* The registration is looked up.
LEMMA FindRegistrationInv ==
  ASSUME Inv, NEW t \in Threads, findRegistration(t)
  PROVE  Inv'
<1>1. pc[t] = "findRegistration" /\ UNCHANGED <<inst, casubs, now, requests, notices>>
  BY DEF findRegistration
<1>2. CASE Answer(t)
  BY <1>1, <1>2, AnswerInv
<1>3. CASE pc' = [pc EXCEPT ![t] = "triggered"] /\ UNCHANGED <<op, semaphore>>
  <2>1. OthersStay(t) /\ pc'[t] = "triggered" /\ pc' \in [Threads -> Places] /\ DOMAIN op' = Threads
    BY <1>3 DEF Inv, TypeInv, OthersStay, Places, Registering
  <2>2. OpType(t)'
    BY <1>1, <1>3, <2>1 DEF Inv, TypeInv, OpType, Registering
  <2>3. TypeInv'
    BY <1>1, <2>1, <2>2, TypeFrame DEF Inv, TypeInv
  <2>4. CountInv'
    BY <1>1, <2>1, CountFrame DEF Inv
  <2>5. DOMAIN op[t].subs \subseteq DOMAIN casubs \/ ~Exclusive
    BY <1>1 DEF Inv, SerialInv
  <2>6. SerialInv'
    BY <1>1, <1>3, <2>1, <2>5, SerialFrame DEF Inv
  <2> QED BY <2>3, <2>4, <2>6 DEF Inv
<1> QED BY <1>2, <1>3 DEF findRegistration, Goto

\* The subscriptions that the next part concerns and no earlier one did.
More(t) == {s \in DOMAIN casubs : triggers(casubs[s], op[t].req.parts[op[t].ix])} \ DOMAIN op[t].subs

\* They are gathered.
LEMMA TriggeredEffect ==
  ASSUME TypeInv, NEW t \in Threads, triggered(t), ~Answer(t)
  PROVE  /\ OthersStay(t) /\ pc' \in [Threads -> Places] /\ DOMAIN op' = Threads /\ semaphore' = semaphore
         /\ DOMAIN op'[t] = OpFields /\ op'[t].req = op[t].req /\ op'[t].id = op[t].id /\ op'[t].ix = op[t].ix + 1
         /\ pc'[t] = IF op[t].ix < Len(op[t].req.parts) THEN "triggered" ELSE "store"
         /\ DOMAIN op'[t].subs = DOMAIN op[t].subs \cup More(t)
         /\ \A s \in More(t) : op'[t].subs[s] = casubs[s].attrs
         /\ \A s \in DOMAIN op[t].subs \ More(t) : op'[t].subs[s] = op[t].subs[s]
<1>1. PICK more : more = More(t)
  OBVIOUS
<1>2. PICK next : next = IF op[t].ix < Len(op[t].req.parts) THEN "triggered" ELSE "store"
  OBVIOUS
<1>3. /\ op' = [op EXCEPT ![t].ix = @ + 1,
                  ![t].subs = [s \in DOMAIN @ \cup more |-> IF s \in more THEN casubs[s].attrs ELSE @[s]]]
      /\ pc' = [pc EXCEPT ![t] = next] /\ semaphore' = semaphore
  BY <1>1, <1>2 DEF triggered, Goto, More
<1>4. DOMAIN op = Threads /\ DOMAIN op[t] = OpFields /\ pc \in [Threads -> Places] /\ next \in Places
  BY <1>2 DEF TypeInv, OpType, triggered, Places, Registering
<1>5. OthersStay(t) /\ pc' \in [Threads -> Places] /\ DOMAIN op' = Threads /\ pc'[t] = next
  BY <1>3, <1>4 DEF OthersStay
<1>6. /\ DOMAIN op'[t] = OpFields /\ op'[t].req = op[t].req /\ op'[t].id = op[t].id /\ op'[t].ix = op[t].ix + 1
      /\ op'[t].subs = [s \in DOMAIN op[t].subs \cup more |-> IF s \in more THEN casubs[s].attrs ELSE op[t].subs[s]]
  BY <1>3, <1>4 DEF OpFields
<1>7. /\ DOMAIN op'[t].subs = DOMAIN op[t].subs \cup More(t)
      /\ \A s \in More(t) : op'[t].subs[s] = casubs[s].attrs
      /\ \A s \in DOMAIN op[t].subs \ More(t) : op'[t].subs[s] = op[t].subs[s]
  BY <1>1, <1>6
<1> QED BY <1>2, <1>3, <1>5, <1>6, <1>7

\* They are subscriptions that are stored.
LEMMA TriggeredInv ==
  ASSUME Inv, NEW t \in Threads, triggered(t)
  PROVE  Inv'
<1>1. pc[t] = "triggered" /\ UNCHANGED <<inst, casubs, now, requests, notices>>
  BY DEF triggered
<1>2. CASE Answer(t)
  BY <1>1, <1>2, AnswerInv
<1>3. CASE ~Answer(t)
  <2>1. /\ OthersStay(t) /\ pc' \in [Threads -> Places] /\ DOMAIN op' = Threads /\ semaphore' = semaphore
        /\ DOMAIN op'[t] = OpFields /\ op'[t].req = op[t].req /\ pc'[t] \in {"triggered", "store"}
    BY <1>3, TriggeredEffect DEF Inv
  <2>2. DOMAIN op'[t].subs \subseteq DOMAIN op[t].subs \cup DOMAIN casubs
    BY <1>3, TriggeredEffect DEF Inv, More
  <2>3. DOMAIN op'[t].subs \subseteq 1 .. requests
    BY <1>1, <2>2 DEF Inv, TypeInv, OpType
  <2>4. OpType(t)'
    BY <1>1, <2>1, <2>3 DEF Inv, TypeInv, OpType, Registering
  <2>5. TypeInv'
    BY <1>1, <2>1, <2>4, TypeFrame DEF Inv, TypeInv
  <2>6. CountInv'
    BY <1>1, <2>1, CountFrame DEF Inv
  <2>7. Exclusive => DOMAIN op'[t].subs \subseteq DOMAIN casubs
    BY <1>1, <2>2 DEF Inv, SerialInv
  <2>8. SerialInv'
    BY <1>1, <2>1, <2>7, SerialFrame DEF Inv
  <2> QED BY <2>5, <2>6, <2>8 DEF Inv
<1> QED BY <1>2, <1>3

\* The notifications are still to be sent.
LEMMA NotifyEffect ==
  ASSUME TypeInv, NEW t \in Threads, NEW from, NEW subs, NEW ens, from # "idle", Notify(t, from, subs, ens)
  PROVE  /\ OthersStay(t) /\ pc[t] = from /\ pc'[t] = "registrations" /\ pc' \in [Threads -> Places] /\ DOMAIN op' = Threads
         /\ DOMAIN op'[t] = OpFields /\ op'[t].req = op[t].req /\ op'[t].id = op[t].id
         /\ op'[t].subs = subs /\ op'[t].ens = ens /\ semaphore' = semaphore
<1>1. DOMAIN op = Threads /\ DOMAIN op[t] = OpFields /\ pc[t] = from /\ pc \in [Threads -> Places]
  BY DEF TypeInv, OpType, Notify, Goto
<1>2. op' = [op EXCEPT ![t].subs = subs, ![t].ens = ens] /\ pc' = [pc EXCEPT ![t] = "registrations"] /\ semaphore' = semaphore
  BY DEF Notify, Goto
<1>3. OthersStay(t) /\ pc'[t] = "registrations" /\ pc' \in [Threads -> Places] /\ DOMAIN op' = Threads
  BY <1>1, <1>2 DEF OthersStay, Places
<1>4. DOMAIN op'[t] = OpFields /\ op'[t].req = op[t].req /\ op'[t].id = op[t].id /\ op'[t].subs = subs /\ op'[t].ens = ens
  BY <1>1, <1>2 DEF OpFields
<1> QED BY <1>1, <1>2, <1>3, <1>4

\* What has been written must be countable; the subscriptions to notify are stored.
LEMMA NotifyInv ==
  ASSUME Inv, NEW t \in Threads, NEW from, NEW subs, NEW ens, from \notin {"idle", "count"}, Notify(t, from, subs, ens),
         UNCHANGED <<inst, now, requests, notices>>,
         DOMAIN subs \subseteq 1 .. requests, Exclusive => DOMAIN subs \subseteq DOMAIN casubs',
         DOMAIN casubs' \subseteq 1 .. requests, \A s \in DOMAIN casubs' : IsSub(casubs'[s]),
         \A s \in DOMAIN casubs' : \/ s \in DOMAIN casubs /\ casubs'[s].count = casubs[s].count
                                  \/ /\ casubs'[s].count + Pending(s) <= notices[s]
                                     /\ Exclusive /\ ~inst.dbFails => casubs'[s].count + Pending(s) = notices[s]
  PROVE  Inv'
<1>1. /\ OthersStay(t) /\ pc[t] = from /\ pc'[t] = "registrations" /\ pc' \in [Threads -> Places] /\ DOMAIN op' = Threads
      /\ DOMAIN op'[t] = OpFields /\ op'[t].req = op[t].req /\ op'[t].subs = subs /\ semaphore' = semaphore
  BY NotifyEffect DEF Inv
<1>2. OpType(t)'
  BY <1>1 DEF Inv, TypeInv, OpType, Registering
<1>3. TypeInv'
  BY <1>1, <1>2, TypeFrame DEF Inv, TypeInv
<1>4. CountInv'
  BY <1>1, CountFrame DEF Inv
<1>5. SerialInv'
  BY <1>1, SerialFrame DEF Inv
<1> QED BY <1>3, <1>4, <1>5 DEF Inv

\* The registration is stored.
LEMMA StoreInv ==
  ASSUME Inv, NEW t \in Threads, store(t)
  PROVE  Inv'
<1>1. pc[t] = "store" /\ UNCHANGED <<inst, casubs, now, requests, notices>>
  BY DEF store
<1>2. CASE Answer(t)
  BY <1>1, <1>2, AnswerInv
<1>3. CASE ~Answer(t)
  <2>1. Notify(t, "store", op[t].subs, RegisteredEntities(op[t].req.parts))
    BY <1>3 DEF store
  <2>2. DOMAIN op[t].subs \subseteq 1 .. requests /\ (Exclusive => DOMAIN op[t].subs \subseteq DOMAIN casubs)
    BY <1>1 DEF Inv, TypeInv, OpType, SerialInv
  <2>3. DOMAIN casubs \subseteq 1 .. requests /\ \A s \in DOMAIN casubs : IsSub(casubs[s])
    BY DEF Inv, TypeInv
  <2> QED BY <1>1, <2>1, <2>2, <2>3, NotifyInv
<1> QED BY <1>2, <1>3

\* The database answers wherever it is said not to fail.
LEMMA DatabaseAnswers ==
  ASSUME NEW ok \in Outcomes, ~inst.dbFails
  PROVE  ok
BY DEF Outcomes

\* A new subscription: it has not been notified of anything.
LEMMA InsertInv ==
  ASSUME Inv, NEW t \in Threads, insert(t)
  PROVE  Inv'
<1>1. pc[t] = "insert" /\ UNCHANGED <<inst, now, requests, notices>>
  BY DEF insert
<1>2. CASE Answer(t) /\ UNCHANGED casubs
  BY <1>1, <1>2, AnswerInv
<1>3. CASE ~(Answer(t) /\ UNCHANGED casubs)
  <2>1. PICK d, subs :
          /\ d = [entities |-> op[t].req.entities, attrs |-> op[t].req.attrs,
                  expiration |-> now + Given(op[t].req.duration), count |-> 0]
          /\ subs = [s \in {op[t].id} |-> op[t].req.attrs]
    OBVIOUS
  <2>2. casubs' = With(casubs, op[t].id, d) /\ Notify(t, "insert", subs, Elements(op[t].req.entities))
    BY <1>3, <2>1 DEF insert
  <2>3. op[t].id \in 1 .. requests /\ op[t].req \in Requests /\ op[t].req.kind = "subscribe" /\ now \in Nat
    BY <1>1 DEF Inv, TypeInv, OpType
  <2>4. Given(op[t].req.duration) \in Nat
    BY <2>3, AvailabilityAssumption DEF Given
  <2>5. IsSub(d) /\ d.count = 0
    BY <2>1, <2>3, <2>4 DEF IsSub, SubFields
  <2>6. DOMAIN subs = {op[t].id}
    BY <2>1
  <2>7. /\ DOMAIN casubs' = DOMAIN casubs \cup {op[t].id}
        /\ casubs'[op[t].id] = d
        /\ \A s \in DOMAIN casubs \ {op[t].id} : casubs'[s] = casubs[s]
    BY <2>2 DEF With
  <2>8. DOMAIN casubs' \subseteq 1 .. requests /\ \A s \in DOMAIN casubs' : IsSub(casubs'[s])
    BY <2>3, <2>5, <2>7 DEF Inv, TypeInv
  <2>9. op[t].id \in Ids /\ Pending(op[t].id) \in Nat /\ notices[op[t].id] \in Nat
    BY <2>3, CountingFinite, AvailabilityAssumption DEF Inv, TypeInv, Ids
  <2>10. Pending(op[t].id) <= notices[op[t].id] /\ (Exclusive => notices[op[t].id] = 0)
    BY <1>1, <2>9 DEF Inv, CountInv, SerialInv
  <2>11. d.count + Pending(op[t].id) <= notices[op[t].id] /\ (Exclusive => d.count + Pending(op[t].id) = notices[op[t].id])
    BY <2>5, <2>9, <2>10
  <2>12. \A s \in DOMAIN casubs' : \/ s \in DOMAIN casubs /\ casubs'[s].count = casubs[s].count
                                  \/ /\ casubs'[s].count + Pending(s) <= notices[s]
                                     /\ Exclusive /\ ~inst.dbFails => casubs'[s].count + Pending(s) = notices[s]
    BY <2>7, <2>11
  <2> QED BY <1>1, <2>2, <2>3, <2>6, <2>7, <2>8, <2>12, NotifyInv
<1> QED BY <1>2, <1>3

\* The subscription is read, to be rewritten or removed.
LEMMA FindSubscriptionInv ==
  ASSUME Inv, NEW t \in Threads, findSubscription(t)
  PROVE  Inv'
<1>1. pc[t] = "findSubscription" /\ UNCHANGED <<inst, casubs, now, requests, notices>>
  BY DEF findSubscription
<1>2. CASE Answer(t)
  BY <1>1, <1>2, AnswerInv
<1>3. CASE ~Answer(t)
  <2>1. /\ op[t].id \in DOMAIN casubs /\ op' = [op EXCEPT ![t].read = casubs[op[t].id]]
        /\ pc' = [pc EXCEPT ![t] = op[t].req.kind] /\ semaphore' = semaphore
    BY <1>3 DEF findSubscription, Goto
  <2>2. OpType(t) /\ DOMAIN op = Threads /\ pc \in [Threads -> Places]
    BY <1>1 DEF Inv, TypeInv
  <2>3. op[t].req.kind \in {"updateSubscription", "unsubscribe"} /\ DOMAIN op[t] = OpFields
    BY <1>1, <2>2 DEF OpType
  <2>4. OthersStay(t) /\ pc'[t] = op[t].req.kind /\ pc' \in [Threads -> Places] /\ DOMAIN op' = Threads
    BY <2>1, <2>2, <2>3 DEF OthersStay, Places
  <2>5. /\ DOMAIN op'[t] = OpFields /\ op'[t].req = op[t].req /\ op'[t].id = op[t].id /\ op'[t].subs = op[t].subs
        /\ op'[t].read = casubs[op[t].id]
    BY <2>1, <2>2, <2>3 DEF OpFields
  <2>6. op[t].id \in 1 .. requests /\ IsSub(casubs[op[t].id])
    BY <2>1 DEF Inv, TypeInv
  <2>7. OpType(t)'
    BY <1>1, <2>2, <2>3, <2>4, <2>5, <2>6 DEF OpType, Registering
  <2>8. TypeInv'
    BY <1>1, <2>4, <2>7, TypeFrame DEF Inv, TypeInv
  <2>9. casubs[op[t].id].count + Pending(op[t].id) <= notices[op[t].id]
    BY <2>1 DEF Inv, CountInv
  <2>10. CountInv'
    BY <1>1, <2>3, <2>4, <2>5, <2>9, CountFrame DEF Inv
  <2>11. Exclusive => DOMAIN op[t].subs \subseteq DOMAIN casubs
    BY <1>1 DEF Inv, SerialInv
  <2>12. SerialInv'
    BY <1>1, <2>1, <2>3, <2>4, <2>5, <2>11, SerialFrame DEF Inv
  <2> QED BY <2>8, <2>10, <2>12 DEF Inv
<1> QED BY <1>2, <1>3

\* A subscription is rewritten with the count that was read.
LEMMA UpdateSubscriptionInv ==
  ASSUME Inv, NEW t \in Threads, updateSubscription(t)
  PROVE  Inv'
<1>1. pc[t] = "updateSubscription" /\ UNCHANGED <<inst, now, requests, notices>>
  BY DEF updateSubscription
<1>2. CASE Answer(t) /\ UNCHANGED casubs
  BY <1>1, <1>2, AnswerInv
<1>3. CASE ~(Answer(t) /\ UNCHANGED casubs)
  <2>1. PICK d, subs, id :
          /\ d = Updated(op[t].read, op[t].req)
          /\ subs = [s \in {op[t].id} |-> op[t].req.attrs]
          /\ id = op[t].id
    OBVIOUS
  <2>2. /\ casubs' = IF id \in DOMAIN casubs THEN With(casubs, id, d) ELSE casubs
        /\ Notify(t, "updateSubscription", subs, Elements(op[t].req.entities))
    BY <1>3, <2>1 DEF updateSubscription
  <2>3. /\ id \in 1 .. requests /\ op[t].req \in Requests /\ op[t].req.kind = "updateSubscription"
        /\ now \in Nat /\ IsSub(op[t].read)
    BY <1>1, <2>1 DEF Inv, TypeInv, OpType
  <2>4. op[t].req.duration \in Nat
    BY <2>3, AvailabilityAssumption
  <2>5. IsSub(d) /\ d.count = op[t].read.count
    BY <2>1, <2>3, <2>4 DEF IsSub, SubFields, Updated
  <2>6. DOMAIN subs = {id}
    BY <2>1
  <2>7. /\ DOMAIN casubs' = DOMAIN casubs
        /\ id \in DOMAIN casubs => casubs'[id] = d
        /\ \A s \in DOMAIN casubs \ {id} : casubs'[s] = casubs[s]
    BY <2>2 DEF With
  <2>8. DOMAIN casubs' \subseteq 1 .. requests /\ \A s \in DOMAIN casubs' : IsSub(casubs'[s])
    BY <2>5, <2>7 DEF Inv, TypeInv
  <2>9. d.count + Pending(id) <= notices[id]
    BY <1>1, <2>1, <2>5 DEF Inv, CountInv
  <2>10. Exclusive => id \in DOMAIN casubs /\ op[t].read = casubs[id]
    BY <1>1, <2>1 DEF Inv, SerialInv
  <2>11. \A s \in DOMAIN casubs' : \/ s \in DOMAIN casubs /\ casubs'[s].count = casubs[s].count
                                  \/ /\ casubs'[s].count + Pending(s) <= notices[s]
                                     /\ Exclusive /\ ~inst.dbFails => casubs'[s].count + Pending(s) = notices[s]
    BY <2>5, <2>7, <2>9, <2>10
  <2> QED BY <1>1, <2>2, <2>3, <2>6, <2>7, <2>8, <2>10, <2>11, NotifyInv
<1> QED BY <1>2, <1>3

\* A subscription is removed.
LEMMA UnsubscribeInv ==
  ASSUME Inv, NEW t \in Threads, unsubscribe(t)
  PROVE  Inv'
<1>1. pc[t] = "unsubscribe" /\ Answer(t) /\ UNCHANGED <<inst, now, requests, notices>>
  BY DEF unsubscribe
<1>2. DOMAIN casubs' \subseteq DOMAIN casubs /\ \A s \in DOMAIN casubs' : casubs'[s] = casubs[s]
  BY DEF unsubscribe, Without
<1> QED BY <1>1, <1>2, AnswerInv

\* All have been notified.
LEMMA AllNotifiedInv ==
  ASSUME Inv, NEW t \in Threads, allNotified(t)
  PROVE  Inv'
BY AnswerInv DEF allNotified

\* What the query for the subscription that comes next finds.
Parts(t, r) == PartsFound(regs[r], "", op[t].ens, op[t].subs[CurrentSub(t)])
Found(t)    == {r \in DOMAIN regs : Parts(t, r) # {}}

\* The next subscription is one that is to be notified.
LEMMA CurrentSubIsIn ==
  ASSUME TypeInv, NEW t \in Threads, pc[t] # "idle", DOMAIN op[t].subs # {}
  PROVE  CurrentSub(t) \in DOMAIN op[t].subs /\ CurrentSub(t) \in 1 .. requests /\ CurrentSub(t) \in Ids
<1>1. DOMAIN op[t].subs \subseteq 1 .. requests /\ requests \in Nat /\ requests =< MaxRequests
  BY DEF TypeInv, OpType
<1>2. DOMAIN op[t].subs \subseteq Nat
  BY <1>1
<1>3. CurrentSub(t) \in DOMAIN op[t].subs
  BY <1>2, FirstIsIn DEF CurrentSub
<1> QED BY <1>1, <1>3, AvailabilityAssumption DEF Ids

\* A notification with all that was found is sent; or nothing was found, or the
\* query failed, and the subscription is passed over.
LEMMA RegistrationsEffect ==
  ASSUME TypeInv, NEW t \in Threads, registrations(t)
  PROVE  /\ pc[t] = "registrations" /\ DOMAIN op[t].subs # {}
         /\ UNCHANGED <<inst, regs, casubs, now, semaphore, requests>>
         /\ \/ /\ told' = told /\ notices' = notices /\ pc' = pc
               /\ op' = [op EXCEPT ![t].subs = Without(@, CurrentSub(t))]
               /\ ~inst.dbFails => Found(t) = {}
            \/ /\ Found(t) # {}
               /\ told' = told \cup {<<CurrentSub(t), r, Parts(t, r)>> : r \in Found(t)}
               /\ notices' = [notices EXCEPT ![CurrentSub(t)] = @ + 1]
               /\ pc' = [pc EXCEPT ![t] = "count"] /\ op' = op
<1>1. /\ pc[t] = "registrations" /\ DOMAIN op[t].subs # {}
      /\ UNCHANGED <<inst, regs, casubs, now, semaphore, requests>>
  BY DEF registrations
<1>2. PICK ok \in Outcomes :
        LET found == IF ok THEN Found(t) ELSE {}
        IN  /\ told' = told \cup {<<CurrentSub(t), r, Parts(t, r)>> : r \in found}
            /\ notices' = [notices EXCEPT ![CurrentSub(t)] = @ + (IF found = {} THEN 0 ELSE 1)]
            /\ IF found = {}
               THEN op' = [op EXCEPT ![t].subs = Without(@, CurrentSub(t))] /\ UNCHANGED pc
               ELSE Goto(t, "registrations", "count") /\ UNCHANGED op
  BY DEF registrations, Found, Parts
<1>3. CurrentSub(t) \in Ids /\ notices \in [Ids -> Nat]
  BY <1>1, CurrentSubIsIn DEF TypeInv
<1>4. CASE ~ok \/ Found(t) = {}
  <2>1. /\ told' = told \cup {<<CurrentSub(t), r, Parts(t, r)>> : r \in {}}
        /\ notices' = [notices EXCEPT ![CurrentSub(t)] = @ + 0]
        /\ op' = [op EXCEPT ![t].subs = Without(@, CurrentSub(t))] /\ pc' = pc
    BY <1>2, <1>4
  <2>2. notices' = notices /\ told' = told
    BY <1>3, <2>1
  <2>3. ~inst.dbFails => Found(t) = {}
    BY <1>2, <1>4, DatabaseAnswers
  <2> QED BY <1>1, <2>1, <2>2, <2>3
<1>5. CASE ok /\ Found(t) # {}
  BY <1>1, <1>2, <1>5 DEF Goto
<1> QED BY <1>4, <1>5

\* A subscription is passed over.
LEMMA SkipInv ==
  ASSUME Inv, NEW t \in Threads, pc[t] = "registrations", DOMAIN op[t].subs # {},
         UNCHANGED <<inst, casubs, now, semaphore, requests, notices>>, pc' = pc,
         op' = [op EXCEPT ![t].subs = Without(@, CurrentSub(t))]
  PROVE  Inv'
<1>1. OpType(t) /\ DOMAIN op = Threads /\ DOMAIN op[t] = OpFields /\ pc \in [Threads -> Places]
  BY DEF Inv, TypeInv, OpType
<1>2. OthersStay(t) /\ DOMAIN op' = Threads
  BY <1>1 DEF OthersStay
<1>3. DOMAIN op'[t] = OpFields /\ op'[t].req = op[t].req /\ op'[t].subs = Without(op[t].subs, CurrentSub(t))
  BY <1>1 DEF OpFields
<1>4. DOMAIN op'[t].subs \subseteq DOMAIN op[t].subs
  BY <1>3 DEF Without
<1>5. OpType(t)'
  BY <1>1, <1>3, <1>4 DEF OpType, Registering
<1>6. TypeInv'
  BY <1>1, <1>2, <1>5, TypeFrame DEF Inv, TypeInv
<1>7. CountInv'
  BY <1>2, CountFrame DEF Inv
<1>8. Exclusive => DOMAIN op'[t].subs \subseteq DOMAIN casubs
  BY <1>4 DEF Inv, SerialInv
<1>9. SerialInv'
  BY <1>2, <1>8, SerialFrame DEF Inv
<1> QED BY <1>6, <1>7, <1>9 DEF Inv

\* A notification is sent, and is still to be counted.
LEMMA SendInv ==
  ASSUME Inv, NEW t \in Threads, pc[t] = "registrations", DOMAIN op[t].subs # {},
         UNCHANGED <<inst, casubs, now, semaphore, requests, op>>, pc' = [pc EXCEPT ![t] = "count"],
         notices' = [notices EXCEPT ![CurrentSub(t)] = @ + 1]
  PROVE  Inv'
<1>1. OpType(t) /\ DOMAIN op = Threads /\ pc \in [Threads -> Places] /\ notices \in [Ids -> Nat]
  BY DEF Inv, TypeInv
<1>2. PICK s \in Ids : s = CurrentSub(t) /\ s \in 1 .. requests
  BY CurrentSubIsIn DEF Inv
<1>3. OthersStay(t) /\ pc'[t] = "count" /\ pc' \in [Threads -> Places]
  BY <1>1 DEF OthersStay, Places
<1>4. OpType(t)'
  BY <1>1, <1>3 DEF OpType, Registering
<1>5. /\ notices' \in [Ids -> Nat] /\ notices'[s] = notices[s] + 1
      /\ \A i \in Ids \ {s} : notices'[i] = notices[i]
  BY <1>1, <1>2
<1>6. TypeInv'
  BY <1>1, <1>3, <1>4, <1>5, TypeFrame DEF Inv, TypeInv
<1>7. SerialInv'
  BY <1>3, SerialFrame DEF Inv, SerialInv
<1>8. /\ Counting(s)' = Counting(s) \cup {t} /\ t \notin Counting(s)
      /\ \A i : i # s => Counting(i)' = Counting(i)
  BY <1>2, <1>3 DEF Counting, CurrentSub, OthersStay
<1>9. IsFiniteSet(Counting(s)) /\ Pending(s) \in Nat
  BY CountingFinite
<1>10. Pending(s)' = Pending(s) + 1 /\ \A i : i # s => Pending(i)' = Pending(i)
  BY <1>8, <1>9, FS_AddElement DEF Pending
<1>11. CountInv'
  <2>1. \A i \in Ids : (i > requests => notices[i] = 0)'
    BY <1>2, <1>5 DEF Inv, CountInv, TypeInv, Ids
  <2>2. ASSUME NEW i \in Ids PROVE (Pending(i) <= notices[i])'
    <3>1. Pending(i) <= notices[i] /\ Pending(i) \in Nat /\ notices[i] \in Nat
      BY <1>1, CountingFinite DEF Inv, CountInv
    <3> QED BY <1>5, <1>10, <3>1
  <2>3. ASSUME NEW i \in DOMAIN casubs'
        PROVE (/\ casubs[i].count + Pending(i) <= notices[i]
               /\ Exclusive /\ ~inst.dbFails => casubs[i].count + Pending(i) = notices[i])'
    <3>1. /\ i \in DOMAIN casubs /\ i \in Ids /\ casubs[i].count \in Nat
          /\ Pending(i) \in Nat /\ notices[i] \in Nat
      BY <1>1, CountingFinite, AvailabilityAssumption DEF Inv, TypeInv, Ids, IsSub
    <3>2. casubs[i].count + Pending(i) <= notices[i]
      BY <3>1 DEF Inv, CountInv
    <3>3. Exclusive /\ ~inst.dbFails => casubs[i].count + Pending(i) = notices[i]
      BY <3>1 DEF Inv, CountInv
    <3>4. (casubs[i].count + Pending(i) <= notices[i])'
      BY <1>5, <1>10, <3>1, <3>2
    <3>5. (Exclusive /\ ~inst.dbFails => casubs[i].count + Pending(i) = notices[i])'
      BY <1>5, <1>10, <3>1, <3>3 DEF Exclusive
    <3> QED BY <3>4, <3>5
  <2>4. ASSUME NEW u \in Threads, pc'[u] = "updateSubscription"
        PROVE (op[u].read.count + Pending(op[u].id) <= notices[op[u].id])'
    <3>1. pc[u] = "updateSubscription"
      BY <1>3, <2>4 DEF OthersStay
    <3>2. /\ op[u].id \in Ids /\ op[u].read.count \in Nat
          /\ op[u].read.count + Pending(op[u].id) <= notices[op[u].id]
      BY <3>1, AvailabilityAssumption DEF Inv, CountInv, TypeInv, OpType, Ids, IsSub
    <3>3. Pending(op[u].id) \in Nat /\ notices[op[u].id] \in Nat
      BY <1>1, <3>2, CountingFinite
    <3> QED BY <1>5, <1>10, <3>2, <3>3
  <2> QED BY <2>1, <2>2, <2>3, <2>4 DEF CountInv
<1> QED BY <1>6, <1>7, <1>11 DEF Inv

\* A notification is counted, if the subscription is still there.
LEMMA CountNotificationInv ==
  ASSUME Inv, NEW t \in Threads, count(t)
  PROVE  Inv'
<1>1. pc[t] = "count" /\ UNCHANGED <<inst, now, semaphore, requests, notices>> /\ pc' = [pc EXCEPT ![t] = "registrations"]
  BY DEF count, Goto
<1>2. /\ OpType(t) /\ DOMAIN op = Threads /\ pc \in [Threads -> Places] /\ notices \in [Ids -> Nat]
      /\ DOMAIN op[t] = OpFields /\ DOMAIN op[t].subs # {}
  BY <1>1 DEF Inv, TypeInv, OpType
<1>3. PICK s \in Ids : s = CurrentSub(t) /\ s \in DOMAIN op[t].subs
  BY <1>1, <1>2, CurrentSubIsIn DEF Inv
<1>4. PICK ok \in Outcomes :
        /\ casubs' = IF ok /\ s \in DOMAIN casubs THEN [casubs EXCEPT ![s].count = @ + 1] ELSE casubs
        /\ op' = [op EXCEPT ![t].subs = Without(@, s)]
  BY <1>3 DEF count
<1>5. OthersStay(t) /\ pc'[t] = "registrations" /\ pc' \in [Threads -> Places] /\ DOMAIN op' = Threads
  BY <1>1, <1>2, <1>4 DEF OthersStay, Places
<1>6. DOMAIN op'[t] = OpFields /\ op'[t].req = op[t].req /\ op'[t].subs = Without(op[t].subs, s)
  BY <1>2, <1>4 DEF OpFields
<1>7. DOMAIN op'[t].subs \subseteq DOMAIN op[t].subs
  BY <1>6 DEF Without
<1>8. OpType(t)'
  BY <1>1, <1>2, <1>5, <1>6, <1>7 DEF OpType, Registering
<1>9. /\ DOMAIN casubs' = DOMAIN casubs
      /\ \A i \in DOMAIN casubs \ {s} : casubs'[i] = casubs[i]
      /\ s \in DOMAIN casubs => casubs'[s].count \in {casubs[s].count, casubs[s].count + 1}
      /\ s \in DOMAIN casubs /\ ok => casubs'[s].count = casubs[s].count + 1
      /\ s \in DOMAIN casubs => IsSub(casubs'[s])
  <2>1. s \in DOMAIN casubs => IsSub(casubs[s])
    BY DEF Inv, TypeInv
  <2> QED BY <1>4, <2>1 DEF IsSub, SubFields
<1>10. TypeInv'
  BY <1>1, <1>5, <1>8, <1>9, TypeFrame DEF Inv, TypeInv
<1>11. Exclusive => DOMAIN op[t].subs \subseteq DOMAIN casubs
  BY <1>1 DEF Inv, SerialInv
<1>12. SerialInv'
  BY <1>1, <1>5, <1>7, <1>9, <1>11, SerialFrame DEF Inv
<1>13. /\ Counting(s)' = Counting(s) \ {t} /\ t \in Counting(s)
       /\ \A i : i # s => Counting(i)' = Counting(i)
  BY <1>1, <1>3, <1>5 DEF Counting, CurrentSub, OthersStay
<1>14. IsFiniteSet(Counting(s)) /\ Pending(s) \in Nat
  BY CountingFinite
<1>15. Pending(s)' = Pending(s) - 1 /\ \A i : i # s => Pending(i)' = Pending(i)
  BY <1>13, <1>14, FS_RemoveElement DEF Pending
<1>16. CountInv'
  <2>1. \A i \in Ids : (i > requests => notices[i] = 0)'
    BY <1>1 DEF Inv, CountInv
  <2>2. ASSUME NEW i \in Ids PROVE (Pending(i) <= notices[i])'
    <3>1. Pending(i) <= notices[i] /\ Pending(i) \in Nat /\ notices[i] \in Nat
      BY <1>2, CountingFinite DEF Inv, CountInv
    <3> QED BY <1>1, <1>15, <3>1
  <2>3. ASSUME NEW i \in DOMAIN casubs'
        PROVE (/\ casubs[i].count + Pending(i) <= notices[i]
               /\ Exclusive /\ ~inst.dbFails => casubs[i].count + Pending(i) = notices[i])'
    <3>1. /\ i \in DOMAIN casubs /\ i \in Ids /\ casubs[i].count \in Nat
          /\ Pending(i) \in Nat /\ notices[i] \in Nat
      BY <1>2, <1>9, CountingFinite, AvailabilityAssumption DEF Inv, TypeInv, Ids, IsSub
    <3>2. casubs[i].count + Pending(i) <= notices[i]
      BY <3>1 DEF Inv, CountInv
    <3>3. Exclusive /\ ~inst.dbFails => casubs[i].count + Pending(i) = notices[i]
      BY <3>1 DEF Inv, CountInv
    <3>4. CASE i # s
      BY <1>1, <1>9, <1>15, <3>1, <3>2, <3>3, <3>4 DEF Exclusive
    <3>5. CASE i = s
      <4>1. (casubs[i].count + Pending(i) <= notices[i])'
        BY <1>1, <1>9, <1>15, <3>1, <3>2, <3>5
      <4>2. (Exclusive /\ ~inst.dbFails => casubs[i].count + Pending(i) = notices[i])'
        <5> SUFFICES ASSUME Exclusive', ~inst'.dbFails PROVE (casubs[i].count + Pending(i) = notices[i])'
          OBVIOUS
        <5>1. Exclusive /\ ~inst.dbFails /\ ok
          BY <1>1, DatabaseAnswers DEF Exclusive
        <5> QED BY <1>1, <1>9, <1>15, <3>1, <3>3, <3>5, <5>1
      <4> QED BY <4>1, <4>2
    <3> QED BY <3>4, <3>5
  <2>4. ASSUME NEW u \in Threads, pc'[u] = "updateSubscription"
        PROVE (op[u].read.count + Pending(op[u].id) <= notices[op[u].id])'
    <3>1. pc[u] = "updateSubscription" /\ op'[u] = op[u]
      BY <1>5, <2>4 DEF OthersStay
    <3>2. /\ op[u].id \in Ids /\ op[u].read.count \in Nat
          /\ op[u].read.count + Pending(op[u].id) <= notices[op[u].id]
      BY <3>1, AvailabilityAssumption DEF Inv, CountInv, TypeInv, OpType, Ids, IsSub
    <3>3. Pending(op[u].id) \in Nat /\ notices[op[u].id] \in Nat
      BY <1>2, <3>2, CountingFinite
    <3> QED BY <1>1, <1>15, <3>1, <3>2, <3>3
  <2> QED BY <2>1, <2>2, <2>3, <2>4 DEF CountInv
<1> QED BY <1>10, <1>12, <1>16 DEF Inv

-----------------------------------------------------------------------------
(* The theorems on the counters and the notifications.                     *)

\* Nobody is at work at the start.
LEMMA InvInit == Init => Inv
<1> SUFFICES ASSUME Init PROVE Inv
  OBVIOUS
<1>1. TypeInv
  BY TypeInit
<1>2. DOMAIN casubs = {} /\ \A t \in Threads : pc[t] = "idle"
  BY DEF Init
<1>3. \A s : Counting(s) = {}
  BY <1>2 DEF Counting
<1>4. \A s : Pending(s) = 0
  BY <1>3, FS_EmptySet DEF Pending
<1>5. \A s \in Ids : notices[s] = 0
  BY DEF Init
<1>6. CountInv
  BY <1>2, <1>4, <1>5 DEF CountInv
<1> QED BY <1>1, <1>2, <1>6 DEF Inv, SerialInv

\* Every step keeps the invariant.
LEMMA InvNext == Inv /\ [Next]_vars => Inv'
<1> SUFFICES ASSUME Inv, [Next]_vars PROVE Inv'
  OBVIOUS
<1>1. CASE UNCHANGED vars
  <2>1. UNCHANGED <<inst, casubs, now, semaphore, pc, op, requests, notices>>
    BY <1>1 DEF vars
  <2>2. TypeInv'
    BY <2>1 DEF Inv, TypeInv, OpType
  <2>3. \A s : Pending(s)' = Pending(s)
    BY <2>1 DEF Pending, Counting, CurrentSub
  <2>4. CountInv'
    BY <2>1, <2>3 DEF Inv, CountInv, Exclusive
  <2>5. SerialInv'
    BY <2>1 DEF Inv, SerialInv, Exclusive
  <2> QED BY <2>2, <2>4, <2>5 DEF Inv
<1>2. CASE clock
  BY <1>2, ClockInv
<1>3. ASSUME NEW t \in Threads, receive(t) \/ Step(t) PROVE Inv'
  <2>1. CASE receive(t)
    BY <2>1, ReceiveInv
  <2>2. CASE registrations(t)
    <3>1. Inv => TypeInv
      BY DEF Inv
    <3> QED BY <2>2, <3>1, RegistrationsEffect, SkipInv, SendInv
  <2> QED BY <1>3, <2>1, <2>2, FindRegistrationInv, TriggeredInv, StoreInv, InsertInv, FindSubscriptionInv,
             UpdateSubscriptionInv, UnsubscribeInv, CountNotificationInv, AllNotifiedInv DEF Step
<1> QED BY <1>1, <1>2, <1>3 DEF Next

\* The counter of an availability subscription never exceeds the number of
\* notifications that were sent for it, whatever is interleaved and whatever
\* write fails; and where the operations are serialised and the database does not
\* fail, the two are equal whenever nobody is at work: the documents that
\* mongoUpdateContextAvailabilitySubscription() rewrites lose no count.
THEOREM AvailabilityCounts == Spec => []CountsItsNotifications
<1>1. Inv => CountsItsNotifications
  <2> SUFFICES ASSUME Inv, NEW s \in DOMAIN casubs
               PROVE  /\ casubs[s].count <= notices[s]
                      /\ Exclusive /\ ~inst.dbFails /\ Quiet => casubs[s].count = notices[s]
    BY DEF CountsItsNotifications
  <2>1. casubs[s].count \in Nat /\ Pending(s) \in Nat /\ notices[s] \in Nat
    BY CountingFinite, AvailabilityAssumption DEF Inv, TypeInv, IsSub, Ids
  <2>2. /\ casubs[s].count + Pending(s) <= notices[s]
        /\ Exclusive /\ ~inst.dbFails => casubs[s].count + Pending(s) = notices[s]
    BY DEF Inv, CountInv
  <2>3. Quiet => Pending(s) = 0
    <3>1. Quiet => Counting(s) = {}
      BY DEF Quiet, Counting
    <3> QED BY <3>1, FS_EmptySet DEF Pending
  <2> QED BY <2>1, <2>2, <2>3
<1> QED BY <1>1, InvInit, InvNext, PTL DEF Spec

\* No notification is sent for a subscription that has been removed, where the
\* operations are serialised: what addTriggeredSubscriptions() found, or the
\* subscription that was just written, is there until the last
\* processAvailabilitySubscription() is done.
THEOREM AvailabilityNotifiesSubscribed == Spec => NotifiedAreSubscribed
<1>1. ASSUME Inv, [Next]_vars
      PROVE  [Exclusive => \A s \in Ids : notices'[s] > notices[s] => s \in DOMAIN casubs]_vars
  <2> SUFFICES ASSUME Exclusive, NEW s \in Ids, notices'[s] > notices[s] PROVE s \in DOMAIN casubs
    OBVIOUS
  <2>1. notices \in [Ids -> Nat] /\ notices[s] \in Nat
    BY <1>1 DEF Inv, TypeInv
  <2>2. notices' # notices
    BY <2>1
  <2>3. PICK t \in Threads : registrations(t)
    BY <1>1, <2>2 DEF Next, vars, clock, receive, Step, findRegistration, triggered, store, insert,
                      findSubscription, updateSubscription, unsubscribe, count, allNotified
  <2>4. /\ pc[t] = "registrations" /\ DOMAIN op[t].subs # {}
        /\ notices' = [notices EXCEPT ![CurrentSub(t)] = @ + 1]
    BY <1>1, <2>2, <2>3, RegistrationsEffect DEF Inv
  <2>5. s = CurrentSub(t)
    BY <2>1, <2>4
  <2>6. s \in DOMAIN op[t].subs
    BY <1>1, <2>4, <2>5, CurrentSubIsIn DEF Inv
  <2> QED BY <1>1, <2>4, <2>6 DEF Inv, SerialInv
<1> QED BY <1>1, InvInit, InvNext, PTL DEF Spec, NotifiedAreSubscribed

-----------------------------------------------------------------------------
(* What the subscribers know.                                              *)

AsRequested(re) == [id |-> re.id, type |-> re.type, isPattern |-> FALSE]

\* A query for these entities asks for all that are registered in g.
Asks(ens, g) == \A i \in DOMAIN g.parts : \A re \in g.parts[i].entities : AsRequested(re) \in ens

\* A part of a notification has all of a part that would be discovered.
Shows(p, part) == p.app = part.app /\ p.attrs = part.attrs /\ part.entities \subseteq p.entities

\* The subscriber s has been told of a part of the registration r.
Knows(s, r, part) ==
  \E n \in told : n[1] = s /\ n[2] = r /\ \E p \in n[3] : Shows(p, part)

\* The parts of r that a discovery finds and that have an entity with a type.
WithType(parts) == {p \in parts : \E re \in p.entities : re.type # ""}
Discovered(s, r) == WithType(PartsFound(regs[r], "", Elements(casubs[s].entities), casubs[s].attrs))

\* The subscriber s is still to be told by t, and will be told all of r.
Telling(t, s) ==
  /\ pc[t] \in {"registrations", "count"} /\ s \in DOMAIN op[t].subs
  /\ pc[t] = "count" => s # CurrentSub(t)
Covers(t, s, r) ==
  \/ op[t].ens = Elements(casubs[s].entities)
  \/ Asks(op[t].ens, regs[r])

\* The subscriptions that the parts looked at so far concern have been gathered.
GatherInv(t) ==
  /\ pc[t] = "findRegistration" => op[t].ix = 1 /\ DOMAIN op[t].subs = {}
  /\ pc[t] \in {"triggered", "store"} =>
       /\ op[t].ix \in Nat \ {0}
       /\ pc[t] = "triggered" => op[t].ix <= Len(op[t].req.parts)
       /\ pc[t] = "store" => op[t].ix = Len(op[t].req.parts) + 1
       /\ \A j \in 1 .. (op[t].ix - 1) : \A s \in DOMAIN casubs :
            triggers(casubs[s], op[t].req.parts[j]) => s \in DOMAIN op[t].subs
  /\ pc[t] \in {"triggered", "store", "registrations", "count"} =>
       \A s \in DOMAIN op[t].subs : op[t].subs[s] = casubs[s].attrs

ToldInv(s, r) ==
  Live(casubs[s]) /\ Findable(casubs[s].entities) =>
    \/ \A part \in Discovered(s, r) : Knows(s, r, part)
    \/ \E t \in Threads : Telling(t, s) /\ Covers(t, s, r)

Calm == Exclusive /\ ~inst.dbFails

KnowInv ==
  /\ \A r \in DOMAIN regs : regs[r].expiration \in Nat
  /\ Calm => /\ \A t \in Threads : GatherInv(t)
             /\ \A s \in DOMAIN casubs, r \in DOMAIN regs : ToldInv(s, r)

KnowingInv == Inv /\ KnowInv

\* Where operations are serialised, one thread is at work.
LEMMA OneAtWork ==
  ASSUME Inv, Exclusive, NEW t \in Threads, pc[t] # "idle", NEW u \in Threads \ {t}
  PROVE  pc[u] = "idle"
BY DEF Inv, SerialInv

\* What is discovered now was discovered before: time only takes registrations away.
LEMMA DiscoveredEarlier ==
  ASSUME NEW s, NEW r, regs'[r] = regs[r], regs[r].expiration \in Nat, now \in Nat, now' \in Nat, now <= now',
         casubs'[s].entities = casubs[s].entities, casubs'[s].attrs = casubs[s].attrs
  PROVE  Discovered(s, r)' \subseteq Discovered(s, r)
<1>1. Live(regs[r])' => Live(regs[r])
  BY DEF Live
<1>2. PICK g, E, A : g = regs[r] /\ E = Elements(casubs[s].entities) /\ A = casubs[s].attrs
  OBVIOUS
<1>3. Elements(casubs'[s].entities) = E
  BY <1>2 DEF Elements
<1>4. queried(regs[r], "", E, A)' => queried(g, "", E, A)
  BY <1>1, <1>2 DEF queried, Live
<1>5. Discovered(s, r) = WithType({c \in {processContextRegistrationElement(g.parts[i], E, A) : i \in DOMAIN g.parts} :
                            queried(g, "", E, A) /\ c.entities # {} /\ (A = {} \/ c.attrs # {})})
  BY <1>2 DEF Discovered, PartsFound
<1>6. Discovered(s, r)' = WithType({c \in {processContextRegistrationElement(g.parts[i], E, A) : i \in DOMAIN g.parts} :
                             queried(regs[r], "", E, A)' /\ c.entities # {} /\ (A = {} \/ c.attrs # {})})
  BY <1>2, <1>3 DEF Discovered, PartsFound, queried, Live
<1> QED BY <1>4, <1>5, <1>6 DEF WithType

\* What is known stays known.
LEMMA KnownStays ==
  ASSUME NEW s, NEW r, regs'[r] = regs[r], regs[r].expiration \in Nat, now \in Nat, now' \in Nat, now <= now',
         casubs'[s].entities = casubs[s].entities, casubs'[s].attrs = casubs[s].attrs, told \subseteq told',
         \A part \in Discovered(s, r) : Knows(s, r, part)
  PROVE  \A part \in Discovered(s, r)' : Knows(s, r, part)'
<1>1. Discovered(s, r)' \subseteq Discovered(s, r)
  BY DiscoveredEarlier
<1>2. \A part : Knows(s, r, part) => Knows(s, r, part)'
  BY DEF Knows
<1> QED BY <1>1, <1>2

\* The notification for a registration that was just stored has, for each part
\* that the subscriber would discover, at least those entities.
LEMMA ShowsAll ==
  ASSUME NEW g, NEW E, NEW A, NEW ens, NEW part \in PartsFound(g, "", E, A), Asks(ens, g)
  PROVE  \E p \in PartsFound(g, "", ens, A) : Shows(p, part)
<1>1. PICK i \in DOMAIN g.parts : part = processContextRegistrationElement(g.parts[i], E, A)
  BY DEF PartsFound
<1>2. queried(g, "", E, A) /\ part.entities # {} /\ (A = {} \/ part.attrs # {})
  BY DEF PartsFound
<1>3. PICK p : p = processContextRegistrationElement(g.parts[i], ens, A)
  OBVIOUS
<1>4. /\ part.app = g.parts[i].app /\ part.attrs = (IF A = {} THEN g.parts[i].attrs ELSE g.parts[i].attrs \cap A)
      /\ part.entities \subseteq g.parts[i].entities
  BY <1>1 DEF processContextRegistrationElement
<1>5. /\ p.app = g.parts[i].app /\ p.attrs = (IF A = {} THEN g.parts[i].attrs ELSE g.parts[i].attrs \cap A)
      /\ p.entities = {re \in g.parts[i].entities : \E en \in ens : matchEntity(re, en)}
  BY <1>3 DEF processContextRegistrationElement
<1>6. ASSUME NEW re \in g.parts[i].entities PROVE AsRequested(re) \in ens /\ matchEntity(re, AsRequested(re))
  BY <1>6 DEF Asks, AsRequested, matchEntity, idMatches
<1>7. p.entities = g.parts[i].entities
  BY <1>5, <1>6
<1>8. PICK re \in g.parts[i].entities : TRUE
  BY <1>2, <1>4
<1>9. AsRequested(re) \in ens /\ ~AsRequested(re).isPattern /\ AsRequested(re).id = re.id /\ AsRequested(re).type = re.type
  BY <1>6, <1>8 DEF AsRequested
<1>10. queried(g, "", ens, A)
  <2>1. re \in UNION {g.parts[j].entities : j \in DOMAIN g.parts}
    BY <1>1, <1>8
  <2> QED BY <1>2, <1>9, <2>1 DEF queried, selected
<1>11. p \in PartsFound(g, "", ens, A)
  BY <1>1, <1>2, <1>3, <1>4, <1>5, <1>7, <1>10 DEF PartsFound
<1> QED BY <1>4, <1>5, <1>7, <1>11 DEF Shows

\* A subscription that would discover an entity with a type is one that its part concerns.
LEMMA DiscoveredTriggers ==
  ASSUME NEW g, NEW sub, Live(sub), Findable(sub.entities),
         NEW part \in PartsFound(g, "", Elements(sub.entities), sub.attrs),
         \E re \in part.entities : re.type # ""
  PROVE  \E i \in DOMAIN g.parts : triggers(sub, g.parts[i])
<1>1. PICK i \in DOMAIN g.parts :
        part = processContextRegistrationElement(g.parts[i], Elements(sub.entities), sub.attrs)
  BY DEF PartsFound
<1>2. part.entities # {} /\ (sub.attrs = {} \/ part.attrs # {})
  BY DEF PartsFound
<1>3. /\ part.entities = {re \in g.parts[i].entities : \E en \in Elements(sub.entities) : matchEntity(re, en)}
      /\ part.attrs = (IF sub.attrs = {} THEN g.parts[i].attrs ELSE g.parts[i].attrs \cap sub.attrs)
  BY <1>1 DEF processContextRegistrationElement
<1>4. PICK re \in g.parts[i].entities, en \in Elements(sub.entities) : re.type # "" /\ matchEntity(re, en)
  BY <1>3
<1>5. en.type # "" /\ en.type = re.type /\ idMatches("posix", en, re.id) /\ ReadAlike(en)
  BY <1>4 DEF Findable, matchEntity
<1>6. sub.attrs = {} \/ sub.attrs \cap g.parts[i].attrs # {}
  BY <1>2, <1>3
<1>7. (en.isPattern /\ idMatches("js", en, re.id)) \/ (~en.isPattern /\ en.id = re.id)
  <2>1. CASE en.isPattern
    <3>1. PICK m \in Regexps : m = <<"posix", en.id, re.id>>
      BY <1>5, <2>1 DEF idMatches
    <3>2. m[1] = "posix" /\ m[2] = en.id /\ m[3] = re.id
      BY <3>1
    <3>3. <<"js", en.id, re.id>> \in Regexps
      BY <1>5, <2>1, <3>2 DEF ReadAlike
    <3> QED BY <2>1, <3>3 DEF idMatches
  <2>2. CASE ~en.isPattern
    BY <1>5, <2>2 DEF idMatches
  <2> QED BY <2>1, <2>2
<1>8. triggers(sub, g.parts[i])
  BY <1>4, <1>5, <1>6, <1>7 DEF triggers
<1> QED BY <1>8

\* Nobody is telling anybody anything: what a step leaves alone stays known.
LEMMA QuietTold ==
  ASSUME KnowingInv, Calm, \A u \in Threads : pc[u] \in {"registrations", "count"} => DOMAIN op[u].subs = {},
         now' = now, told \subseteq told',
         NEW s \in DOMAIN casubs, NEW r \in DOMAIN regs, regs'[r] = regs[r],
         casubs'[s].entities = casubs[s].entities, casubs'[s].attrs = casubs[s].attrs,
         casubs'[s].expiration = casubs[s].expiration
  PROVE  ToldInv(s, r)'
<1> SUFFICES ASSUME Live(casubs[s])', Findable(casubs[s].entities)'
             PROVE  \A part \in Discovered(s, r)' : Knows(s, r, part)'
  BY DEF ToldInv
<1>1. Live(casubs[s]) /\ Findable(casubs[s].entities)
  BY DEF Live, Findable, Elements
<1>2. \A u \in Threads : ~ Telling(u, s)
  BY DEF Telling
<1>3. \A part \in Discovered(s, r) : Knows(s, r, part)
  BY <1>1, <1>2 DEF KnowingInv, KnowInv, ToldInv
<1>4. regs[r].expiration \in Nat /\ now \in Nat /\ now' \in Nat /\ now <= now'
  BY DEF KnowingInv, KnowInv, Inv, TypeInv
<1> QED BY <1>3, <1>4, KnownStays

\* A step before the notifications, or after them, that leaves the registrations
\* alone and at most removes a subscription.
LEMMA KnowFrame ==
  ASSUME KnowingInv, NEW t \in Threads, OthersStay(t), pc[t] \notin {"registrations", "count"} \/ DOMAIN op[t].subs = {},
         UNCHANGED <<inst, now, regs, told>>,
         Exclusive => \A u \in Threads \ {t} : pc[u] = "idle",
         DOMAIN casubs' \subseteq DOMAIN casubs, \A s \in DOMAIN casubs' : casubs'[s] = casubs[s],
         Calm => GatherInv(t)'
  PROVE  KnowInv'
<1>1. \A r \in DOMAIN regs' : regs'[r].expiration \in Nat
  BY DEF KnowingInv, KnowInv
<1>2. ASSUME Calm' PROVE Calm /\ \A u \in Threads : pc[u] \in {"registrations", "count"} => DOMAIN op[u].subs = {}
  BY <1>2 DEF Calm, Exclusive
<1>3. ASSUME Calm', NEW u \in Threads PROVE GatherInv(u)'
  <2>1. CASE u = t
    BY <1>2, <1>3, <2>1
  <2>2. CASE u # t
    <3>1. pc'[u] = "idle"
      BY <1>2, <1>3, <2>2 DEF Calm, OthersStay
    <3> QED BY <3>1 DEF GatherInv
  <2> QED BY <2>1, <2>2
<1>4. ASSUME Calm', NEW s \in DOMAIN casubs', NEW r \in DOMAIN regs' PROVE ToldInv(s, r)'
  <2>1. s \in DOMAIN casubs /\ r \in DOMAIN regs /\ casubs'[s] = casubs[s] /\ regs'[r] = regs[r] /\ told \subseteq told'
    OBVIOUS
  <2> QED BY <1>2, <1>4, <2>1, QuietTold
<1> QED BY <1>1, <1>3, <1>4 DEF KnowInv

\* An operation that ends.
LEMMA AnswerKnow ==
  ASSUME KnowingInv, NEW t \in Threads, pc[t] # "idle", pc[t] # "count", pc[t] = "registrations" => DOMAIN op[t].subs = {},
         Answer(t), UNCHANGED <<inst, now, requests, notices, regs, told>>,
         DOMAIN casubs' \subseteq DOMAIN casubs, \A s \in DOMAIN casubs' : casubs'[s] = casubs[s]
  PROVE  KnowInv'
<1>1. OthersStay(t) /\ pc'[t] = "idle"
  BY AnswerInv DEF KnowingInv
<1>2. GatherInv(t)'
  BY <1>1 DEF GatherInv
<1>3. Exclusive => \A u \in Threads \ {t} : pc[u] = "idle"
  BY OneAtWork DEF KnowingInv
<1> QED BY <1>1, <1>2, <1>3, KnowFrame

\* A request comes in.
LEMMA ReceiveKnow ==
  ASSUME KnowingInv, NEW t \in Threads, receive(t)
  PROVE  KnowInv'
<1>1. /\ TypeInv' /\ OthersStay(t) /\ pc[t] = "idle" /\ pc'[t] \in Registering \cup {"insert", "findSubscription"}
      /\ op'[t].subs = <<>> /\ op'[t].ix = 1
  BY ReceiveType DEF KnowingInv, Inv
<1>2. UNCHANGED <<inst, now, regs, told, casubs>> /\ (Exclusive => semaphore = Nobody)
  BY DEF receive, Exclusive, Serialised
<1>3. Exclusive => \A u \in Threads \ {t} : pc[u] = "idle"
  BY <1>2, AvailabilityAssumption DEF KnowingInv, Inv, SerialInv, Nobody
<1>4. pc'[t] # "store"
  BY <1>1 DEF receive, Goto, FirstStep, KnowingInv, Inv, TypeInv
<1>5. pc'[t] = "triggered" => op'[t].req \in Requests /\ op'[t].req.kind \in {"register", "notify"}
  BY <1>1 DEF TypeInv, OpType, Registering
<1>6. pc'[t] = "triggered" => 1 <= Len(op'[t].req.parts)
  BY <1>5, AvailabilityAssumption
<1>7. DOMAIN op'[t].subs = {}
  BY <1>1
<1>8. GatherInv(t)'
  BY <1>1, <1>4, <1>6, <1>7 DEF GatherInv, Registering
<1> QED BY <1>1, <1>2, <1>3, <1>8, KnowFrame

\* The registration is looked up.
LEMMA FindRegistrationKnow ==
  ASSUME KnowingInv, NEW t \in Threads, findRegistration(t)
  PROVE  KnowInv'
<1>1. pc[t] = "findRegistration" /\ UNCHANGED <<inst, casubs, now, requests, notices, regs, told>>
  BY DEF findRegistration
<1>2. CASE Answer(t)
  BY <1>1, <1>2, AnswerKnow
<1>3. CASE pc' = [pc EXCEPT ![t] = "triggered"] /\ UNCHANGED <<op, semaphore>>
  <2>1. OthersStay(t) /\ pc'[t] = "triggered"
    BY <1>3 DEF KnowingInv, Inv, TypeInv, OthersStay
  <2>2. Exclusive => \A u \in Threads \ {t} : pc[u] = "idle"
    BY <1>1, OneAtWork DEF KnowingInv
  <2>3. op[t].req \in Requests /\ op[t].req.kind \in {"register", "notify"}
    BY <1>1 DEF KnowingInv, Inv, TypeInv, OpType, Registering
  <2>4. 1 <= Len(op[t].req.parts)
    BY <2>3, AvailabilityAssumption
  <2>5. Calm => op[t].ix = 1 /\ DOMAIN op[t].subs = {}
    BY <1>1 DEF KnowingInv, KnowInv, GatherInv
  <2>6. Calm => GatherInv(t)'
    BY <1>3, <2>1, <2>4, <2>5 DEF GatherInv
  <2> QED BY <1>1, <2>1, <2>2, <2>6, KnowFrame
<1> QED BY <1>2, <1>3 DEF findRegistration, Goto

\* One more part has been looked at.
LEMMA TriggeredKnow ==
  ASSUME KnowingInv, NEW t \in Threads, triggered(t)
  PROVE  KnowInv'
<1>1. pc[t] = "triggered" /\ UNCHANGED <<inst, casubs, now, requests, notices, regs, told>>
  BY DEF triggered
<1>2. CASE Answer(t)
  BY <1>1, <1>2, AnswerKnow
<1>3. CASE ~Answer(t)
  <2>1. /\ OthersStay(t) /\ op'[t].req = op[t].req /\ op'[t].ix = op[t].ix + 1
        /\ pc'[t] = IF op[t].ix < Len(op[t].req.parts) THEN "triggered" ELSE "store"
        /\ DOMAIN op'[t].subs = DOMAIN op[t].subs \cup More(t)
        /\ \A s \in More(t) : op'[t].subs[s] = casubs[s].attrs
        /\ \A s \in DOMAIN op[t].subs \ More(t) : op'[t].subs[s] = op[t].subs[s]
    BY <1>3, TriggeredEffect DEF KnowingInv, Inv
  <2>2. Exclusive => \A u \in Threads \ {t} : pc[u] = "idle"
    BY <1>1, OneAtWork DEF KnowingInv
  <2>3. op[t].req \in Requests /\ op[t].req.kind \in {"register", "notify"}
    BY <1>1 DEF KnowingInv, Inv, TypeInv, OpType, Registering
  <2>4. Len(op[t].req.parts) \in Nat
    BY <2>3, AvailabilityAssumption
  <2>5. ASSUME Calm PROVE GatherInv(t)'
    <3>1. /\ op[t].ix \in Nat \ {0} /\ op[t].ix <= Len(op[t].req.parts)
          /\ \A j \in 1 .. (op[t].ix - 1) : \A s \in DOMAIN casubs :
               triggers(casubs[s], op[t].req.parts[j]) => s \in DOMAIN op[t].subs
          /\ \A s \in DOMAIN op[t].subs : op[t].subs[s] = casubs[s].attrs
      BY <1>1, <2>5 DEF KnowingInv, KnowInv, GatherInv
    <3>2. /\ op'[t].ix \in Nat \ {0}
          /\ pc'[t] = "triggered" => op'[t].ix <= Len(op'[t].req.parts)
          /\ pc'[t] = "store" => op'[t].ix = Len(op'[t].req.parts) + 1
      <4>1. PICK n \in Nat, ix \in Nat \ {0} : n = Len(op[t].req.parts) /\ ix = op[t].ix /\ ix <= n
        BY <2>4, <3>1
      <4>2. op'[t].ix = ix + 1 /\ Len(op'[t].req.parts) = n
        BY <2>1, <4>1
      <4>3. CASE ix < n
        BY <2>1, <4>1, <4>2, <4>3
      <4>4. CASE ix = n
        <5>1. ~ (op[t].ix < Len(op[t].req.parts))
          BY <4>1, <4>4
        <5>2. pc'[t] = "store"
          BY <2>1, <5>1
        <5> QED BY <4>1, <4>2, <4>4, <5>2
      <4> QED BY <4>1, <4>3, <4>4
    <3>3. \A s \in DOMAIN casubs : \A p : triggers(casubs[s], p)' <=> triggers(casubs[s], p)
      BY <1>1 DEF triggers, Live
    <3>4. ASSUME NEW j \in 1 .. (op'[t].ix - 1), NEW s \in DOMAIN casubs, triggers(casubs[s], op[t].req.parts[j])
          PROVE  s \in DOMAIN op'[t].subs
      <4>1. j \in 1 .. (op[t].ix - 1) \/ j = op[t].ix
        BY <2>1, <3>1
      <4> QED BY <2>1, <3>1, <3>4, <4>1 DEF More
    <3>5. \A s \in DOMAIN op'[t].subs : op'[t].subs[s] = casubs'[s].attrs
      BY <1>1, <2>1, <3>1
    <3>6. pc'[t] \notin {"findRegistration"}
      BY <2>1
    <3>7. \A j \in 1 .. (op'[t].ix - 1) : \A s \in DOMAIN casubs' :
            triggers(casubs[s], op[t].req.parts[j])' => s \in DOMAIN op'[t].subs
      BY <1>1, <2>1, <3>3, <3>4
    <3> QED BY <3>2, <3>5, <3>6, <3>7 DEF GatherInv
  <2> QED BY <1>1, <2>1, <2>2, <2>5, KnowFrame
<1> QED BY <1>2, <1>3

\* The registration is stored: the typed subscriptions that discover it are those gathered.
LEMMA StoreKnow ==
  ASSUME KnowingInv, NEW t \in Threads, store(t)
  PROVE  KnowInv'
<1>1. pc[t] = "store" /\ UNCHANGED <<inst, casubs, now, requests, notices, told>>
  BY DEF store
<1>2. CASE Answer(t) /\ UNCHANGED regs
  BY <1>1, <1>2, AnswerKnow
<1>3. CASE ~(Answer(t) /\ UNCHANGED regs)
  <2>1. PICK g, id, parts :
          /\ g = [parts |-> op[t].req.parts, expiration |-> now + Given(op[t].req.duration), path |-> op[t].req.path]
          /\ id = op[t].id /\ parts = op[t].req.parts
    OBVIOUS
  <2>2. regs' = With(regs, id, g) /\ Notify(t, "store", op[t].subs, RegisteredEntities(parts))
    BY <1>3, <2>1 DEF store
  <2>3. /\ OthersStay(t) /\ pc'[t] = "registrations" /\ op'[t].subs = op[t].subs
        /\ op'[t].ens = RegisteredEntities(parts)
    BY <2>2, NotifyEffect DEF KnowingInv, Inv
  <2>4. op[t].req \in Requests /\ op[t].req.kind \in {"register", "notify"} /\ now \in Nat
    BY <1>1 DEF KnowingInv, Inv, TypeInv, OpType, Registering
  <2>5. op[t].req.duration \in Nat /\ Len(parts) \in Nat /\ DOMAIN parts = 1 .. Len(parts)
    BY <2>1, <2>4, AvailabilityAssumption
  <2>6. g.expiration \in Nat /\ g.parts = parts
    BY <2>1, <2>4, <2>5, AvailabilityAssumption DEF Given
  <2>7. DOMAIN regs' = DOMAIN regs \cup {id} /\ regs'[id] = g /\ \A r \in DOMAIN regs \ {id} : regs'[r] = regs[r]
    BY <2>2 DEF With
  <2>8. \A r \in DOMAIN regs' : regs'[r].expiration \in Nat
    BY <2>6, <2>7 DEF KnowingInv, KnowInv
  <2>9. ASSUME Calm' PROVE Calm /\ Exclusive /\ \A u \in Threads \ {t} : pc[u] = "idle" /\ pc'[u] = "idle"
    <3>1. Calm /\ Exclusive
      BY <1>1, <2>9 DEF Calm, Exclusive
    <3> QED BY <1>1, <2>3, <3>1, OneAtWork DEF KnowingInv, OthersStay
  <2>10. ASSUME Calm PROVE /\ op[t].ix = Len(parts) + 1
                           /\ \A j \in 1 .. (op[t].ix - 1) : \A s \in DOMAIN casubs :
                                triggers(casubs[s], parts[j]) => s \in DOMAIN op[t].subs
                           /\ \A s \in DOMAIN op[t].subs : op[t].subs[s] = casubs[s].attrs
    BY <1>1, <2>1, <2>10 DEF KnowingInv, KnowInv, GatherInv
  <2>11. ASSUME Calm', NEW u \in Threads PROVE GatherInv(u)'
    BY <1>1, <2>3, <2>9, <2>10, <2>11 DEF GatherInv
  <2>12. ASSUME Calm', NEW s \in DOMAIN casubs', NEW r \in DOMAIN regs' PROVE ToldInv(s, r)'
    <3>1. CASE r # id
      <4>1. \A u \in Threads : pc[u] \in {"registrations", "count"} => DOMAIN op[u].subs = {}
        BY <1>1, <2>9, <2>12
      <4>2. r \in DOMAIN regs /\ regs'[r] = regs[r] /\ s \in DOMAIN casubs /\ casubs'[s] = casubs[s] /\ told \subseteq told'
        BY <1>1, <2>7, <3>1
      <4> QED BY <1>1, <2>9, <2>12, <4>1, <4>2, QuietTold
    <3>2. CASE r = id /\ s \in DOMAIN op[t].subs
      <4>1. Telling(t, s)'
        BY <2>3, <3>2 DEF Telling
      <4>2. \A i \in DOMAIN parts : \A re \in parts[i].entities : AsRequested(re) \in RegisteredEntities(parts)
        BY DEF RegisteredEntities, AsRequested
      <4>3. Covers(t, s, r)'
        BY <2>3, <2>6, <2>7, <3>2, <4>2 DEF Covers, Asks
      <4> QED BY <4>1, <4>3 DEF ToldInv
    <3>3. CASE r = id /\ s \notin DOMAIN op[t].subs
      <4> SUFFICES ASSUME Live(casubs[s])', Findable(casubs[s].entities)' PROVE Discovered(s, r)' = {}
        BY DEF ToldInv
      <4>1. Live(casubs[s]) /\ Findable(casubs[s].entities) /\ s \in DOMAIN casubs
        BY <1>1 DEF Live, Findable, Elements
      <4>2. Discovered(s, r)' = WithType(PartsFound(g, "", Elements(casubs[s].entities), casubs[s].attrs))
        BY <1>1, <2>7, <3>3 DEF Discovered, PartsFound, queried, Live, Elements
      <4>4. \A i \in DOMAIN g.parts : ~ triggers(casubs[s], g.parts[i])
        BY <2>5, <2>6, <2>9, <2>10, <2>12, <3>3, <4>1
      <4> QED BY <4>1, <4>2, <4>4, DiscoveredTriggers DEF WithType
    <3> QED BY <3>1, <3>2, <3>3
  <2> QED BY <2>8, <2>11, <2>12 DEF KnowInv
<1> QED BY <1>2, <1>3

\* A subscription has been written, and its subscriber will be told of all that
\* is registered; the others know what they knew.
LEMMA WrittenKnow ==
  ASSUME KnowingInv, NEW t \in Threads, pc[t] \in {"insert", "updateSubscription"}, OthersStay(t), pc'[t] = "registrations",
         UNCHANGED <<inst, now, regs, told>>, NEW id, id = op[t].id,
         DOMAIN op'[t].subs = {id}, Exclusive => casubs'[id].attrs = op'[t].subs[id],
         Exclusive => op'[t].ens = Elements(casubs'[id].entities),
         DOMAIN casubs' \subseteq DOMAIN casubs \cup {id}, \A s \in DOMAIN casubs' \ {id} : casubs'[s] = casubs[s]
  PROVE  KnowInv'
<1>1. \A r \in DOMAIN regs' : regs'[r].expiration \in Nat
  BY DEF KnowingInv, KnowInv
<1>2. ASSUME Calm' PROVE Calm /\ Exclusive /\ \A u \in Threads \ {t} : pc[u] = "idle" /\ pc'[u] = "idle"
  <2>1. Calm /\ Exclusive
    BY <1>2 DEF Calm, Exclusive
  <2> QED BY <2>1, OneAtWork DEF KnowingInv, OthersStay
<1>3. ASSUME Calm', NEW u \in Threads PROVE GatherInv(u)'
  BY <1>2, <1>3 DEF GatherInv
<1>4. ASSUME Calm', NEW s \in DOMAIN casubs', NEW r \in DOMAIN regs' PROVE ToldInv(s, r)'
  <2>1. CASE s # id
    <3>1. \A u \in Threads : pc[u] \in {"registrations", "count"} => DOMAIN op[u].subs = {}
      BY <1>2, <1>4
    <3>2. r \in DOMAIN regs /\ regs'[r] = regs[r] /\ s \in DOMAIN casubs /\ casubs'[s] = casubs[s] /\ told \subseteq told'
      BY <2>1
    <3> QED BY <1>2, <1>4, <3>1, <3>2, QuietTold
  <2>2. CASE s = id
    <3>1. Telling(t, s)' /\ Covers(t, s, r)'
      BY <1>2, <1>4, <2>2 DEF Telling, Covers, Elements
    <3> QED BY <3>1 DEF ToldInv
  <2> QED BY <2>1, <2>2
<1> QED BY <1>1, <1>3, <1>4 DEF KnowInv

\* A new subscription.
LEMMA InsertKnow ==
  ASSUME KnowingInv, NEW t \in Threads, insert(t)
  PROVE  KnowInv'
<1>1. pc[t] = "insert" /\ UNCHANGED <<inst, now, requests, notices, regs, told>>
  BY DEF insert
<1>2. CASE Answer(t) /\ UNCHANGED casubs
  BY <1>1, <1>2, AnswerKnow
<1>3. CASE ~(Answer(t) /\ UNCHANGED casubs)
  <2>1. PICK d, subs, id :
          /\ d = [entities |-> op[t].req.entities, attrs |-> op[t].req.attrs,
                  expiration |-> now + Given(op[t].req.duration), count |-> 0]
          /\ subs = [s \in {op[t].id} |-> op[t].req.attrs] /\ id = op[t].id
    OBVIOUS
  <2>2. casubs' = With(casubs, id, d) /\ Notify(t, "insert", subs, Elements(op[t].req.entities))
    BY <1>3, <2>1 DEF insert
  <2>3. /\ OthersStay(t) /\ pc'[t] = "registrations" /\ op'[t].subs = subs /\ op'[t].ens = Elements(op[t].req.entities)
    BY <2>2, NotifyEffect DEF KnowingInv, Inv
  <2>4. /\ DOMAIN casubs' \subseteq DOMAIN casubs \cup {id} /\ casubs'[id] = d
        /\ \A s \in DOMAIN casubs' \ {id} : casubs'[s] = casubs[s]
    BY <2>2 DEF With
  <2>5. DOMAIN op'[t].subs = {id} /\ casubs'[id].attrs = op'[t].subs[id] /\ op'[t].ens = Elements(casubs'[id].entities)
    BY <2>1, <2>3, <2>4
  <2> QED BY <1>1, <2>1, <2>3, <2>4, <2>5, WrittenKnow
<1> QED BY <1>2, <1>3

\* The subscription is read.
LEMMA FindSubscriptionKnow ==
  ASSUME KnowingInv, NEW t \in Threads, findSubscription(t)
  PROVE  KnowInv'
<1>1. pc[t] = "findSubscription" /\ UNCHANGED <<inst, casubs, now, requests, notices, regs, told>>
  BY DEF findSubscription
<1>2. CASE Answer(t)
  BY <1>1, <1>2, AnswerKnow
<1>3. CASE ~Answer(t)
  <2>1. op' = [op EXCEPT ![t].read = casubs[op[t].id]] /\ pc' = [pc EXCEPT ![t] = op[t].req.kind]
    BY <1>3 DEF findSubscription, Goto
  <2>2. op[t].req.kind \in {"updateSubscription", "unsubscribe"}
    BY <1>1 DEF KnowingInv, Inv, TypeInv, OpType
  <2>3. OthersStay(t) /\ pc'[t] = op[t].req.kind
    BY <2>1 DEF KnowingInv, Inv, TypeInv, OthersStay
  <2>4. GatherInv(t)'
    BY <2>2, <2>3 DEF GatherInv
  <2>5. Exclusive => \A u \in Threads \ {t} : pc[u] = "idle"
    BY <1>1, OneAtWork DEF KnowingInv
  <2> QED BY <1>1, <2>3, <2>4, <2>5, KnowFrame
<1> QED BY <1>2, <1>3

\* A subscription is rewritten: its subscriber is told of everything again.
LEMMA UpdateSubscriptionKnow ==
  ASSUME KnowingInv, NEW t \in Threads, updateSubscription(t)
  PROVE  KnowInv'
<1>1. pc[t] = "updateSubscription" /\ UNCHANGED <<inst, now, requests, notices, regs, told>>
  BY DEF updateSubscription
<1>2. CASE Answer(t) /\ UNCHANGED casubs
  BY <1>1, <1>2, AnswerKnow
<1>3. CASE ~(Answer(t) /\ UNCHANGED casubs)
  <2>1. PICK d, subs, id :
          /\ d = Updated(op[t].read, op[t].req)
          /\ subs = [s \in {op[t].id} |-> op[t].req.attrs] /\ id = op[t].id
    OBVIOUS
  <2>2. /\ casubs' = IF id \in DOMAIN casubs THEN With(casubs, id, d) ELSE casubs
        /\ Notify(t, "updateSubscription", subs, Elements(op[t].req.entities))
    BY <1>3, <2>1 DEF updateSubscription
  <2>3. /\ OthersStay(t) /\ pc'[t] = "registrations" /\ op'[t].subs = subs /\ op'[t].ens = Elements(op[t].req.entities)
    BY <2>2, NotifyEffect DEF KnowingInv, Inv
  <2>4. /\ DOMAIN casubs' = DOMAIN casubs /\ (id \in DOMAIN casubs => casubs'[id] = d)
        /\ \A s \in DOMAIN casubs' \ {id} : casubs'[s] = casubs[s]
    BY <2>2 DEF With
  <2>5. Exclusive => id \in DOMAIN casubs
    BY <1>1, <2>1 DEF KnowingInv, Inv, SerialInv
  <2>6. d.attrs = op[t].req.attrs /\ d.entities = op[t].req.entities
    BY <2>1 DEF Updated
  <2>7. DOMAIN op'[t].subs = {id} /\ op'[t].subs[id] = op[t].req.attrs
    BY <2>1, <2>3
  <2>8. Exclusive => casubs'[id].attrs = op'[t].subs[id] /\ op'[t].ens = Elements(casubs'[id].entities)
    BY <2>3, <2>4, <2>5, <2>6, <2>7
  <2> QED BY <1>1, <2>1, <2>3, <2>4, <2>7, <2>8, WrittenKnow
<1> QED BY <1>2, <1>3

\* A subscription is removed.
LEMMA UnsubscribeKnow ==
  ASSUME KnowingInv, NEW t \in Threads, unsubscribe(t)
  PROVE  KnowInv'
<1>1. pc[t] = "unsubscribe" /\ Answer(t) /\ UNCHANGED <<inst, now, requests, notices, regs, told>>
  BY DEF unsubscribe
<1>2. DOMAIN casubs' \subseteq DOMAIN casubs /\ \A s \in DOMAIN casubs' : casubs'[s] = casubs[s]
  BY DEF unsubscribe, Without
<1> QED BY <1>1, <1>2, AnswerKnow

\* All have been notified.
LEMMA AllNotifiedKnow ==
  ASSUME KnowingInv, NEW t \in Threads, allNotified(t)
  PROVE  KnowInv'
<1>1. /\ pc[t] = "registrations" /\ DOMAIN op[t].subs = {} /\ Answer(t)
      /\ UNCHANGED <<inst, now, requests, notices, regs, told, casubs>>
  BY DEF allNotified
<1> QED BY <1>1, AnswerKnow

\* While t tells the subscribers, only t does.
LEMMA TellingFrame ==
  ASSUME KnowingInv, NEW t \in Threads, pc[t] \in {"registrations", "count"}, pc'[t] \in {"registrations", "count"},
         OthersStay(t), UNCHANGED <<inst, now, regs>>, told \subseteq told', op'[t].ens = op[t].ens,
         DOMAIN op'[t].subs \subseteq DOMAIN op[t].subs, \A s \in DOMAIN op'[t].subs : op'[t].subs[s] = op[t].subs[s],
         DOMAIN casubs' = DOMAIN casubs,
         \A s \in DOMAIN casubs : /\ casubs'[s].entities = casubs[s].entities /\ casubs'[s].attrs = casubs[s].attrs
                                 /\ casubs'[s].expiration = casubs[s].expiration,
         Calm => \A s \in DOMAIN casubs, r \in DOMAIN regs :
                   Telling(t, s) /\ Covers(t, s, r) =>
                     Telling(t, s)' \/ \A part \in Discovered(s, r) : Knows(s, r, part)'
  PROVE  KnowInv'
<1>1. \A r \in DOMAIN regs' : regs'[r].expiration \in Nat
  BY DEF KnowingInv, KnowInv
<1>2. ASSUME Calm' PROVE Calm /\ Exclusive /\ \A u \in Threads \ {t} : pc[u] = "idle" /\ pc'[u] = "idle"
  <2>1. Calm /\ Exclusive
    BY <1>2 DEF Calm, Exclusive
  <2> QED BY <2>1, OneAtWork DEF KnowingInv, OthersStay
<1>3. ASSUME Calm', NEW u \in Threads PROVE GatherInv(u)'
  <2>1. CASE u # t
    BY <1>2, <1>3, <2>1 DEF GatherInv
  <2>2. CASE u = t
    <3>1. DOMAIN op[t].subs \subseteq DOMAIN casubs /\ \A s \in DOMAIN op[t].subs : op[t].subs[s] = casubs[s].attrs
      BY <1>2, <1>3 DEF KnowingInv, KnowInv, GatherInv, Inv, SerialInv
    <3>2. \A s \in DOMAIN op'[t].subs : op'[t].subs[s] = casubs'[s].attrs
      BY <3>1
    <3> QED BY <2>2, <3>2 DEF GatherInv
  <2> QED BY <2>1, <2>2
<1>4. ASSUME Calm', NEW s \in DOMAIN casubs', NEW r \in DOMAIN regs' PROVE ToldInv(s, r)'
  <2> SUFFICES ASSUME Live(casubs[s])', Findable(casubs[s].entities)'
               PROVE  \/ \A part \in Discovered(s, r)' : Knows(s, r, part)'
                      \/ \E u \in Threads : Telling(u, s)' /\ Covers(u, s, r)'
    BY DEF ToldInv
  <2>1. s \in DOMAIN casubs /\ r \in DOMAIN regs /\ Live(casubs[s]) /\ Findable(casubs[s].entities)
    BY DEF Live, Findable, Elements
  <2>2. ToldInv(s, r)
    BY <1>2, <1>4, <2>1 DEF KnowingInv, KnowInv
  <2>3. regs[r].expiration \in Nat /\ now \in Nat /\ now' \in Nat /\ now <= now' /\ regs'[r] = regs[r]
    BY <2>1 DEF KnowingInv, KnowInv, Inv, TypeInv
  <2>4. CASE \A part \in Discovered(s, r) : Knows(s, r, part)
    BY <2>1, <2>3, <2>4, KnownStays
  <2>5. CASE Telling(t, s) /\ Covers(t, s, r)
    <3>1. Covers(t, s, r)'
      BY <2>1, <2>5 DEF Covers, Elements
    <3>2. Discovered(s, r)' \subseteq Discovered(s, r)
      BY <2>1, <2>3, DiscoveredEarlier
    <3> QED BY <1>2, <1>4, <2>1, <2>5, <3>1, <3>2
  <2>6. \A u \in Threads \ {t} : ~ Telling(u, s)
    BY <1>2, <1>4 DEF Telling
  <2> QED BY <2>1, <2>2, <2>4, <2>5, <2>6 DEF ToldInv
<1> QED BY <1>1, <1>3, <1>4 DEF KnowInv

\* What the subscriber would discover is among what the notification has.
LEMMA CoveredParts ==
  ASSUME NEW t, NEW s, NEW r, s = CurrentSub(t), op[t].subs[s] = casubs[s].attrs, Covers(t, s, r),
         NEW part \in Discovered(s, r)
  PROVE  \E p \in Parts(t, r) : Shows(p, part)
<1>1. CASE op[t].ens = Elements(casubs[s].entities)
  <2>1. part \in Parts(t, r)
    BY <1>1 DEF Parts, Discovered, WithType
  <2> QED BY <2>1 DEF Shows
<1>2. CASE Asks(op[t].ens, regs[r])
  <2>1. PICK g, E, A, ens : g = regs[r] /\ E = Elements(casubs[s].entities) /\ A = casubs[s].attrs /\ ens = op[t].ens
    OBVIOUS
  <2>2. part \in PartsFound(g, "", E, A) /\ Parts(t, r) = PartsFound(g, "", ens, A)
    BY <2>1 DEF Discovered, WithType, Parts
  <2>3. Asks(ens, g)
    BY <1>2, <2>1
  <2>4. \E p \in PartsFound(g, "", ens, A) : Shows(p, part)
    BY <2>2, <2>3, ShowsAll
  <2> QED BY <2>2, <2>4
<1> QED BY <1>1, <1>2 DEF Covers

\* A subscriber is told, or there is nothing to tell.
LEMMA RegistrationsKnow ==
  ASSUME KnowingInv, NEW t \in Threads, registrations(t)
  PROVE  KnowInv'
<1>1. /\ pc[t] = "registrations" /\ DOMAIN op[t].subs # {}
      /\ UNCHANGED <<inst, regs, casubs, now, semaphore, requests>>
  BY RegistrationsEffect DEF KnowingInv, Inv
<1>2. DOMAIN op = Threads /\ DOMAIN op[t] = OpFields /\ pc \in [Threads -> Places]
  BY <1>1 DEF KnowingInv, Inv, TypeInv, OpType
<1>3. PICK c : c = CurrentSub(t)
  OBVIOUS
<1>4. ASSUME Calm, NEW r, Covers(t, c, r), c \in DOMAIN casubs, NEW part \in Discovered(c, r)
      PROVE  \E p \in Parts(t, r) : Shows(p, part)
  <2>1. c \in DOMAIN op[t].subs
    BY <1>1, <1>3, CurrentSubIsIn DEF KnowingInv, Inv
  <2>2. op[t].subs[c] = casubs[c].attrs
    BY <1>1, <1>4, <2>1 DEF KnowingInv, KnowInv, GatherInv
  <2> QED BY <1>3, <1>4, <2>2, CoveredParts
<1>5. CASE /\ told' = told /\ pc' = pc
           /\ op' = [op EXCEPT ![t].subs = Without(@, c)]
           /\ ~inst.dbFails => Found(t) = {}
  <2>1. OthersStay(t) /\ pc'[t] = "registrations" /\ op'[t].ens = op[t].ens /\ op'[t].subs = Without(op[t].subs, c)
    BY <1>1, <1>2, <1>5 DEF OthersStay, OpFields
  <2>2. DOMAIN op'[t].subs = DOMAIN op[t].subs \ {c} /\ \A s \in DOMAIN op'[t].subs : op'[t].subs[s] = op[t].subs[s]
    BY <2>1 DEF Without
  <2>3. ASSUME Calm, NEW s \in DOMAIN casubs, NEW r \in DOMAIN regs, Telling(t, s), Covers(t, s, r)
        PROVE  Telling(t, s)' \/ \A part \in Discovered(s, r) : Knows(s, r, part)'
    <3>1. CASE s # c
      BY <2>1, <2>2, <2>3, <3>1 DEF Telling
    <3>2. CASE s = c
      <4>1. Parts(t, r) = {}
        BY <1>5, <2>3 DEF Calm, Found
      <4> QED BY <1>4, <2>3, <3>2, <4>1
    <3> QED BY <3>1, <3>2
  <2> QED BY <1>1, <1>5, <2>1, <2>2, <2>3, TellingFrame
<1>6. CASE /\ told' = told \cup {<<c, r, Parts(t, r)>> : r \in Found(t)}
           /\ pc' = [pc EXCEPT ![t] = "count"] /\ op' = op
  <2>1. OthersStay(t) /\ pc'[t] = "count" /\ told \subseteq told'
    BY <1>2, <1>6 DEF OthersStay
  <2>2. CurrentSub(t)' = c
    BY <1>3, <1>6 DEF CurrentSub
  <2>3. ASSUME Calm, NEW s \in DOMAIN casubs, NEW r \in DOMAIN regs, Telling(t, s), Covers(t, s, r)
        PROVE  Telling(t, s)' \/ \A part \in Discovered(s, r) : Knows(s, r, part)'
    <3>1. CASE s # c
      BY <1>6, <2>1, <2>2, <2>3, <3>1 DEF Telling
    <3>2. CASE s = c
      <4> SUFFICES ASSUME NEW part \in Discovered(s, r) PROVE Knows(s, r, part)'
        OBVIOUS
      <4>1. PICK p \in Parts(t, r) : Shows(p, part)
        BY <1>4, <2>3, <3>2
      <4>2. PICK n : n = <<c, r, Parts(t, r)>>
        OBVIOUS
      <4>3. n \in told' /\ n[1] = s /\ n[2] = r /\ n[3] = Parts(t, r)
        BY <1>6, <3>2, <4>1, <4>2 DEF Found
      <4> QED BY <4>1, <4>3 DEF Knows
    <3> QED BY <3>1, <3>2
  <2> QED BY <1>1, <1>6, <2>1, <2>3, TellingFrame
<1> QED BY <1>3, <1>5, <1>6, RegistrationsEffect DEF KnowingInv, Inv

\* The notification is counted, and the next subscriber is told.
LEMMA CountKnow ==
  ASSUME KnowingInv, NEW t \in Threads, count(t)
  PROVE  KnowInv'
<1>1. pc[t] = "count" /\ UNCHANGED <<inst, regs, now, told>> /\ pc' = [pc EXCEPT ![t] = "registrations"]
  BY DEF count, Goto
<1>2. DOMAIN op = Threads /\ DOMAIN op[t] = OpFields /\ pc \in [Threads -> Places]
  BY <1>1 DEF KnowingInv, Inv, TypeInv, OpType
<1>3. PICK c : c = CurrentSub(t)
  OBVIOUS
<1>4. /\ casubs' = casubs \/ (c \in DOMAIN casubs /\ casubs' = [casubs EXCEPT ![c].count = @ + 1])
      /\ op' = [op EXCEPT ![t].subs = Without(@, c)]
  BY <1>3 DEF count
<1>5. /\ OthersStay(t) /\ pc'[t] = "registrations" /\ op'[t].ens = op[t].ens /\ op'[t].subs = Without(op[t].subs, c)
  BY <1>1, <1>2, <1>4 DEF OthersStay, OpFields
<1>6. DOMAIN op'[t].subs = DOMAIN op[t].subs \ {c} /\ \A s \in DOMAIN op'[t].subs : op'[t].subs[s] = op[t].subs[s]
  BY <1>5 DEF Without
<1>7. DOMAIN casubs' = DOMAIN casubs
  BY <1>4
<1>8. ASSUME NEW s \in DOMAIN casubs
      PROVE  /\ casubs'[s].entities = casubs[s].entities /\ casubs'[s].attrs = casubs[s].attrs
             /\ casubs'[s].expiration = casubs[s].expiration
  <2>1. DOMAIN casubs[s] = SubFields
    BY DEF KnowingInv, Inv, TypeInv, IsSub
  <2> QED BY <1>4, <2>1 DEF SubFields
<1>9. ASSUME NEW s, Telling(t, s) PROVE Telling(t, s)'
  BY <1>1, <1>3, <1>5, <1>6, <1>9 DEF Telling
<1> QED BY <1>1, <1>5, <1>6, <1>7, <1>8, <1>9, TellingFrame

\* Time passes.
LEMMA ClockKnow ==
  ASSUME KnowingInv, clock
  PROVE  KnowInv'
<1>1. now \in Nat /\ now' = now + 1 /\ now' \in Nat /\ UNCHANGED <<inst, regs, casubs, pc, op, told>>
  BY DEF clock, KnowingInv, Inv, TypeInv
<1>2. \A r \in DOMAIN regs' : regs'[r].expiration \in Nat
  BY <1>1 DEF KnowingInv, KnowInv
<1>3. Calm' => Calm
  BY <1>1 DEF Calm, Exclusive
<1>4. ASSUME NEW s \in DOMAIN casubs, Live(casubs[s])' PROVE Live(casubs[s])
  <2>1. casubs[s].expiration \in Nat
    BY DEF KnowingInv, Inv, TypeInv, IsSub
  <2> QED BY <1>1, <1>4, <2>1 DEF Live
<1>5. ASSUME Calm', NEW u \in Threads PROVE GatherInv(u)'
  <2>1. GatherInv(u)
    BY <1>3, <1>5 DEF KnowingInv, KnowInv
  <2>2. \A s \in DOMAIN casubs : \A p : triggers(casubs[s], p)' => triggers(casubs[s], p)
    BY <1>1, <1>4 DEF triggers
  <2> QED BY <1>1, <2>1, <2>2 DEF GatherInv
<1>6. ASSUME Calm', NEW s \in DOMAIN casubs', NEW r \in DOMAIN regs' PROVE ToldInv(s, r)'
  <2> SUFFICES ASSUME Live(casubs[s])', Findable(casubs[s].entities)'
               PROVE  \/ \A part \in Discovered(s, r)' : Knows(s, r, part)'
                      \/ \E u \in Threads : Telling(u, s)' /\ Covers(u, s, r)'
    BY DEF ToldInv
  <2>1. s \in DOMAIN casubs /\ r \in DOMAIN regs /\ Findable(casubs[s].entities) /\ Live(casubs[s])
    BY <1>1, <1>4 DEF Findable, Elements
  <2>2. ToldInv(s, r) /\ regs[r].expiration \in Nat
    BY <1>3, <1>6, <2>1 DEF KnowingInv, KnowInv
  <2>3. CASE \A part \in Discovered(s, r) : Knows(s, r, part)
    BY <1>1, <2>1, <2>2, <2>3, KnownStays
  <2>4. ASSUME NEW u \in Threads, Telling(u, s), Covers(u, s, r) PROVE Telling(u, s)' /\ Covers(u, s, r)'
    BY <1>1, <2>4 DEF Telling, Covers, CurrentSub, Elements
  <2> QED BY <2>1, <2>2, <2>3, <2>4 DEF ToldInv
<1> QED BY <1>2, <1>5, <1>6 DEF KnowInv

\* Every step keeps what is known, or still to be told.
LEMMA KnowNext == KnowingInv /\ [Next]_vars => KnowingInv'
<1> SUFFICES ASSUME KnowingInv, [Next]_vars PROVE KnowInv'
  BY InvNext DEF KnowingInv
<1>1. CASE UNCHANGED vars
  <2>1. UNCHANGED <<inst, regs, casubs, now, pc, op, told>>
    BY <1>1 DEF vars
  <2>2. \A u \in Threads : GatherInv(u)' <=> GatherInv(u)
    BY <2>1 DEF GatherInv, triggers, Live
  <2>3. Calm' <=> Calm
    BY <2>1 DEF Calm, Exclusive
  <2>4. \A s, r : Discovered(s, r)' = Discovered(s, r)
    BY <2>1 DEF Discovered, PartsFound, queried, Live, Elements
  <2>5. ASSUME NEW s, NEW r, ToldInv(s, r) PROVE ToldInv(s, r)'
    <3>1. \A part : Knows(s, r, part) => Knows(s, r, part)'
      BY <2>1 DEF Knows
    <3>2. \A u \in Threads : Telling(u, s) /\ Covers(u, s, r) => (Telling(u, s) /\ Covers(u, s, r))'
      BY <2>1 DEF Telling, Covers, CurrentSub, Elements
    <3>3. (Live(casubs[s]) /\ Findable(casubs[s].entities))' => Live(casubs[s]) /\ Findable(casubs[s].entities)
      BY <2>1 DEF Live, Findable, Elements
    <3> QED BY <2>4, <2>5, <3>1, <3>2, <3>3 DEF ToldInv
  <2> QED BY <2>1, <2>2, <2>3, <2>5 DEF KnowingInv, KnowInv
<1>2. CASE clock
  BY <1>2, ClockKnow
<1>3. ASSUME NEW t \in Threads, receive(t) \/ Step(t) PROVE KnowInv'
  BY <1>3, ReceiveKnow, FindRegistrationKnow, TriggeredKnow, StoreKnow, InsertKnow, FindSubscriptionKnow,
     UpdateSubscriptionKnow, UnsubscribeKnow, RegistrationsKnow, CountKnow, AllNotifiedKnow DEF Step
<1> QED BY <1>1, <1>2, <1>3 DEF Next

\* Where the operations are serialised and the database does not fail, a
\* subscriber whose entities have types, and patterns that mean to JavaScript what
\* they mean to regcomp(), has been told of every provider of an entity with a
\* type that discoverContextAvailability would find for that subscription,
\* whenever nobody is at work: the subscriptions that addTriggeredSubscriptions()
\* gathers before processRegisterContext() stores the registration are all that it
\* concerns, and a subscription that is created or rewritten is told of what was
\* there.
THEOREM AvailabilitySubscribersKnow == Spec => []SubscribersKnow
<1>1. Init => KnowingInv
  <2> SUFFICES ASSUME Init PROVE KnowInv
    BY InvInit DEF KnowingInv
  <2>1. DOMAIN casubs = {} /\ DOMAIN regs = {} /\ \A t \in Threads : pc[t] = "idle"
    BY DEF Init
  <2> QED BY <2>1 DEF KnowInv, GatherInv
<1>2. KnowingInv => SubscribersKnow
  <2> SUFFICES ASSUME KnowingInv, Exclusive, ~inst.dbFails, Quiet, NEW s \in DOMAIN casubs,
                      Live(casubs[s]), Findable(casubs[s].entities),
                      NEW d \in processDiscoverContextAvailability("", casubs[s].entities, casubs[s].attrs, 0, MaxRequests).responses,
                      NEW part \in WithType(d[2])
               PROVE  Knows(s, d[1], part)
    BY DEF SubscribersKnow, Knows, Shows, WithType
  <2>1. PICK r \in DOMAIN regs : d = <<r, PartsFound(regs[r], "", Elements(casubs[s].entities), casubs[s].attrs)>>
    BY DEF processDiscoverContextAvailability, Page
  <2>2. d[1] = r /\ part \in Discovered(s, r)
    BY <2>1 DEF Discovered
  <2>3. ToldInv(s, r) /\ \A t \in Threads : ~ Telling(t, s)
    BY DEF KnowingInv, KnowInv, Calm, Quiet, Telling
  <2> QED BY <2>2, <2>3 DEF ToldInv
<1> QED BY <1>1, <1>2, KnowNext, PTL DEF Spec
=============================================================================
