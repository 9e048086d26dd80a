------------------------ MODULE MongoConnectionPool ------------------------
(***************************************************************************)
(* The pool of MongoDB connections of src/lib/mongoBackend                 *)
(* (mongoConnectionPool.cpp) and the two ways in which the rest of the     *)
(* broker uses it: the operations of connectionOperations.cpp that get and *)
(* release a connection themselves, and the cursor queries, whose caller   *)
(* keeps the connection until it has read the cursor.  One such caller,    *)
(* entitiesQuery(), has a way out on which it keeps it for ever.           *)
(*                                                                         *)
(* A connection is a slot number, standing for the address of the          *)
(* DBClientBase object made for that slot, or NULL where mongoConnect()    *)
(* failed at startup: mongoConnectionPoolInit() stores what it returns.    *)
(***************************************************************************)
EXTENDS Integers, FiniteSets, FiniteSetsExt

CONSTANTS
  Threads,         \* the request threads and the cache refresher
  PoolSize,        \* -dbPoolSize
  NULL,            \* the null pointer
  ConnectMayFail   \* TRUE: a mongoConnect() may fail while the pool is made

Slots == 0 .. PoolSize - 1

ASSUME PoolAssumption ==
  /\ IsFiniteSet(Threads)
  /\ PoolSize \in Nat \ {0}
  /\ NULL \notin Slots
  /\ ConnectMayFail \in BOOLEAN

VARIABLES
  free,               \* free[ix]: connectionPool[ix].free
  connection,         \* connection[ix]: connectionPool[ix].connection
  connectionSem,      \* value of the counting semaphore
  connectionPoolSem,  \* value of the binary semaphore that guards the vector
  pc,                 \* where each thread is
  owner,              \* who gives the connection back: the "operation", its
                      \* "caller", or the caller that is "entitiesQuery"
  found,              \* loop index of a thread in mongoPoolConnectionGet
  conn,               \* the connection a thread works with
  lost                \* history: permits whose operation ended without a release

poolVars == <<free, connection, connectionSem, connectionPoolSem>>
vars == <<free, connection, connectionSem, connectionPoolSem, pc, owner, found, conn, lost>>

Goto(t, from, to) == pc[t] = from /\ pc' = [pc EXCEPT ![t] = to]

-----------------------------------------------------------------------------
(* Startup.                                                                *)

\* What mongoConnect() returns for slot ix.
mongoConnect(ix) == IF ConnectMayFail THEN {ix, NULL} ELSE {ix}

mongoConnectionPoolInit ==
  /\ free = [ix \in Slots |-> TRUE]
  /\ connection \in {c \in [Slots -> Slots \cup {NULL}] : \A ix \in Slots : c[ix] \in mongoConnect(ix)}
  /\ connectionSem = PoolSize
  /\ connectionPoolSem = 1

Init ==
  /\ mongoConnectionPoolInit
  /\ pc = [t \in Threads |-> "idle"]
  /\ owner = [t \in Threads |-> "operation"]
  /\ found = [t \in Threads |-> NULL]
  /\ conn = [t \in Threads |-> NULL]
  /\ lost = 0

-----------------------------------------------------------------------------
(* A thread asks for a connection, on behalf of one operation.             *)

getMongoConnection(t, who) ==
  /\ Goto(t, "idle", "get")
  /\ owner' = [owner EXCEPT ![t] = who]
  /\ UNCHANGED <<poolVars, found, conn, lost>>

\* The operations that call getMongoConnection() themselves.
collectionCount(t) == getMongoConnection(t, "operation")
collectionFindOne(t) == getMongoConnection(t, "operation")
collectionInsert(t) == getMongoConnection(t, "operation")
collectionUpdate(t) == getMongoConnection(t, "operation")
collectionRemove(t) == getMongoConnection(t, "operation")
collectionCreateIndex(t) == getMongoConnection(t, "operation")
runCollectionCommand(t) == getMongoConnection(t, "operation")

\* The queries that hand out a cursor: the caller got the connection and
\* releases it after reading the cursor, or after a failed query.
collectionQuery(t) == getMongoConnection(t, "caller")
collectionRangedQuery(t) == getMongoConnection(t, "caller")

\* The ranged query whose caller treats one kind of exception by itself.
entitiesQuery(t) == getMongoConnection(t, "entitiesQuery")

-----------------------------------------------------------------------------
(* mongoPoolConnectionGet().                                               *)

\* sem_wait(&connectionSem)
WaitConnectionSem(t) ==
  /\ connectionSem > 0
  /\ Goto(t, "get", "getPool")
  /\ connectionSem' = connectionSem - 1
  /\ UNCHANGED <<free, connection, connectionPoolSem, owner, found, conn, lost>>

\* Mutant: the vector is entered without closing it to the other threads.
TakePoolSemShared(t, from, to) ==
  /\ connectionPoolSem = 1
  /\ Goto(t, from, to)
  /\ UNCHANGED <<poolVars, owner, found, conn, lost>>

\* sem_wait(&connectionPoolSem)
TakePoolSem(t, from, to) ==
  /\ connectionPoolSem = 1
  /\ Goto(t, from, to)
  /\ connectionPoolSem' = 0
  /\ UNCHANGED <<free, connection, connectionSem, owner, found, conn, lost>>

WaitPoolSemToGet(t) == TakePoolSem(t, "getPool", "scan")

\* The loop reads the flags up to the first free slot.
FindFreeSlot(t) ==
  /\ Goto(t, "scan", "mark")
  /\ LET freeSlots == {ix \in Slots : free[ix]}
     IN  found' = [found EXCEPT ![t] = IF freeSlots = {} THEN NULL ELSE Min(freeSlots)]
  /\ UNCHANGED <<poolVars, owner, conn, lost>>

\* It marks that slot as taken and the guard of the vector is given back. With
\* no free slot the function returns the NULL that 'connection' started with.
MarkSlotTaken(t) ==
  /\ Goto(t, "mark", "got")
  /\ IF found[t] = NULL
       THEN /\ conn' = [conn EXCEPT ![t] = NULL]
            /\ UNCHANGED free
       ELSE /\ conn' = [conn EXCEPT ![t] = connection[found[t]]]
            /\ free' = [free EXCEPT ![found[t]] = FALSE]
  /\ found' = [found EXCEPT ![t] = NULL]
  /\ connectionPoolSem' = 1
  /\ UNCHANGED <<connection, connectionSem, owner, lost>>

-----------------------------------------------------------------------------
(* The connection is used and given back.                                  *)

\* 'if (connection == NULL) ... return false': an operation that got its own
\* connection leaves at once, and its permit is never posted.
ReturnOnNull(t) ==
  /\ owner[t] = "operation" /\ conn[t] = NULL
  /\ Goto(t, "got", "idle")
  /\ lost' = lost + 1
  /\ UNCHANGED <<poolVars, owner, found, conn>>

\* 'catch (const AssertionException &e) ... return true': nextSafe() threw, and
\* entitiesQuery() puts the error into its answer and does not release.
ReturnOnAssertion(t) ==
  /\ owner[t] = "entitiesQuery" /\ conn[t] # NULL
  /\ Goto(t, "got", "idle")
  /\ lost' = lost + 1
  /\ conn' = [conn EXCEPT ![t] = NULL]
  /\ UNCHANGED <<poolVars, owner, found>>

\* The call of the driver; releaseMongoConnection() follows whether it returns
\* or throws anything else. A cursor query fails on NULL and its caller
\* releases all the same.
Operate(t) ==
  /\ owner[t] # "operation" \/ conn[t] # NULL
  /\ Goto(t, "got", "release")
  /\ UNCHANGED <<poolVars, owner, found, conn, lost>>

WaitPoolSemToRelease(t) == TakePoolSem(t, "release", "releaseScan")

\* Mutant: the 'break' of the release loop is missing.
ReleaseEveryMatch(t) ==
  /\ Goto(t, "releaseScan", "idle")
  /\ LET same == {ix \in Slots : connection[ix] = conn[t]}
     IN  /\ free' = [ix \in Slots |-> free[ix] \/ ix \in same]
         /\ connectionSem' = connectionSem + Cardinality(same)
  /\ connectionPoolSem' = 1
  /\ conn' = [conn EXCEPT ![t] = NULL]
  /\ UNCHANGED <<connection, owner, found, lost>>

\* Mutant: the slot is freed and the permit is not posted.
ReleaseWithoutPost(t) ==
  /\ Goto(t, "releaseScan", "idle")
  /\ free' = [ix \in Slots |-> free[ix] \/ connection[ix] = conn[t]]
  /\ connectionPoolSem' = 1
  /\ conn' = [conn EXCEPT ![t] = NULL]
  /\ UNCHANGED <<connection, connectionSem, owner, found, lost>>

\* mongoPoolConnectionRelease(): the first slot that holds this very pointer is
\* freed, and one permit is posted.
mongoPoolConnectionRelease(t) ==
  /\ Goto(t, "releaseScan", "idle")
  /\ LET same == {ix \in Slots : connection[ix] = conn[t]}
     IN  IF same = {}
           THEN UNCHANGED <<free, connectionSem>>
           ELSE /\ free' = [free EXCEPT ![Min(same)] = TRUE]
                /\ connectionSem' = connectionSem + 1
  /\ connectionPoolSem' = 1
  /\ conn' = [conn EXCEPT ![t] = NULL]
  /\ UNCHANGED <<connection, owner, found, lost>>

-----------------------------------------------------------------------------
Call(t) ==
  \/ collectionCount(t)
  \/ collectionFindOne(t)
  \/ collectionInsert(t)
  \/ collectionUpdate(t)
  \/ collectionRemove(t)
  \/ collectionCreateIndex(t)
  \/ runCollectionCommand(t)
  \/ collectionQuery(t)
  \/ collectionRangedQuery(t)
  \/ entitiesQuery(t)

Work(t) ==
  \/ WaitConnectionSem(t)
  \/ WaitPoolSemToGet(t)
  \/ FindFreeSlot(t)
  \/ MarkSlotTaken(t)
  \/ ReturnOnNull(t)
  \/ ReturnOnAssertion(t)
  \/ Operate(t)
  \/ WaitPoolSemToRelease(t)
  \/ mongoPoolConnectionRelease(t)

Next == \E t \in Threads : Call(t) \/ Work(t)

Spec == Init /\ [][Next]_vars

\* A thread inside an operation keeps running; POSIX semaphores promise no
\* order among their waiters, so nothing stronger than weak fairness is assumed.
FairSpec == Spec /\ \A t \in Threads : WF_vars(Work(t))
-----------------------------------------------------------------------------
(* Properties.                                                             *)

\* Every variable has its type; in particular neither semaphore of
\* mongoConnectionPool.cpp ever leaves its range.
TypeOK ==
  /\ free \in [Slots -> BOOLEAN]
  /\ connection \in [Slots -> Slots \cup {NULL}]
  /\ connectionSem \in 0 .. PoolSize
  /\ connectionPoolSem \in {0, 1}
  /\ pc \in [Threads -> {"idle", "get", "getPool", "scan", "mark", "got", "release", "releaseScan"}]
  /\ owner \in [Threads -> {"operation", "caller", "entitiesQuery"}]
  /\ found \in [Threads -> Slots \cup {NULL}]
  /\ conn \in [Threads -> Slots \cup {NULL}]
  /\ lost \in 0 .. PoolSize

Using(t) == pc[t] \in {"got", "release", "releaseScan"}

\* No two threads work with the same connection at the same time, also when
\* some slots hold NULL (a DBClientBase object is not thread safe).
ExclusiveConnection ==
  \A t, u \in Threads :
    Using(t) /\ Using(u) /\ conn[t] # NULL /\ conn[t] = conn[u] => t = u

\* The threads that passed sem_wait(&connectionSem) and have not posted yet.
PermitHolders == {t \in Threads : pc[t] \notin {"idle", "get"}}

\* Every mongoConnect() of the startup succeeded.
AllConnected == \A ix \in Slots : connection[ix] # NULL

\* The slots that are marked as taken while no thread works with their connection.
Stranded == {ix \in Slots : ~ free[ix] /\ \A t \in Threads : Using(t) => conn[t] # ix}

\* Every permit of connectionSem is available, held by a thread inside an
\* operation, or lost in one of the two places that return without a release
\* (a NULL connection in connectionOperations.cpp, an AssertionException in
\* entitiesQuery()): no release posts a permit twice or forgets it, whatever
\* pointers the slots hold.  When every connection was made, each lost permit is
\* a connection that stays marked as taken: "kept and not freed until we finish
\* using the connection" (mongoConnectionPool.cpp), and not freed then.
PermitsAccounted ==
  /\ connectionSem + Cardinality(PermitHolders) + lost = PoolSize
  /\ AllConnected => Cardinality(Stranded) = lost

\* When every connection was made, a thread that connectionSem let in finds a
\* free slot, also after connections were lost: the loop of
\* mongoPoolConnectionGet never ends without one.
GetFindsFreeSlot == AllConnected => \A t \in Threads : pc[t] = "mark" => found[t] # NULL

\* Connections keep being handed out while threads wait in
\* mongoPoolConnectionGet, unless every permit of the pool has been lost; then
\* they wait for ever.
WaitersServed ==
  (\E t \in Threads : pc[t] = "get") ~> (lost = PoolSize \/ \E t \in Threads : pc[t] = "got")
=============================================================================
