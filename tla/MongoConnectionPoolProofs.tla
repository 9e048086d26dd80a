--------------------- MODULE MongoConnectionPoolProofs ---------------------
(***************************************************************************)
(* Proofs about the connection pool, for every number of threads and every *)
(* pool size.                                                              *)
(***************************************************************************)
EXTENDS MongoConnectionPool, FiniteSetTheorems, WellFoundedInduction, TLAPS

\* The first slot of a non-empty set of slots is a slot of that set.
LEMMA MinInSet ==
  ASSUME NEW S \in SUBSET Nat, S # {}
  PROVE  Min(S) \in S
<1> DEFINE R == OpToRel(<, Nat)
<1>1. \E x \in S : \A y \in S : ~ (<<y, x>> \in R)
  <2> HIDE DEF R
  <2>1. IsWellFoundedOn(R, Nat)
    BY NatLessThanWellFounded DEF R
  <2> QED BY <2>1, WFMin
<1>2. \A x, y \in Nat : <<y, x>> \in R <=> y < x
  BY DEF OpToRel
<1> HIDE DEF R
<1>3. PICK x \in S : \A y \in S : ~ (<<y, x>> \in R)
  BY <1>1
<1>4. \A y \in S : ~ (y < x)
  BY <1>2, <1>3
<1>5. \E z \in S : \A y \in S : z =< y
  BY <1>4
<1> QED BY <1>5 DEF Min
-----------------------------------------------------------------------------
(* A connection in use belongs to one thread.                              *)

\* The threads that hold connectionPoolSem.
InVector(t) == pc[t] \in {"scan", "mark", "releaseScan"}

VectorGuarded ==
  /\ \A t, u \in Threads : InVector(t) /\ InVector(u) => t = u
  /\ \A t \in Threads : InVector(t) => connectionPoolSem = 0

\* A slot about to be marked is still free, a connection in use is not, and a
\* pointer names the slot it was made for.
SlotsConsistent ==
  /\ \A ix \in Slots : connection[ix] \in {ix, NULL}
  /\ \A t \in Threads : pc[t] = "mark" /\ found[t] # NULL => free[found[t]]
  /\ \A t \in Threads : Using(t) /\ conn[t] # NULL =>
       ~ free[conn[t]] /\ connection[conn[t]] = conn[t]

PermitsBounded == connectionSem + Cardinality(PermitHolders) + lost =< PoolSize

\* The inductive invariant: exclusive use needs the guard of the vector, and
\* the range of connectionSem needs the count of the permits.
PoolInv == TypeOK /\ VectorGuarded /\ SlotsConsistent /\ ExclusiveConnection /\ PermitsBounded

\* The slots are as many as the pool is large.
LEMMA SlotsNat == Slots \in SUBSET Nat /\ IsFiniteSet(Slots) /\ Cardinality(Slots) = PoolSize
<1>1. PoolSize - 1 \in Int /\ PoolSize > 0 /\ PoolSize \in Int
  BY PoolAssumption
<1> QED BY <1>1, FS_Interval DEF Slots

\* Permit holders are threads, so there are finitely many.
LEMMA HoldersFinite ==
  /\ IsFiniteSet(PermitHolders)
  /\ Cardinality(PermitHolders) \in Nat
<1>1. PermitHolders \in SUBSET Threads
  BY DEF PermitHolders
<1> QED BY <1>1, PoolAssumption, FS_Subset, FS_CardinalityType

\* mongoConnectionPoolInit() establishes the invariant.
LEMMA PoolInit == Init => PoolInv
<1> SUFFICES ASSUME Init PROVE PoolInv
  OBVIOUS
<1> USE PoolAssumption DEF Init, mongoConnectionPoolInit
<1>1. TypeOK
  BY DEF TypeOK
<1>2. VectorGuarded /\ ExclusiveConnection
  BY DEF VectorGuarded, ExclusiveConnection, InVector, Using
<1>3. SlotsConsistent
  BY DEF SlotsConsistent, Using, mongoConnect
<1>4. PermitHolders = {}
  BY DEF PermitHolders
<1>5. PermitsBounded
  BY <1>4, FS_EmptySet DEF PermitsBounded
<1> QED BY <1>1, <1>2, <1>3, <1>5 DEF PoolInv

\* The permits held move with the program counter of the thread that steps.
LEMMA HoldersEnter ==
  ASSUME TypeOK, NEW t \in Threads, Goto(t, "get", "getPool")
  PROVE  Cardinality(PermitHolders') = Cardinality(PermitHolders) + 1
<1>1. PermitHolders' = PermitHolders \cup {t} /\ t \notin PermitHolders
  BY DEF PermitHolders, TypeOK, Goto
<1> QED BY <1>1, HoldersFinite, FS_AddElement

\* A thread that goes idle gives up its permit.
LEMMA HoldersLeave ==
  ASSUME TypeOK, NEW t \in Threads, NEW from \in {"got", "releaseScan"}, Goto(t, from, "idle")
  PROVE  Cardinality(PermitHolders') = Cardinality(PermitHolders) - 1
<1>1. PermitHolders' = PermitHolders \ {t} /\ t \in PermitHolders
  BY DEF PermitHolders, TypeOK, Goto
<1> QED BY <1>1, HoldersFinite, FS_RemoveElement


\* A thread that goes idle without a release loses its permit.
LEMMA LoseStep ==
  ASSUME PoolInv, NEW t \in Threads, ReturnOnNull(t) \/ ReturnOnAssertion(t)
  PROVE  PoolInv'
<1> USE DEF PoolInv, ReturnOnNull, ReturnOnAssertion, poolVars
<1>0. NULL \notin Slots
  BY PoolAssumption
<1>1. Goto(t, "got", "idle") /\ lost' = lost + 1 /\ connectionSem' = connectionSem
  OBVIOUS
<1>2. Cardinality(PermitHolders') = Cardinality(PermitHolders) - 1
  BY <1>1, HoldersLeave
<1>3. Cardinality(PermitHolders) \in Nat /\ Cardinality(PermitHolders) # 0
  <2>1. t \in PermitHolders
    BY <1>1 DEF PermitHolders, Goto
  <2> QED BY <2>1, HoldersFinite, FS_EmptySet
<1>4. PermitsBounded' /\ lost' \in 0 .. PoolSize
  BY <1>1, <1>2, <1>3, PoolAssumption DEF PermitsBounded, TypeOK
<1>5. TypeOK'
  BY <1>4 DEF TypeOK, Goto
<1>6. /\ pc'[t] = "idle" /\ free' = free /\ connection' = connection /\ found' = found
      /\ connectionPoolSem' = connectionPoolSem
      /\ \A u \in Threads : u # t => pc'[u] = pc[u] /\ conn'[u] = conn[u]
  BY DEF TypeOK, Goto
<1>7. VectorGuarded' /\ ExclusiveConnection'
  BY <1>6 DEF VectorGuarded, ExclusiveConnection, InVector, Using
<1>8. SlotsConsistent'
  BY <1>6 DEF SlotsConsistent, Using
<1> QED BY <1>4, <1>5, <1>7, <1>8

\* A thread that enters the vector finds it unoccupied and closes it.
LEMMA TakePoolSemStep ==
  ASSUME PoolInv, NEW t \in Threads,
         \/ TakePoolSem(t, "getPool", "scan")
         \/ TakePoolSem(t, "release", "releaseScan")
  PROVE  PoolInv'
<1> USE DEF PoolInv, TakePoolSem, Goto
<1>1. TypeOK'
  BY DEF TypeOK
<1>2. VectorGuarded'
  BY DEF TypeOK, VectorGuarded, InVector
<1>3. SlotsConsistent'
  BY DEF TypeOK, SlotsConsistent, Using
<1>4. ExclusiveConnection'
  BY DEF TypeOK, ExclusiveConnection, Using
<1>5. PermitHolders' = PermitHolders
  BY DEF TypeOK, PermitHolders
<1>6. PermitsBounded'
  BY <1>5 DEF PermitsBounded
<1> QED BY <1>1, <1>2, <1>3, <1>4, <1>6

\* The end of mongoPoolConnectionGet().
LEMMA MarkSlotTakenStep ==
  ASSUME PoolInv, NEW t \in Threads, MarkSlotTaken(t)
  PROVE  PoolInv'
<1> USE DEF PoolInv, MarkSlotTaken, Goto
<1>0. NULL \notin Slots
  BY PoolAssumption
<1>1. TypeOK'
  BY <1>0 DEF TypeOK
<1>2. VectorGuarded'
  BY DEF TypeOK, VectorGuarded, InVector
<1>3. SlotsConsistent' /\ ExclusiveConnection'
  <2>1. CASE found[t] = NULL
    BY <2>1 DEF TypeOK, SlotsConsistent, ExclusiveConnection, Using, VectorGuarded, InVector
  <2>2. CASE found[t] # NULL
    <3>1. found[t] \in Slots /\ free[found[t]]
      BY <2>2 DEF TypeOK, SlotsConsistent
    <3>2. \A u \in Threads : u # t /\ Using(u) /\ conn[u] # NULL => conn[u] # found[t]
      BY <3>1 DEF SlotsConsistent
    <3>3. conn'[t] \in {found[t], NULL} /\ connection[found[t]] = conn'[t]
      BY <2>2, <3>1 DEF TypeOK, SlotsConsistent
    <3>4. \A u \in Threads : u # t => conn'[u] = conn[u] /\ pc'[u] = pc[u] /\ found'[u] = found[u] /\ pc[u] # "mark"
      BY DEF TypeOK, VectorGuarded, InVector
    <3>5. \A ix \in Slots : free'[ix] = IF ix = found[t] THEN FALSE ELSE free[ix]
      BY <2>2 DEF TypeOK
    <3>6. connection' = connection /\ pc'[t] = "got" /\ Using(t)'
      BY DEF TypeOK, Using
    <3>7. \A u \in Threads : u # t => Using(u)' = Using(u)
      BY <3>4 DEF Using
    <3>8. SlotsConsistent'
      <4>1. \A ix \in Slots : connection'[ix] \in {ix, NULL}
        BY <3>6 DEF SlotsConsistent
      <4>2. \A u \in Threads : ~ (pc'[u] = "mark")
        BY <3>4, <3>6
      <4>3. ASSUME NEW u \in Threads, Using(u)', conn'[u] # NULL
            PROVE  ~ free'[conn'[u]] /\ connection'[conn'[u]] = conn'[u]
        <5>1. CASE u = t
          BY <5>1, <4>3, <3>1, <3>3, <3>5, <3>6
        <5>2. CASE u # t
          BY <5>2, <4>3, <3>2, <3>4, <3>5, <3>6, <3>7 DEF SlotsConsistent, TypeOK
        <5> QED BY <5>1, <5>2
      <4> QED BY <4>1, <4>2, <4>3 DEF SlotsConsistent
    <3>9. ExclusiveConnection'
      BY <3>2, <3>3, <3>4, <3>7 DEF ExclusiveConnection
    <3> QED BY <3>8, <3>9
  <2> QED BY <2>1, <2>2
<1>4. PermitHolders' = PermitHolders
  BY DEF TypeOK, PermitHolders
<1>5. PermitsBounded'
  BY <1>4 DEF PermitsBounded
<1> QED BY <1>1, <1>2, <1>3, <1>5

\* mongoPoolConnectionRelease().
LEMMA ReleaseStep ==
  ASSUME PoolInv, NEW t \in Threads, mongoPoolConnectionRelease(t)
  PROVE  PoolInv'
<1> DEFINE same == {ix \in Slots : connection[ix] = conn[t]}
<1> USE DEF PoolInv
<1>0. NULL \notin Slots
  BY PoolAssumption
<1>a. pc[t] = "releaseScan" /\ pc' = [pc EXCEPT ![t] = "idle"] /\ Goto(t, "releaseScan", "idle")
  BY DEF mongoPoolConnectionRelease, Goto
<1>b. connectionPoolSem' = 1 /\ conn' = [conn EXCEPT ![t] = NULL]
      /\ connection' = connection /\ owner' = owner /\ found' = found /\ lost' = lost
  BY DEF mongoPoolConnectionRelease
<1>c. \/ same = {} /\ free' = free /\ connectionSem' = connectionSem
      \/ same # {} /\ free' = [free EXCEPT ![Min(same)] = TRUE] /\ connectionSem' = connectionSem + 1
  BY DEF mongoPoolConnectionRelease
<1>d. same # {} => Min(same) \in same
  BY MinInSet, SlotsNat
<1> HIDE DEF same
<1>1. Cardinality(PermitHolders') = Cardinality(PermitHolders) - 1
  BY <1>a, HoldersLeave
<1>2. PermitsBounded' /\ connectionSem' \in 0 .. PoolSize
  <2>1. connectionSem' \in Nat /\ connectionSem' =< connectionSem + 1
    BY <1>c DEF TypeOK
  <2>2. Cardinality(PermitHolders) \in Nat /\ Cardinality(PermitHolders) # 0
    <3>1. t \in PermitHolders
      BY <1>a DEF PermitHolders
    <3> QED BY <3>1, HoldersFinite, FS_EmptySet
  <2> QED BY <2>1, <2>2, <1>1, <1>b, PoolAssumption DEF PermitsBounded, TypeOK
<1>3. TypeOK'
  BY <1>0, <1>2, <1>a, <1>b, <1>c, <1>d DEF TypeOK, same
<1>4. VectorGuarded'
  BY <1>a, <1>b DEF TypeOK, VectorGuarded, InVector
<1>5. \A u \in Threads : u # t => pc'[u] = pc[u] /\ conn'[u] = conn[u] /\ pc[u] # "mark"
  BY <1>a, <1>b DEF TypeOK, VectorGuarded, InVector
<1>6. pc'[t] = "idle"
  BY <1>a DEF TypeOK
<1>7. \A ix \in Slots : free'[ix] # free[ix] => connection[ix] = conn[t]
  BY <1>c, <1>d DEF TypeOK, same
<1>8. SlotsConsistent'
  <2>1. ASSUME NEW u \in Threads, Using(u)', conn'[u] # NULL
        PROVE  ~ free'[conn'[u]] /\ connection'[conn'[u]] = conn'[u]
    <3>1. u # t /\ Using(u) /\ conn'[u] = conn[u]
      BY <1>5, <1>6, <2>1 DEF Using
    <3>2. conn[u] # conn[t]
      BY <3>1, <2>1, <1>a DEF ExclusiveConnection, Using
    <3>3. conn[u] \in Slots /\ ~ free[conn[u]] /\ connection[conn[u]] = conn[u]
      BY <3>1, <2>1 DEF SlotsConsistent, TypeOK
    <3> QED BY <1>7, <1>b, <3>1, <3>2, <3>3
  <2>2. \A u \in Threads : pc'[u] # "mark"
    BY <1>5, <1>6
  <2> QED BY <2>1, <2>2, <1>b DEF SlotsConsistent
<1>9. ExclusiveConnection'
  BY <1>5, <1>6 DEF ExclusiveConnection, Using
<1> QED BY <1>2, <1>3, <1>4, <1>8, <1>9

\* Every step keeps the invariant.
LEMMA PoolNext == PoolInv /\ [Next]_vars => PoolInv'
<1> SUFFICES ASSUME PoolInv, [Next]_vars PROVE PoolInv'
  OBVIOUS
<1> USE DEF PoolInv
<1>0. NULL \notin Slots
  BY PoolAssumption
<1>1. ASSUME NEW t \in Threads, NEW who \in {"operation", "caller", "entitiesQuery"}, getMongoConnection(t, who)
      PROVE  PoolInv'
  <2> USE <1>1 DEF getMongoConnection, Goto, poolVars
  <2>1. TypeOK'
    BY DEF TypeOK
  <2>2. VectorGuarded' /\ SlotsConsistent' /\ ExclusiveConnection'
    BY DEF TypeOK, VectorGuarded, SlotsConsistent, ExclusiveConnection, InVector, Using
  <2>3. PermitHolders' = PermitHolders
    BY DEF TypeOK, PermitHolders
  <2> QED BY <2>1, <2>2, <2>3 DEF PermitsBounded
<1>2. ASSUME NEW t \in Threads, WaitConnectionSem(t)
      PROVE  PoolInv'
  <2> USE <1>2 DEF WaitConnectionSem
  <2>1. Cardinality(PermitHolders') = Cardinality(PermitHolders) + 1
    BY HoldersEnter
  <2>2. PermitsBounded'
    BY <2>1, HoldersFinite, PoolAssumption DEF PermitsBounded, TypeOK
  <2>3. TypeOK'
    BY PoolAssumption DEF TypeOK, Goto
  <2>4. VectorGuarded' /\ SlotsConsistent' /\ ExclusiveConnection'
    BY DEF TypeOK, VectorGuarded, SlotsConsistent, ExclusiveConnection, InVector, Using, Goto
  <2> QED BY <2>2, <2>3, <2>4
<1>3. ASSUME NEW t \in Threads, WaitPoolSemToGet(t) \/ WaitPoolSemToRelease(t)
      PROVE  PoolInv'
  BY <1>3, TakePoolSemStep DEF WaitPoolSemToGet, WaitPoolSemToRelease
<1>4. ASSUME NEW t \in Threads, FindFreeSlot(t)
      PROVE  PoolInv'
  <2> DEFINE freeSlots == {ix \in Slots : free[ix]}
  <2>1. /\ Goto(t, "scan", "mark") /\ UNCHANGED <<poolVars, owner, conn, lost>>
        /\ found' = [found EXCEPT ![t] = IF freeSlots = {} THEN NULL ELSE Min(freeSlots)]
    BY <1>4 DEF FindFreeSlot
  <2>2. freeSlots # {} => Min(freeSlots) \in freeSlots
    BY MinInSet, SlotsNat
  <2>3. TypeOK'
    BY <2>1, <2>2 DEF TypeOK, Goto, poolVars
  <2>4. VectorGuarded' /\ ExclusiveConnection'
    BY <2>1 DEF TypeOK, VectorGuarded, ExclusiveConnection, InVector, Using, Goto, poolVars
  <2>5. SlotsConsistent'
    BY <2>1, <2>2, <1>0 DEF TypeOK, VectorGuarded, SlotsConsistent, InVector, Using, Goto, poolVars
  <2>6. PermitHolders' = PermitHolders
    BY <2>1 DEF TypeOK, PermitHolders, Goto
  <2> QED BY <2>1, <2>3, <2>4, <2>5, <2>6 DEF PermitsBounded, poolVars
<1>5. ASSUME NEW t \in Threads, MarkSlotTaken(t)
      PROVE  PoolInv'
  BY <1>5, MarkSlotTakenStep
<1>6. ASSUME NEW t \in Threads, ReturnOnNull(t) \/ ReturnOnAssertion(t)
      PROVE  PoolInv'
  BY <1>6, LoseStep
<1>7. ASSUME NEW t \in Threads, Operate(t)
      PROVE  PoolInv'
  <2> USE <1>7 DEF Operate, Goto, poolVars
  <2>1. TypeOK'
    BY DEF TypeOK
  <2>2. VectorGuarded' /\ SlotsConsistent' /\ ExclusiveConnection'
    BY DEF TypeOK, VectorGuarded, SlotsConsistent, ExclusiveConnection, InVector, Using
  <2>3. PermitHolders' = PermitHolders
    BY DEF TypeOK, PermitHolders
  <2> QED BY <2>1, <2>2, <2>3 DEF PermitsBounded
<1>8. ASSUME NEW t \in Threads, mongoPoolConnectionRelease(t)
      PROVE  PoolInv'
  BY <1>8, ReleaseStep
<1>9. CASE UNCHANGED vars
  BY <1>9 DEF vars, TypeOK, VectorGuarded, SlotsConsistent, ExclusiveConnection, PermitsBounded,
              InVector, Using, PermitHolders
<1>10. ASSUME NEW t \in Threads, Call(t)
       PROVE  PoolInv'
  BY <1>1, <1>10 DEF Call, collectionCount, collectionFindOne, collectionInsert, collectionUpdate,
       collectionRemove, collectionCreateIndex, runCollectionCommand, collectionQuery, collectionRangedQuery, entitiesQuery
<1> QED BY <1>2, <1>3, <1>4, <1>5, <1>6, <1>7, <1>8, <1>9, <1>10 DEF Next, Work

\* The inductive invariant holds in every state of the pool.
THEOREM PoolInvariant == Spec => []PoolInv
BY PoolInit, PoolNext, PTL DEF Spec

\* Both semaphores stay in their ranges, for every pool size and every number
\* of threads.
THEOREM PoolTypeCorrect == Spec => []TypeOK
BY PoolInvariant, PTL DEF PoolInv

\* mongoPoolConnectionGet never hands a connection to two threads at a time,
\* even if some of the slots hold NULL.
THEOREM PoolExclusive == Spec => []ExclusiveConnection
BY PoolInvariant, PTL DEF PoolInv

-----------------------------------------------------------------------------
(* With every connection made at startup, a thread that passed             *)
(* connectionSem finds a free slot, and a lost permit is a stranded slot.  *)

FreeSlots == {ix \in Slots : free[ix]}

Getting == {t \in Threads : pc[t] \in {"getPool", "scan", "mark"}}

SlotFound == \A t \in Threads : pc[t] = "mark" => found[t] # NULL

\* The inductive invariant: the free slots are the available permits and the
\* permits of the threads that have yet to mark a slot, and the stranded ones
\* are the lost permits.
AccountInv ==
  /\ \A ix \in Slots : connection[ix] = ix
  /\ \A t \in Threads : Using(t) => conn[t] # NULL
  /\ Cardinality(FreeSlots) = connectionSem + Cardinality(Getting)
  /\ Cardinality(Stranded) = lost
  /\ SlotFound

\* The sets that are counted are finite.
LEMMA SetsFinite ==
  /\ IsFiniteSet(FreeSlots) /\ Cardinality(FreeSlots) \in Nat
  /\ IsFiniteSet(Getting) /\ Cardinality(Getting) \in Nat
  /\ IsFiniteSet(Stranded) /\ Cardinality(Stranded) \in Nat
<1>1. FreeSlots \in SUBSET Slots /\ Getting \in SUBSET Threads /\ Stranded \in SUBSET Slots
  BY DEF FreeSlots, Getting, Stranded
<1> QED BY <1>1, SlotsNat, PoolAssumption, FS_Subset, FS_CardinalityType

\* At startup all slots are free and all permits available.
LEMMA AccountInit == AllConnected /\ Init => AccountInv
<1> SUFFICES ASSUME AllConnected, Init PROVE AccountInv
  OBVIOUS
<1> USE DEF Init, mongoConnectionPoolInit
<1>1. \A ix \in Slots : connection[ix] = ix
  BY DEF mongoConnect, AllConnected
<1>2. FreeSlots = Slots /\ Getting = {} /\ Stranded = {}
  BY DEF FreeSlots, Getting, Stranded
<1>3. Cardinality(FreeSlots) = PoolSize /\ Cardinality(Getting) = 0 /\ Cardinality(Stranded) = 0
  BY <1>2, SlotsNat, FS_EmptySet
<1>4. SlotFound /\ \A t \in Threads : ~ Using(t)
  BY DEF SlotFound, Using
<1> QED BY <1>1, <1>3, <1>4, PoolAssumption DEF AccountInv

\* A step of a thread that changes none of the counts.
LEMMA AccountStutter ==
  ASSUME PoolInv, AccountInv, NEW t \in Threads,
         \/ Goto(t, "idle", "get")
         \/ Goto(t, "getPool", "scan")
         \/ Goto(t, "got", "release")
         \/ Goto(t, "release", "releaseScan"),
         UNCHANGED <<free, connection, connectionSem, found, conn, lost>>
  PROVE  AccountInv'
<1> USE DEF PoolInv, Goto
<1>1. FreeSlots' = FreeSlots /\ Getting' = Getting
  BY DEF TypeOK, FreeSlots, Getting
<1>2. \A u \in Threads : Using(u)' <=> Using(u)
  BY DEF TypeOK, Using
<1>3. \A u \in Threads : Using(u)' => conn'[u] # NULL
  BY <1>2 DEF AccountInv
<1>4. SlotFound'
  BY DEF TypeOK, AccountInv, SlotFound
<1>5. \A ix \in Slots : connection'[ix] = ix
  BY DEF AccountInv
<1>6. Cardinality(FreeSlots') = connectionSem' + Cardinality(Getting')
  BY <1>1 DEF AccountInv
<1>7. Stranded' = Stranded
  BY <1>2 DEF Stranded
<1> QED BY <1>3, <1>4, <1>5, <1>6, <1>7 DEF AccountInv

\* Taking a slot moves it from the free ones to the taken ones.
LEMMA AccountMark ==
  ASSUME PoolInv, AccountInv, NEW t \in Threads, MarkSlotTaken(t)
  PROVE  AccountInv'
<1> USE DEF PoolInv
<1>1. Goto(t, "mark", "got") /\ found[t] # NULL /\ found[t] \in Slots
  BY DEF MarkSlotTaken, AccountInv, SlotFound, TypeOK, Goto
<1>2. /\ conn' = [conn EXCEPT ![t] = connection[found[t]]]
      /\ free' = [free EXCEPT ![found[t]] = FALSE]
      /\ found' = [found EXCEPT ![t] = NULL]
      /\ UNCHANGED <<connection, connectionSem, lost>>
  BY <1>1 DEF MarkSlotTaken
<1>3. free[found[t]]
  BY <1>1 DEF SlotsConsistent, Goto
<1>4. FreeSlots' = FreeSlots \ {found[t]} /\ found[t] \in FreeSlots
  BY <1>1, <1>2, <1>3 DEF FreeSlots, TypeOK
<1>5. Getting' = Getting \ {t} /\ t \in Getting
  BY <1>1 DEF Getting, TypeOK, Goto
<1>6. Cardinality(FreeSlots') = connectionSem' + Cardinality(Getting')
  <2>1. Cardinality(FreeSlots') = Cardinality(FreeSlots) - 1
    BY <1>4, SetsFinite, FS_RemoveElement
  <2>2. Cardinality(Getting') = Cardinality(Getting) - 1
    BY <1>5, SetsFinite, FS_RemoveElement
  <2> QED BY <2>1, <2>2, <1>2, SetsFinite DEF AccountInv, TypeOK
<1>7. Stranded' = Stranded
  <2>1. conn'[t] = found[t] /\ Using(t)' /\ ~ Using(t)
    BY <1>1, <1>2 DEF AccountInv, TypeOK, Using, Goto
  <2>2. \A u \in Threads : u # t => conn'[u] = conn[u] /\ (Using(u)' <=> Using(u))
    BY <1>1, <1>2 DEF TypeOK, Using, Goto
  <2>3. \A ix \in Slots : free'[ix] = IF ix = found[t] THEN FALSE ELSE free[ix]
    BY <1>2 DEF TypeOK
  <2>4. found[t] \notin Stranded /\ found[t] \notin Stranded'
    BY <1>3, <2>1 DEF Stranded
  <2>5. \A ix \in Slots : ix # found[t] => (ix \in Stranded' <=> ix \in Stranded)
    BY <2>1, <2>2, <2>3 DEF Stranded
  <2>6. Stranded \in SUBSET Slots /\ Stranded' \in SUBSET Slots
    BY DEF Stranded
  <2> QED BY <2>4, <2>5, <2>6
<1>8. SlotFound'
  BY <1>1, <1>2 DEF TypeOK, AccountInv, SlotFound, Goto
<1>9. \A u \in Threads : Using(u)' => conn'[u] # NULL
  <2>1. conn'[t] \in Slots
    BY <1>1, <1>2 DEF AccountInv, TypeOK
  <2>2. \A u \in Threads : u # t => conn'[u] = conn[u] /\ Using(u)' = Using(u)
    BY <1>1, <1>2 DEF TypeOK, Using, Goto
  <2> QED BY <2>1, <2>2, PoolAssumption DEF AccountInv
<1> QED BY <1>2, <1>6, <1>7, <1>8, <1>9 DEF AccountInv

\* A release frees one slot and posts one permit.
LEMMA AccountRelease ==
  ASSUME PoolInv, AccountInv, NEW t \in Threads, mongoPoolConnectionRelease(t)
  PROVE  AccountInv'
<1> DEFINE same == {ix \in Slots : connection[ix] = conn[t]}
<1> USE DEF PoolInv
<1>1. Goto(t, "releaseScan", "idle") /\ UNCHANGED <<connection, found, lost>> /\ conn' = [conn EXCEPT ![t] = NULL]
  BY DEF mongoPoolConnectionRelease
<1>2. conn[t] \in Slots /\ ~ free[conn[t]]
  BY <1>1 DEF AccountInv, SlotsConsistent, TypeOK, Using, Goto
<1>3. same = {conn[t]}
  BY <1>2 DEF AccountInv
<1>4. Min(same) = conn[t]
  <2>1. Min(same) \in same
    BY <1>3, MinInSet, SlotsNat
  <2> QED BY <2>1, <1>3
<1>5. free' = [free EXCEPT ![conn[t]] = TRUE] /\ connectionSem' = connectionSem + 1
  BY <1>3, <1>4 DEF mongoPoolConnectionRelease
<1> HIDE DEF same
<1>6. FreeSlots' = FreeSlots \cup {conn[t]} /\ conn[t] \notin FreeSlots
  BY <1>2, <1>5 DEF FreeSlots, TypeOK
<1>7. Getting' = Getting
  BY <1>1 DEF Getting, TypeOK, Goto
<1>8. Cardinality(FreeSlots') = connectionSem' + Cardinality(Getting')
  <2>1. Cardinality(FreeSlots') = Cardinality(FreeSlots) + 1
    BY <1>6, SetsFinite, FS_AddElement
  <2> QED BY <2>1, <1>5, <1>7, SetsFinite DEF AccountInv, TypeOK
<1>9. Stranded' = Stranded
  <2>1. Using(t) /\ ~ Using(t)'
    BY <1>1 DEF TypeOK, Using, Goto
  <2>2. \A u \in Threads : u # t => conn'[u] = conn[u] /\ (Using(u)' <=> Using(u))
    BY <1>1 DEF TypeOK, Using, Goto
  <2>3. \A ix \in Slots : free'[ix] = IF ix = conn[t] THEN TRUE ELSE free[ix]
    BY <1>5 DEF TypeOK
  <2>4. conn[t] \notin Stranded /\ conn[t] \notin Stranded'
    BY <1>2, <2>1, <2>3 DEF Stranded
  <2>5. \A ix \in Slots : ix # conn[t] => (ix \in Stranded' <=> ix \in Stranded)
    BY <2>1, <2>2, <2>3 DEF Stranded
  <2>6. Stranded \in SUBSET Slots /\ Stranded' \in SUBSET Slots
    BY DEF Stranded
  <2> QED BY <2>4, <2>5, <2>6
<1>10. SlotFound'
  BY <1>1 DEF TypeOK, AccountInv, SlotFound, Goto
<1>11. \A u \in Threads : Using(u)' => conn'[u] # NULL
  BY <1>1 DEF TypeOK, AccountInv, Using, Goto
<1> QED BY <1>1, <1>8, <1>9, <1>10, <1>11 DEF AccountInv

\* entitiesQuery() strands the slot of its connection.
LEMMA AccountLose ==
  ASSUME PoolInv, AccountInv, NEW t \in Threads, ReturnOnAssertion(t)
  PROVE  AccountInv'
<1> USE DEF PoolInv
<1>1. /\ Goto(t, "got", "idle") /\ UNCHANGED <<free, connection, connectionSem, found>>
      /\ lost' = lost + 1 /\ conn' = [conn EXCEPT ![t] = NULL]
  BY DEF ReturnOnAssertion, poolVars
<1>2. Using(t) /\ ~ Using(t)' /\ conn[t] \in Slots /\ ~ free[conn[t]]
  BY <1>1 DEF AccountInv, SlotsConsistent, TypeOK, Using, Goto
<1>3. \A u \in Threads : u # t => conn'[u] = conn[u] /\ (Using(u)' <=> Using(u))
  BY <1>1 DEF TypeOK, Using, Goto
<1>4. FreeSlots' = FreeSlots /\ Getting' = Getting
  BY <1>1 DEF FreeSlots, Getting, TypeOK, Goto
<1>5. Stranded' = Stranded \cup {conn[t]} /\ conn[t] \notin Stranded
  <2>1. \A u \in Threads : u # t /\ Using(u) => conn[u] # conn[t]
    BY <1>2, PoolAssumption DEF ExclusiveConnection
  <2>2. conn[t] \in Stranded' /\ conn[t] \notin Stranded
    BY <1>1, <1>2, <1>3, <2>1 DEF Stranded
  <2>3. \A ix \in Slots : ix # conn[t] => (ix \in Stranded' <=> ix \in Stranded)
    BY <1>1, <1>2, <1>3 DEF Stranded
  <2>4. Stranded \in SUBSET Slots /\ Stranded' \in SUBSET Slots
    BY DEF Stranded
  <2> QED BY <2>2, <2>3, <2>4
<1>6. Cardinality(Stranded') = lost'
  BY <1>1, <1>5, SetsFinite, FS_AddElement DEF AccountInv
<1>7. SlotFound' /\ \A u \in Threads : Using(u)' => conn'[u] # NULL
  BY <1>1, <1>2, <1>3 DEF TypeOK, AccountInv, SlotFound, Goto
<1> QED BY <1>1, <1>4, <1>6, <1>7 DEF AccountInv

\* Every step keeps free slots and permits in balance.
LEMMA AccountNext == PoolInv /\ AccountInv /\ [Next]_vars => AccountInv'
<1> SUFFICES ASSUME PoolInv, AccountInv, [Next]_vars PROVE AccountInv'
  OBVIOUS
<1> USE DEF PoolInv
<1>1. ASSUME NEW t \in Threads, Call(t)
      PROVE  AccountInv'
  <2>1. PICK who : getMongoConnection(t, who)
    BY <1>1 DEF Call, collectionCount, collectionFindOne, collectionInsert, collectionUpdate,
         collectionRemove, collectionCreateIndex, runCollectionCommand, collectionQuery, collectionRangedQuery, entitiesQuery
  <2> QED BY <2>1, AccountStutter DEF getMongoConnection, poolVars
<1>2. ASSUME NEW t \in Threads, WaitConnectionSem(t)
      PROVE  AccountInv'
  <2> USE <1>2 DEF WaitConnectionSem
  <2>3. Getting' = Getting \cup {t} /\ t \notin Getting /\ FreeSlots' = FreeSlots
    BY DEF Getting, FreeSlots, TypeOK, Goto
  <2>4. Cardinality(Getting') = Cardinality(Getting) + 1
    BY <2>3, SetsFinite, FS_AddElement
  <2>5. Cardinality(FreeSlots') = connectionSem' + Cardinality(Getting')
    BY <2>3, <2>4, SetsFinite DEF AccountInv, TypeOK
  <2>6. SlotFound' /\ \A u \in Threads : Using(u)' => conn'[u] # NULL
    BY DEF TypeOK, AccountInv, SlotFound, Using, Goto
  <2>7. Stranded' = Stranded
    <3>1. \A u \in Threads : Using(u)' <=> Using(u)
      BY DEF TypeOK, Using, Goto
    <3> QED BY <3>1 DEF Stranded
  <2> QED BY <2>5, <2>6, <2>7 DEF AccountInv
<1>3. ASSUME NEW t \in Threads, WaitPoolSemToGet(t) \/ WaitPoolSemToRelease(t) \/ Operate(t)
      PROVE  AccountInv'
  BY <1>3, AccountStutter DEF WaitPoolSemToGet, WaitPoolSemToRelease, TakePoolSem, Operate, poolVars
<1>4. ASSUME NEW t \in Threads, FindFreeSlot(t)
      PROVE  AccountInv'
  <2>1. /\ Goto(t, "scan", "mark") /\ UNCHANGED <<poolVars, owner, conn, lost>>
        /\ found' = [found EXCEPT ![t] = IF FreeSlots = {} THEN NULL ELSE Min(FreeSlots)]
    BY <1>4 DEF FindFreeSlot, FreeSlots
  <2>2. FreeSlots # {}
    <3>1. t \in Getting
      BY <2>1 DEF Getting, Goto
    <3>2. Cardinality(Getting) # 0
      BY <3>1, SetsFinite, FS_EmptySet
    <3>3. Cardinality(FreeSlots) # 0
      BY <3>2, SetsFinite DEF AccountInv, TypeOK
    <3> QED BY <3>3, SetsFinite, FS_EmptySet
  <2>3. Min(FreeSlots) \in Slots
    <3>1. FreeSlots \in SUBSET Nat
      BY SlotsNat DEF FreeSlots
    <3> QED BY <2>2, <3>1, MinInSet DEF FreeSlots
  <2>4. SlotFound'
    BY <2>1, <2>2, <2>3, PoolAssumption DEF TypeOK, AccountInv, SlotFound, Goto
  <2>5. FreeSlots' = FreeSlots /\ Getting' = Getting
    BY <2>1 DEF TypeOK, FreeSlots, Getting, Goto, poolVars
  <2>6. \A u \in Threads : Using(u)' <=> Using(u)
    BY <2>1 DEF TypeOK, Using, Goto
  <2>7. Stranded' = Stranded
    BY <2>1, <2>6 DEF Stranded, poolVars
  <2>8. \A u \in Threads : Using(u)' => conn'[u] # NULL
    BY <2>1, <2>6 DEF AccountInv
  <2> QED BY <2>1, <2>4, <2>5, <2>7, <2>8 DEF AccountInv, poolVars
<1>5. ASSUME NEW t \in Threads, MarkSlotTaken(t)
      PROVE  AccountInv'
  BY <1>5, AccountMark
<1>6. ASSUME NEW t \in Threads, ReturnOnNull(t) \/ ReturnOnAssertion(t)
      PROVE  AccountInv'
  <2>1. CASE ReturnOnNull(t)
    BY <2>1 DEF ReturnOnNull, AccountInv, Using, Goto
  <2> QED BY <1>6, <2>1, AccountLose
<1>7. ASSUME NEW t \in Threads, mongoPoolConnectionRelease(t)
      PROVE  AccountInv'
  BY <1>7, AccountRelease
<1>8. CASE UNCHANGED vars
  BY <1>8 DEF vars, AccountInv, SlotFound, FreeSlots, Getting, Stranded, Using
<1> QED BY <1>1, <1>2, <1>3, <1>4, <1>5, <1>6, <1>7, <1>8 DEF Next, Work

\* No step makes or drops a connection.
LEMMA ConnectionsKept == [Next]_vars => connection' = connection
<1> SUFFICES ASSUME [Next]_vars PROVE connection' = connection
  OBVIOUS
<1>1. CASE UNCHANGED vars
  BY <1>1 DEF vars
<1>2. ASSUME NEW t \in Threads, Call(t)
      PROVE  connection' = connection
  BY <1>2 DEF Call, collectionCount, collectionFindOne, collectionInsert, collectionUpdate,
       collectionRemove, collectionCreateIndex, runCollectionCommand, collectionQuery,
       collectionRangedQuery, entitiesQuery, getMongoConnection, poolVars
<1>3. ASSUME NEW t \in Threads, Work(t)
      PROVE  connection' = connection
  BY <1>3 DEF Work, WaitConnectionSem, WaitPoolSemToGet, FindFreeSlot, MarkSlotTaken, ReturnOnNull,
       ReturnOnAssertion, Operate, WaitPoolSemToRelease, TakePoolSem, mongoPoolConnectionRelease, poolVars
<1> QED BY <1>1, <1>2, <1>3 DEF Next

\* The balance holds in every behaviour in which every mongoConnect() succeeded.
THEOREM PoolAccount == Spec => [](AllConnected => AccountInv)
<1> DEFINE Inv == AllConnected => AccountInv
<1>1. Init => Inv
  BY AccountInit
<1>2. PoolInv /\ Inv /\ [Next]_vars => Inv'
  BY AccountNext, ConnectionsKept DEF AllConnected
<1> HIDE DEF Inv
<1>3. Spec => []Inv
  BY <1>1, <1>2, PoolInvariant, PTL DEF Spec
<1> QED BY <1>3 DEF Inv

PermitsBalanced == connectionSem + Cardinality(PermitHolders) + lost = PoolSize

\* Every step moves permits and neither makes nor drops one.  A release finds
\* the slot of its pointer: a thread has a NULL only if some slot holds one.
LEMMA BalancedNext ==
  PoolInv /\ (AllConnected => AccountInv) /\ PermitsBalanced /\ [Next]_vars => PermitsBalanced'
<1> SUFFICES ASSUME PoolInv, AllConnected => AccountInv, PermitsBalanced, [Next]_vars
             PROVE  PermitsBalanced'
  OBVIOUS
<1> USE HoldersFinite DEF PoolInv
<1>1. ASSUME NEW t \in Threads, Call(t)
      PROVE  PermitsBalanced'
  <2>1. PICK who : getMongoConnection(t, who)
    BY <1>1 DEF Call, collectionCount, collectionFindOne, collectionInsert, collectionUpdate,
         collectionRemove, collectionCreateIndex, runCollectionCommand, collectionQuery, collectionRangedQuery, entitiesQuery
  <2>2. PermitHolders' = PermitHolders
    BY <2>1 DEF getMongoConnection, TypeOK, PermitHolders, Goto
  <2> QED BY <2>1, <2>2 DEF getMongoConnection, poolVars, PermitsBalanced
<1>2. ASSUME NEW t \in Threads, WaitConnectionSem(t)
      PROVE  PermitsBalanced'
  BY <1>2, HoldersEnter DEF WaitConnectionSem, PermitsBalanced, TypeOK
<1>3. ASSUME NEW t \in Threads,
             \/ WaitPoolSemToGet(t) \/ WaitPoolSemToRelease(t)
             \/ FindFreeSlot(t) \/ MarkSlotTaken(t) \/ Operate(t)
      PROVE  PermitsBalanced'
  <2>1. PermitHolders' = PermitHolders
    BY <1>3 DEF WaitPoolSemToGet, WaitPoolSemToRelease, TakePoolSem, FindFreeSlot, MarkSlotTaken,
         Operate, TypeOK, PermitHolders, Goto
  <2>2. connectionSem' = connectionSem /\ lost' = lost
    BY <1>3 DEF WaitPoolSemToGet, WaitPoolSemToRelease, TakePoolSem, FindFreeSlot, MarkSlotTaken,
         Operate, poolVars
  <2> QED BY <2>1, <2>2 DEF PermitsBalanced
<1>4. ASSUME NEW t \in Threads, ReturnOnNull(t) \/ ReturnOnAssertion(t)
      PROVE  PermitsBalanced'
  <2>1. Goto(t, "got", "idle") /\ lost' = lost + 1 /\ connectionSem' = connectionSem
    BY <1>4 DEF ReturnOnNull, ReturnOnAssertion, poolVars
  <2>2. Cardinality(PermitHolders') = Cardinality(PermitHolders) - 1
    BY <2>1, HoldersLeave
  <2> QED BY <2>1, <2>2 DEF PermitsBalanced, TypeOK
<1>5. ASSUME NEW t \in Threads, mongoPoolConnectionRelease(t)
      PROVE  PermitsBalanced'
  <2>1. Goto(t, "releaseScan", "idle") /\ lost' = lost
    BY <1>5 DEF mongoPoolConnectionRelease
  <2>2. \E ix \in Slots : connection[ix] = conn[t]
    <3>1. Using(t)
      BY <2>1 DEF Using, Goto
    <3>2. CASE conn[t] = NULL
      BY <3>1, <3>2 DEF AllConnected, AccountInv
    <3>3. CASE conn[t] # NULL
      BY <3>1, <3>3 DEF SlotsConsistent, TypeOK
    <3> QED BY <3>2, <3>3
  <2>3. connectionSem' = connectionSem + 1
    BY <1>5, <2>2 DEF mongoPoolConnectionRelease
  <2>4. Cardinality(PermitHolders') = Cardinality(PermitHolders) - 1
    BY <2>1, HoldersLeave
  <2> QED BY <2>1, <2>3, <2>4 DEF PermitsBalanced, TypeOK
<1>6. CASE UNCHANGED vars
  BY <1>6 DEF vars, PermitsBalanced, PermitHolders
<1> QED BY <1>1, <1>2, <1>3, <1>4, <1>5, <1>6 DEF Next, Work

\* At startup every permit is available.
LEMMA BalancedInit == Init => PermitsBalanced
<1> SUFFICES ASSUME Init PROVE PermitsBalanced
  OBVIOUS
<1>1. PermitHolders = {}
  BY DEF Init, PermitHolders
<1> QED BY <1>1, FS_EmptySet, PoolAssumption DEF Init, mongoConnectionPoolInit, PermitsBalanced

\* Each permit of connectionSem is available, held by a thread inside an
\* operation, or lost in one of the two places that return without a release,
\* for every pool, connected or not; and if every mongoConnect() succeeded, the
\* lost permits are as many as the slots that stay marked as taken for nobody.
THEOREM PoolPermitsAccounted == Spec => []PermitsAccounted
<1> DEFINE Acc == AllConnected => AccountInv
<1>1. PoolInv /\ Acc /\ PermitsBalanced /\ [Next]_vars => PermitsBalanced'
  BY BalancedNext
<1>2. Acc /\ PermitsBalanced => PermitsAccounted
  BY DEF AccountInv, PermitsAccounted, PermitsBalanced
<1>3. Spec => []Acc
  BY PoolAccount
<1> HIDE DEF Acc
<1> QED BY <1>1, <1>2, <1>3, BalancedInit, PoolInvariant, PTL DEF Spec

\* If every mongoConnect() succeeded, mongoPoolConnectionGet never ends its
\* loop without a slot.
THEOREM PoolGetFindsFreeSlot == Spec => []GetFindsFreeSlot
<1>1. (AllConnected => AccountInv) => GetFindsFreeSlot
  BY DEF AccountInv, GetFindsFreeSlot, SlotFound
<1> QED BY <1>1, PoolAccount, PTL
=============================================================================
