------------------------ MODULE CurlContextsProofs ------------------------
(***************************************************************************)
(* The safety of the libcurl contexts, for any number of threads, keys,    *)
(* handles and calls.                                                      *)
(***************************************************************************)
EXTENDS CurlContexts, TLAPS

\* A call works with a context of the map, which is its key's, or with a handle
\* of its own.
Listed(t) == cc[t].pmutex # NULL
Private(t) == cc[t].pmutex = NULL /\ cc[t].curl # NULL

\* What a call has in its hands, by how far it has come
Holdings ==
  \A t \in Threads :
    /\ pc[t] \in {"idle", "new", "lock", "find"} => cc[t] = Empty
    /\ pc[t] = "new" => ~persistent
    /\ pc[t] \in {"lock", "find"} => key[t] \in Keys /\ persistent
    /\ pc[t] \in {"lockContext", "lockForTime", "addTime"} => Listed(t)
    /\ Listed(t) => /\ persistent
                    /\ cc[t].pmutex = key[t]
                    /\ key[t] \in DOMAIN contexts
                    /\ cc[t].curl = contexts[key[t]]

\* The mutex of a context of the map is held by the call that uses it.
Locked == \A t \in Threads : Listed(t) /\ pc[t] \in Using => pmutex[key[t]] = t

\* A handle of its own is in no other hands.
OwnHandles ==
  \A t \in Threads :
    Private(t) =>
      /\ cc[t].curl \in live
      /\ cc[t].curl \notin InMap
      /\ \A u \in Threads \ {t} : cc[u].curl # cc[t].curl
      /\ persistent => cc[t].curl \in unlisted

\* The map holds live handles, each one once, and only if it is used.
MapSound ==
  /\ InMap \subseteq live
  /\ \A k1, k2 \in DOMAIN contexts : contexts[k1] = contexts[k2] => k1 = k2
  /\ ~persistent => DOMAIN contexts = {} /\ unlisted = {}
  /\ unlisted \subseteq live

\* Every live handle is somewhere.
NoneLost ==
  \A h \in live : \/ h \in unlisted
                  \/ \E k \in DOMAIN contexts : contexts[k] = h
                  \/ \E t \in Threads : cc[t].curl = h

IInv == TypeOK /\ Holdings /\ Locked /\ OwnHandles /\ MapSound /\ NoneLost

\* At the start no handle exists and no mutex is locked.
LEMMA InitInv == Init => IInv
BY CurlAssumption DEF Init, IInv, TypeOK, Holdings, Locked, OwnHandles, MapSound, NoneLost,
   Listed, Private, InMap, Empty, Places, Using, Free

\* Two calls that use the same handle would use the same context, whose mutex
\* only one of them holds.
LEMMA ImpliesHandleExclusive == IInv => HandleExclusive
<1> SUFFICES ASSUME IInv, NEW t1 \in Threads, NEW t2 \in Threads, t1 # t2,
                    pc[t1] \in Using, pc[t2] \in Using, cc[t1].curl # NULL,
                    cc[t1].curl = cc[t2].curl
             PROVE  FALSE
  BY DEF HandleExclusive
<1>1. CASE Private(t1) \/ Private(t2)
  BY <1>1 DEF IInv, OwnHandles
<1>2. CASE Listed(t1) /\ Listed(t2)
  <2>1. key[t1] = key[t2]
    BY <1>2 DEF IInv, Holdings, MapSound
  <2> QED
    BY <1>2, <2>1 DEF IInv, Locked
<1> QED
  BY <1>1, <1>2 DEF Private, Listed

\* What is in use or in the map is alive, and what is alive is somewhere.
LEMMA ImpliesHandlesAccounted == IInv => HandlesAccounted
<1> SUFFICES ASSUME IInv PROVE HandlesAccounted
  OBVIOUS
<1>1. live \subseteq InMap \cup InUse \cup unlisted
  <2> SUFFICES ASSUME NEW h \in live PROVE h \in InMap \cup InUse \cup unlisted
    OBVIOUS
  <2>1. h # NULL
    BY CurlAssumption DEF IInv, TypeOK
  <2> QED
    BY <2>1 DEF IInv, NoneLost, InMap, InUse
<1>2. InUse \subseteq live
  BY DEF InUse, IInv, OwnHandles, MapSound, Holdings, Listed, Private, InMap
<1> QED
  BY <1>1, <1>2 DEF IInv, MapSound, HandlesAccounted

-----------------------------------------------------------------------------
(* The steps keep the invariant: one lemma for each kind of step.          *)

\* A call of get_curl_context() begins with nothing in its hands.
LEMMA Step_get_curl_context == ASSUME IInv, NEW t \in Threads, NEW k \in Keys, get_curl_context(t, k) PROVE IInv'
<1> USE CurlAssumption DEF get_curl_context, options, Goto
<1>1. TypeOK'
  BY DEF IInv, TypeOK, Places, Empty
<1>2. Holdings'
  BY DEF IInv, TypeOK, Holdings, Listed, Empty
<1>3. Locked'
  BY DEF IInv, TypeOK, Holdings, Locked, Listed, Using, Empty
<1>4. OwnHandles'
  BY DEF IInv, TypeOK, Holdings, OwnHandles, MapSound, Listed, Private, InMap, Empty
<1>5. MapSound'
  BY DEF IInv, TypeOK, Holdings, OwnHandles, MapSound, Listed, Private, InMap, Empty
<1>6. NoneLost'
  BY DEF IInv, TypeOK, Holdings, OwnHandles, MapSound, NoneLost, Listed, Private, InMap, Empty
<1> QED
  BY <1>1, <1>2, <1>3, <1>4, <1>5, <1>6 DEF IInv

\* Without persistent connections a new handle is the caller's own.
LEMMA Step_get_curl_context_new == ASSUME IInv, NEW t \in Threads, get_curl_context_new(t) PROVE IInv'
<1> USE CurlAssumption DEF get_curl_context_new, options, Goto
<1>1. TypeOK'
  BY DEF IInv, TypeOK, Places, Empty
<1>2. Holdings'
  BY DEF IInv, TypeOK, Holdings, Listed, Empty
<1>3. Locked'
  BY DEF IInv, TypeOK, Holdings, Locked, Listed, Using, Empty
<1>4. OwnHandles'
  <2>1. PICK h \in (Handles \ live) \cup {NULL} :
          /\ pc[t] = "new"
          /\ cc' = [cc EXCEPT ![t] = [curl |-> h, pmutex |-> NULL]]
          /\ live' = live \cup ({h} \ {NULL})
          /\ UNCHANGED <<options, contexts, unlisted>>
    OBVIOUS
  <2>2. cc[t] = Empty /\ ~persistent
    BY <2>1 DEF IInv, TypeOK, Holdings
  <2>3. /\ cc'[t] = [curl |-> h, pmutex |-> NULL]
        /\ \A u \in Threads \ {t} : cc'[u] = cc[u]
    BY <2>1 DEF IInv, TypeOK
  <2>4. InMap' = InMap /\ InMap \subseteq live
    BY <2>1 DEF IInv, MapSound, InMap
  <2>5. \A u \in Threads : cc[u].curl # NULL => cc[u].curl \in live
    BY DEF IInv, Holdings, OwnHandles, MapSound, Listed, Private, InMap
  <2> QED
    BY <2>1, <2>2, <2>3, <2>4, <2>5 DEF IInv, OwnHandles, Private
<1>5. MapSound'
  BY DEF IInv, TypeOK, Holdings, OwnHandles, MapSound, Listed, Private, InMap, Empty
<1>6. NoneLost'
  BY DEF IInv, TypeOK, Holdings, OwnHandles, MapSound, NoneLost, Listed, Private, InMap, Empty
<1> QED
  BY <1>1, <1>2, <1>3, <1>4, <1>5, <1>6 DEF IInv

\* contexts_mutex guards no handle.
LEMMA Step_lockContexts == ASSUME IInv, NEW t \in Threads, lockContexts(t) PROVE IInv'
<1> USE CurlAssumption DEF lockContexts, options, Goto
<1>1. TypeOK'
  BY DEF IInv, TypeOK, Places, Empty
<1>2. Holdings'
  BY DEF IInv, TypeOK, Holdings, Listed, Empty
<1>3. Locked'
  BY DEF IInv, TypeOK, Holdings, Locked, Listed, Using, Empty
<1>4. OwnHandles'
  BY DEF IInv, TypeOK, Holdings, OwnHandles, MapSound, Listed, Private, InMap, Empty
<1>5. MapSound'
  BY DEF IInv, TypeOK, Holdings, OwnHandles, MapSound, Listed, Private, InMap, Empty
<1>6. NoneLost'
  BY DEF IInv, TypeOK, Holdings, OwnHandles, MapSound, NoneLost, Listed, Private, InMap, Empty
<1> QED
  BY <1>1, <1>2, <1>3, <1>4, <1>5, <1>6 DEF IInv

\* The context of the key is copied from the map.
LEMMA Step_contextFound == ASSUME IInv, NEW t \in Threads, contextFound(t) PROVE IInv'
<1> USE CurlAssumption DEF contextFound, options, Goto
<1>1. TypeOK'
  BY DEF IInv, TypeOK, Places, Empty
<1>2. Holdings'
  BY DEF IInv, TypeOK, Holdings, Listed, Empty
<1>3. Locked'
  BY DEF IInv, TypeOK, Holdings, Locked, Listed, Using, Empty
<1>4. OwnHandles'
  BY DEF IInv, TypeOK, Holdings, OwnHandles, MapSound, Listed, Private, InMap, Empty
<1>5. MapSound'
  BY DEF IInv, TypeOK, Holdings, OwnHandles, MapSound, Listed, Private, InMap, Empty
<1>6. NoneLost'
  BY DEF IInv, TypeOK, Holdings, OwnHandles, MapSound, NoneLost, Listed, Private, InMap, Empty
<1> QED
  BY <1>1, <1>2, <1>3, <1>4, <1>5, <1>6 DEF IInv

\* A new handle enters the map under a key that has none.
LEMMA Step_contextCreated == ASSUME IInv, NEW t \in Threads, contextCreated(t) PROVE IInv'
<1>0. PICK h \in Handles \ live :
        /\ key[t] \notin DOMAIN contexts
        /\ pc[t] = "find" /\ pc' = [pc EXCEPT ![t] = "lockContext"]
        /\ cc' = [cc EXCEPT ![t] = [curl |-> h, pmutex |-> key[t]]]
        /\ contexts' = [k \in DOMAIN contexts \cup {key[t]} |-> IF k = key[t] THEN h ELSE contexts[k]]
        /\ live' = live \cup {h}
        /\ contextsMutex' = Free
        /\ UNCHANGED <<options, pmutex, unlisted, key, sends>>
  BY DEF contextCreated, Goto
<1> USE CurlAssumption DEF options
<1>a. /\ DOMAIN contexts' = DOMAIN contexts \cup {key[t]}
      /\ contexts'[key[t]] = h
      /\ \A k \in DOMAIN contexts : contexts'[k] = contexts[k]
  BY <1>0
<1>b. h # NULL /\ key[t] \in Keys /\ key[t] # NULL /\ persistent /\ cc[t] = Empty
  BY <1>0 DEF IInv, TypeOK, Holdings
<1>c. \A u \in Threads : cc[u].curl # h
  BY <1>0, <1>b DEF IInv, TypeOK, Holdings, OwnHandles, MapSound, Listed, Private, InMap
<1>d. /\ cc'[t] = [curl |-> h, pmutex |-> key[t]]
      /\ \A u \in Threads \ {t} : cc'[u] = cc[u]
  BY <1>0 DEF IInv, TypeOK
<1>e. InMap' = InMap \cup {h}
  BY <1>a DEF InMap
<1>1. TypeOK'
  <2>1. contexts' \in [DOMAIN contexts' -> Handles]
    BY <1>0, <1>a DEF IInv, TypeOK
  <2>2. cc' \in [Threads -> [curl : Handles \cup {NULL}, pmutex : Keys \cup {NULL}]]
    BY <1>0, <1>b DEF IInv, TypeOK
  <2> QED
    BY <1>0, <1>a, <1>b, <2>1, <2>2 DEF IInv, TypeOK, Places
<1>2. Holdings'
  BY <1>0, <1>a, <1>b, <1>d DEF IInv, TypeOK, Holdings, Listed, Empty
<1>3. Locked'
  BY <1>0, <1>a, <1>b, <1>d DEF IInv, TypeOK, Locked, Listed, Using
<1>4. OwnHandles'
  BY <1>0, <1>b, <1>c, <1>d, <1>e DEF IInv, OwnHandles, Private
<1>5. MapSound'
  <2>1. \A k \in DOMAIN contexts : contexts[k] # h
    BY <1>0 DEF IInv, MapSound, InMap
  <2> QED
    BY <1>0, <1>a, <1>b, <1>e, <2>1 DEF IInv, MapSound
<1>6. NoneLost'
  <2> SUFFICES ASSUME NEW g \in live', g \notin unlisted'
               PROVE  (\E k \in DOMAIN contexts' : contexts'[k] = g) \/ (\E u \in Threads : cc'[u].curl = g)
    BY DEF NoneLost
  <2>1. CASE g = h
    BY <1>a, <2>1
  <2>2. CASE g \in live
    <3>1. CASE \E k \in DOMAIN contexts : contexts[k] = g
      BY <3>1, <1>a
    <3>2. CASE \E u \in Threads : cc[u].curl = g
      <4>1. g # NULL
        BY <2>2 DEF IInv, TypeOK
      <4>2. \A u \in Threads : cc[u].curl = g => u # t
        BY <4>1, <1>b DEF Empty
      <4> QED
        BY <3>2, <4>2, <1>d
    <3> QED
      BY <2>2, <3>1, <3>2, <1>0 DEF IInv, NoneLost
  <2> QED
    BY <1>0, <2>1, <2>2
<1> QED
  BY <1>1, <1>2, <1>3, <1>4, <1>5, <1>6 DEF IInv

\* When curl_easy_init() fails the call goes on with nothing.
LEMMA Step_contextRefused == ASSUME IInv, NEW t \in Threads, contextRefused(t) PROVE IInv'
<1> USE CurlAssumption DEF contextRefused, options, Goto
<1>1. TypeOK'
  BY DEF IInv, TypeOK, Places, Empty
<1>2. Holdings'
  BY DEF IInv, TypeOK, Holdings, Listed, Empty
<1>3. Locked'
  BY DEF IInv, TypeOK, Holdings, Locked, Listed, Using, Empty
<1>4. OwnHandles'
  BY DEF IInv, TypeOK, Holdings, OwnHandles, MapSound, Listed, Private, InMap, Empty
<1>5. MapSound'
  BY DEF IInv, TypeOK, Holdings, OwnHandles, MapSound, Listed, Private, InMap, Empty
<1>6. NoneLost'
  BY DEF IInv, TypeOK, Holdings, OwnHandles, MapSound, NoneLost, Listed, Private, InMap, Empty
<1> QED
  BY <1>1, <1>2, <1>3, <1>4, <1>5, <1>6 DEF IInv

\* A handle without a mutex is its caller's own, and stays out of the map.
LEMMA Step_contextWithoutMutex == ASSUME IInv, NEW t \in Threads, contextWithoutMutex(t) PROVE IInv'
<1> USE CurlAssumption DEF contextWithoutMutex, options, Goto
<1>1. TypeOK'
  BY DEF IInv, TypeOK, Places, Empty
<1>2. Holdings'
  BY DEF IInv, TypeOK, Holdings, Listed, Empty
<1>3. Locked'
  BY DEF IInv, TypeOK, Holdings, Locked, Listed, Using, Empty
<1>4. OwnHandles'
  BY DEF IInv, TypeOK, Holdings, OwnHandles, MapSound, Listed, Private, InMap, Empty
<1>5. MapSound'
  BY DEF IInv, TypeOK, Holdings, OwnHandles, MapSound, Listed, Private, InMap, Empty
<1>6. NoneLost'
  BY DEF IInv, TypeOK, Holdings, OwnHandles, MapSound, NoneLost, Listed, Private, InMap, Empty
<1> QED
  BY <1>1, <1>2, <1>3, <1>4, <1>5, <1>6 DEF IInv

\* The context is used once its mutex is locked.
LEMMA Step_lockContext == ASSUME IInv, NEW t \in Threads, lockContext(t) PROVE IInv'
<1> USE CurlAssumption DEF lockContext, options, Goto
<1>1. TypeOK'
  BY DEF IInv, TypeOK, Places, Empty
<1>2. Holdings'
  BY DEF IInv, TypeOK, Holdings, Listed, Empty
<1>3. Locked'
  BY DEF IInv, TypeOK, Holdings, Locked, Listed, Using, Empty
<1>4. OwnHandles'
  BY DEF IInv, TypeOK, Holdings, OwnHandles, MapSound, Listed, Private, InMap, Empty
<1>5. MapSound'
  BY DEF IInv, TypeOK, Holdings, OwnHandles, MapSound, Listed, Private, InMap, Empty
<1>6. NoneLost'
  BY DEF IInv, TypeOK, Holdings, OwnHandles, MapSound, NoneLost, Listed, Private, InMap, Empty
<1> QED
  BY <1>1, <1>2, <1>3, <1>4, <1>5, <1>6 DEF IInv

\* The time is added up with the context locked.
LEMMA Step_lockForTime == ASSUME IInv, NEW t \in Threads, lockForTime(t) PROVE IInv'
<1> USE CurlAssumption DEF lockForTime, options, Goto
<1>1. TypeOK'
  BY DEF IInv, TypeOK, Places, Empty
<1>2. Holdings'
  BY DEF IInv, TypeOK, Holdings, Listed, Empty
<1>3. Locked'
  BY DEF IInv, TypeOK, Holdings, Locked, Listed, Using, Empty
<1>4. OwnHandles'
  BY DEF IInv, TypeOK, Holdings, OwnHandles, MapSound, Listed, Private, InMap, Empty
<1>5. MapSound'
  BY DEF IInv, TypeOK, Holdings, OwnHandles, MapSound, Listed, Private, InMap, Empty
<1>6. NoneLost'
  BY DEF IInv, TypeOK, Holdings, OwnHandles, MapSound, NoneLost, Listed, Private, InMap, Empty
<1> QED
  BY <1>1, <1>2, <1>3, <1>4, <1>5, <1>6 DEF IInv

\* contexts_mutex is unlocked and the context stays locked.
LEMMA Step_addTime == ASSUME IInv, NEW t \in Threads, addTime(t) PROVE IInv'
<1> USE CurlAssumption DEF addTime, options, Goto
<1>1. TypeOK'
  BY DEF IInv, TypeOK, Places, Empty
<1>2. Holdings'
  BY DEF IInv, TypeOK, Holdings, Listed, Empty
<1>3. Locked'
  BY DEF IInv, TypeOK, Holdings, Locked, Listed, Using, Empty
<1>4. OwnHandles'
  BY DEF IInv, TypeOK, Holdings, OwnHandles, MapSound, Listed, Private, InMap, Empty
<1>5. MapSound'
  BY DEF IInv, TypeOK, Holdings, OwnHandles, MapSound, Listed, Private, InMap, Empty
<1>6. NoneLost'
  BY DEF IInv, TypeOK, Holdings, OwnHandles, MapSound, NoneLost, Listed, Private, InMap, Empty
<1> QED
  BY <1>1, <1>2, <1>3, <1>4, <1>5, <1>6 DEF IInv

\* The transfer changes no context.
LEMMA Step_send == ASSUME IInv, NEW t \in Threads, send(t) PROVE IInv'
<1> USE CurlAssumption DEF send, options, Goto
<1>1. TypeOK'
  BY DEF IInv, TypeOK, Places, Empty
<1>2. Holdings'
  BY DEF IInv, TypeOK, Holdings, Listed, Empty
<1>3. Locked'
  BY DEF IInv, TypeOK, Holdings, Locked, Listed, Using, Empty
<1>4. OwnHandles'
  BY DEF IInv, TypeOK, Holdings, OwnHandles, MapSound, Listed, Private, InMap, Empty
<1>5. MapSound'
  BY DEF IInv, TypeOK, Holdings, OwnHandles, MapSound, Listed, Private, InMap, Empty
<1>6. NoneLost'
  BY DEF IInv, TypeOK, Holdings, OwnHandles, MapSound, NoneLost, Listed, Private, InMap, Empty
<1> QED
  BY <1>1, <1>2, <1>3, <1>4, <1>5, <1>6 DEF IInv

\* The context is unlocked and stays in the map.
LEMMA Step_release_curl_context_reuse == ASSUME IInv, NEW t \in Threads, release_curl_context_reuse(t) PROVE IInv'
<1> USE CurlAssumption DEF release_curl_context_reuse, options, Goto
<1>1. TypeOK'
  BY DEF IInv, TypeOK, Places, Empty
<1>2. Holdings'
  BY DEF IInv, TypeOK, Holdings, Listed, Empty
<1>3. Locked'
  BY DEF IInv, TypeOK, Holdings, Locked, Listed, Using, Empty
<1>4. OwnHandles'
  BY DEF IInv, TypeOK, Holdings, OwnHandles, MapSound, Listed, Private, InMap, Empty
<1>5. MapSound'
  BY DEF IInv, TypeOK, Holdings, OwnHandles, MapSound, Listed, Private, InMap, Empty
<1>6. NoneLost'
  BY DEF IInv, TypeOK, Holdings, OwnHandles, MapSound, NoneLost, Listed, Private, InMap, Empty
<1> QED
  BY <1>1, <1>2, <1>3, <1>4, <1>5, <1>6 DEF IInv

\* The handle is cleaned up, and it was in no other hands.
LEMMA Step_release_curl_context_new == ASSUME IInv, NEW t \in Threads, release_curl_context_new(t) PROVE IInv'
<1> USE CurlAssumption DEF release_curl_context_new, options, Goto
<1>1. TypeOK'
  BY DEF IInv, TypeOK, Places, Empty
<1>2. Holdings'
  BY DEF IInv, TypeOK, Holdings, Listed, Empty
<1>3. Locked'
  BY DEF IInv, TypeOK, Holdings, Locked, Listed, Using, Empty
<1>4. OwnHandles'
  BY DEF IInv, TypeOK, Holdings, OwnHandles, MapSound, Listed, Private, InMap, Empty
<1>5. MapSound'
  BY DEF IInv, TypeOK, Holdings, OwnHandles, MapSound, Listed, Private, InMap, Empty
<1>6. NoneLost'
  BY DEF IInv, TypeOK, Holdings, OwnHandles, MapSound, NoneLost, Listed, Private, InMap, Empty
<1> QED
  BY <1>1, <1>2, <1>3, <1>4, <1>5, <1>6 DEF IInv

-----------------------------------------------------------------------------
\* Every step of every thread keeps the invariant.
LEMMA NextInv == IInv /\ [Next]_vars => IInv'
<1> SUFFICES ASSUME IInv, [Next]_vars PROVE IInv'
  OBVIOUS
<1>1. ASSUME NEW t \in Threads, Step(t) PROVE IInv'
  BY <1>1, Step_get_curl_context_new, Step_lockContexts, Step_contextFound, Step_contextCreated,
     Step_contextRefused, Step_contextWithoutMutex, Step_lockContext, Step_lockForTime,
     Step_addTime, Step_send, Step_release_curl_context_reuse, Step_release_curl_context_new
     DEF Step
<1>2. ASSUME NEW t \in Threads, NEW k \in Keys, get_curl_context(t, k) PROVE IInv'
  BY <1>2, Step_get_curl_context
<1>3. CASE UNCHANGED vars
  BY <1>3 DEF vars, IInv, TypeOK, Holdings, Locked, OwnHandles, MapSound, NoneLost,
     Listed, Private, InMap
<1> QED
  BY <1>1, <1>2, <1>3 DEF Next

\* No handle is used by two calls of httpRequestSend() at a time, however many
\* threads, receivers and calls there are, in both notification modes.
THEOREM HandlesAreExclusive == Spec => []HandleExclusive
  BY InitInv, NextInv, ImpliesHandleExclusive, PTL DEF Spec

\* The handles get_curl_context() makes are the ones in the map, the ones in use
\* and the ones whose mutex could not be made, however many there are.
THEOREM HandlesAreAccounted == Spec => []HandlesAccounted
  BY InitInv, NextInv, ImpliesHandlesAccounted, PTL DEF Spec
=============================================================================
