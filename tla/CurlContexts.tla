---------------------------- MODULE CurlContexts ----------------------------
(***************************************************************************)
(* The libcurl contexts of lib/common/sem.cpp and their use by             *)
(* httpRequestSend() (lib/rest/httpRequestSend.cpp), which all the threads *)
(* call that forward a request or send a notification.  With               *)
(* -notificationMode persistent there is one handle for each receiver (the *)
(* key is its address), kept in a map and guarded by a mutex of its own;   *)
(* the map has a mutex, too.  Otherwise each call makes its own handle.    *)
(*                                                                         *)
(* The handles are the connections libcurl may open; when none is left     *)
(* curl_easy_init() fails, and it may fail before.                         *)
(***************************************************************************)
EXTENDS Naturals, FiniteSets, Functions

CONSTANTS
  Threads,        \* the threads that send
  Keys,           \* the addresses they send to
  Handles,        \* the handles libcurl can make
  NULL,           \* the null pointer
  MaxSends        \* bound: calls of httpRequestSend()

Free == "free"

ASSUME CurlAssumption ==
  /\ NULL \notin Handles \cup Keys
  /\ Free \notin Threads
  /\ MaxSends \in Nat

VARIABLES
  persistent,         \* strcmp(notificationMode, "persistent") == 0
  semWaitStatistics,  \* the option -statSemWait
  contexts,           \* the map: from the keys in it to their handles
  contextsMutex,      \* who holds contexts_mutex, or Free
  pmutex,             \* who holds the mutex of the context of each key
  live,               \* the handles made and not cleaned up
  unlisted,           \* the ones made for the map that did not get into it
  pc,                 \* where each thread is
  key,                \* the parameter of get_curl_context()
  cc,                 \* the curl_context of each thread: [curl, pmutex]
  sends               \* calls so far

options == <<persistent, semWaitStatistics>>
vars == <<persistent, semWaitStatistics, contexts, contextsMutex, pmutex, live, unlisted, pc, key, cc, sends>>

Empty == [curl |-> NULL, pmutex |-> NULL]
Goto(t, from, to) == pc[t] = from /\ pc' = [pc EXCEPT ![t] = to]

Init ==
  /\ persistent \in BOOLEAN
  /\ semWaitStatistics \in BOOLEAN
  /\ contexts = [k \in {} |-> NULL]
  /\ contextsMutex = Free
  /\ pmutex = [k \in Keys |-> Free]
  /\ live = {}
  /\ unlisted = {}
  /\ pc = [t \in Threads |-> "idle"]
  /\ key = [t \in Threads |-> NULL]
  /\ cc = [t \in Threads |-> Empty]
  /\ sends = 0

-----------------------------------------------------------------------------
(* get_curl_context()                                                      *)

get_curl_context(t, k) ==
  /\ sends < MaxSends
  /\ Goto(t, "idle", IF persistent THEN "lock" ELSE "new")
  /\ key' = [key EXCEPT ![t] = k]
  /\ cc' = [cc EXCEPT ![t] = Empty]
  /\ sends' = sends + 1
  /\ UNCHANGED <<options, contexts, contextsMutex, pmutex, live, unlisted>>

get_curl_context_new(t) ==
  \E h \in (Handles \ live) \cup {NULL} :
    /\ Goto(t, "new", IF h = NULL THEN "release" ELSE "send")
    /\ cc' = [cc EXCEPT ![t] = [curl |-> h, pmutex |-> NULL]]
    /\ live' = live \cup ({h} \ {NULL})
    /\ UNCHANGED <<options, contexts, contextsMutex, pmutex, unlisted, key, sends>>

\* pthread_mutex_lock(&contexts_mutex)
lockContexts(t) ==
  /\ contextsMutex = Free
  /\ Goto(t, "lock", "find")
  /\ contextsMutex' = t
  /\ UNCHANGED <<options, contexts, pmutex, live, unlisted, key, cc, sends>>

\* Mutant: contexts_mutex is kept while the context is waited for.
ContextFoundKeepsLock(t) ==
  /\ key[t] \in DOMAIN contexts
  /\ pmutex[key[t]] = Free
  /\ Goto(t, "find", "lockContext")
  /\ cc' = [cc EXCEPT ![t] = [curl |-> contexts[key[t]], pmutex |-> key[t]]]
  /\ contextsMutex' = Free
  /\ UNCHANGED <<options, contexts, pmutex, live, unlisted, key, sends>>

\* The key is in the map: its context is copied.
contextFound(t) ==
  /\ key[t] \in DOMAIN contexts
  /\ Goto(t, "find", "lockContext")
  /\ cc' = [cc EXCEPT ![t] = [curl |-> contexts[key[t]], pmutex |-> key[t]]]
  /\ contextsMutex' = Free
  /\ UNCHANGED <<options, contexts, pmutex, live, unlisted, key, sends>>

\* A context is made and put into the map.
contextCreated(t) ==
  \E h \in Handles \ live :
    /\ key[t] \notin DOMAIN contexts
    /\ Goto(t, "find", "lockContext")
    /\ cc' = [cc EXCEPT ![t] = [curl |-> h, pmutex |-> key[t]]]
    /\ contexts' = [k \in DOMAIN contexts \cup {key[t]} |-> IF k = key[t] THEN h ELSE contexts[k]]
    /\ live' = live \cup {h}
    /\ contextsMutex' = Free
    /\ UNCHANGED <<options, pmutex, unlisted, key, sends>>

\* curl_easy_init() returned NULL.
contextRefused(t) ==
  /\ key[t] \notin DOMAIN contexts
  /\ Goto(t, "find", "release")
  /\ contextsMutex' = Free
  /\ UNCHANGED <<options, contexts, pmutex, live, unlisted, key, cc, sends>>

\* The mutex of the context could not be made: the caller, which does not look
\* at the return value, uses a handle that is not in the map.
contextWithoutMutex(t) ==
  \E h \in Handles \ live :
    /\ key[t] \notin DOMAIN contexts
    /\ Goto(t, "find", "send")
    /\ cc' = [cc EXCEPT ![t] = [curl |-> h, pmutex |-> NULL]]
    /\ live' = live \cup {h}
    /\ unlisted' = unlisted \cup {h}
    /\ contextsMutex' = Free
    /\ UNCHANGED <<options, contexts, pmutex, key, sends>>

\* Mutant: a context that is in use is not waited for.
LockContextAnyway(t) ==
  /\ Goto(t, "lockContext", IF semWaitStatistics THEN "lockForTime" ELSE "send")
  /\ pmutex' = [pmutex EXCEPT ![key[t]] = t]
  /\ UNCHANGED <<options, contexts, contextsMutex, live, unlisted, key, cc, sends>>

\* pthread_mutex_lock(pcc->pmutex)
lockContext(t) ==
  /\ Goto(t, "lockContext", IF semWaitStatistics THEN "lockForTime" ELSE "send")
  /\ pmutex[key[t]] = Free
  /\ pmutex' = [pmutex EXCEPT ![key[t]] = t]
  /\ UNCHANGED <<options, contexts, contextsMutex, live, unlisted, key, cc, sends>>

\* The waiting time is added up under contexts_mutex, with the context locked.
lockForTime(t) ==
  /\ contextsMutex = Free
  /\ Goto(t, "lockForTime", "addTime")
  /\ contextsMutex' = t
  /\ UNCHANGED <<options, contexts, pmutex, live, unlisted, key, cc, sends>>

addTime(t) ==
  /\ Goto(t, "addTime", "send")
  /\ contextsMutex' = Free
  /\ UNCHANGED <<options, contexts, pmutex, live, unlisted, key, cc, sends>>

-----------------------------------------------------------------------------
(* The transfer, and release_curl_context()                                *)

\* httpRequestSendWithCurl(), from the handle's use to curl_easy_perform()'s end
send(t) ==
  /\ Goto(t, "send", "release")
  /\ UNCHANGED <<options, contexts, contextsMutex, pmutex, live, unlisted, key, cc, sends>>

release_curl_context_reuse(t) ==
  /\ persistent
  /\ Goto(t, "release", "idle")
  /\ pmutex' = IF cc[t].pmutex = NULL THEN pmutex ELSE [pmutex EXCEPT ![cc[t].pmutex] = Free]
  /\ cc' = [cc EXCEPT ![t] = Empty]
  /\ key' = [key EXCEPT ![t] = NULL]
  /\ UNCHANGED <<options, contexts, contextsMutex, live, unlisted, sends>>

\* Mutant: the handle is forgotten without curl_easy_cleanup().
ReleaseNewForgets(t) ==
  /\ ~persistent
  /\ Goto(t, "release", "idle")
  /\ cc' = [cc EXCEPT ![t] = Empty]
  /\ key' = [key EXCEPT ![t] = NULL]
  /\ UNCHANGED <<options, contexts, contextsMutex, pmutex, live, unlisted, sends>>

release_curl_context_new(t) ==
  /\ ~persistent
  /\ Goto(t, "release", "idle")
  /\ live' = live \ {cc[t].curl}
  /\ cc' = [cc EXCEPT ![t] = Empty]
  /\ key' = [key EXCEPT ![t] = NULL]
  /\ UNCHANGED <<options, contexts, contextsMutex, pmutex, unlisted, sends>>

-----------------------------------------------------------------------------
Step(t) ==
  \/ get_curl_context_new(t)
  \/ lockContexts(t)
  \/ contextFound(t)
  \/ contextCreated(t)
  \/ contextRefused(t)
  \/ contextWithoutMutex(t)
  \/ lockContext(t)
  \/ lockForTime(t)
  \/ addTime(t)
  \/ send(t)
  \/ release_curl_context_reuse(t)
  \/ release_curl_context_new(t)

Next == \E t \in Threads : Step(t) \/ \E k \in Keys : get_curl_context(t, k)

\* A thread inside httpRequestSend() goes on; nobody is bound to call it.
Spec == Init /\ [][Next]_vars /\ \A t \in Threads : WF_vars(Step(t))

-----------------------------------------------------------------------------
Places == {"idle", "new", "lock", "find", "lockContext", "lockForTime", "addTime", "send", "release"}

TypeOK ==
  /\ persistent \in BOOLEAN
  /\ semWaitStatistics \in BOOLEAN
  /\ DOMAIN contexts \subseteq Keys
  /\ contexts \in [DOMAIN contexts -> Handles]
  /\ contextsMutex \in Threads \cup {Free}
  /\ pmutex \in [Keys -> Threads \cup {Free}]
  /\ live \in SUBSET Handles
  /\ unlisted \in SUBSET Handles
  /\ pc \in [Threads -> Places]
  /\ key \in [Threads -> Keys \cup {NULL}]
  /\ cc \in [Threads -> [curl : Handles \cup {NULL}, pmutex : Keys \cup {NULL}]]
  /\ sends \in Nat

\* Where the code between get_curl_context() and release_curl_context() runs
Using == {"lockForTime", "addTime", "send", "release"}

\* A libcurl handle is never used by two threads at a time, which libcurl does
\* not allow: the transfer of httpRequestSend() runs with the mutex of the
\* context locked, or with a handle no other thread can reach.
HandleExclusive ==
  \A t1, t2 \in Threads :
    t1 # t2 /\ pc[t1] \in Using /\ pc[t2] \in Using /\ cc[t1].curl # NULL => cc[t1].curl # cc[t2].curl

InMap == {contexts[k] : k \in DOMAIN contexts}
InUse == {cc[t].curl : t \in Threads} \ {NULL}

\* No handle is lost: each one libcurl made is in the map or is being used by a
\* call of httpRequestSend() - except the ones whose mutex could not be made,
\* which get_curl_context_reuse() leaves to nobody.
HandlesAccounted == live = InMap \cup InUse \cup unlisted

\* Every call of httpRequestSend() ends, although the waiting time of a mutex
\* is added up under the other one: the two are never waited for in a circle.
\* (A pthread mutex is not fair; no thread waits for ever because the calls
\* that overtake it are finitely many.)
SendsEnd == \A t \in Threads : pc[t] # "idle" ~> pc[t] = "idle"
=============================================================================
