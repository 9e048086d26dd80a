---------------------------- MODULE AlarmManager ----------------------------
(***************************************************************************)
(* The alarm manager of the broker (src/lib/alarmMgr/AlarmManager.cpp).    *)
(* Its fields are the fields of one record, every method is an operator    *)
(* from the record to the record it leaves behind.                         *)
(*                                                                         *)
(* Every method but dbError and dbErrorReset does all of its work between  *)
(* semTake and semGive, so one step of a thread is one method call.        *)
(* dbError and dbErrorReset test dbOk before they take the semaphore: the  *)
(* test and the update are two steps of the calling thread.                *)
(*                                                                         *)
(* The maps notificationV and badInputV count the repetitions of an alarm  *)
(* and nothing reads those counts, so a map is the set of its keys.  The   *)
(* LogAlways switches only choose what is logged and are left out.         *)
(***************************************************************************)
EXTENDS Integers, FiniteSets

\* AlarmManager::AlarmManager
AlarmInit ==
  [dbOk |-> TRUE, dbErrors |-> 0, dbErrorResets |-> 0,
   notificationV |-> {}, notificationErrors |-> 0, notificationErrorResets |-> 0,
   badInputV |-> {}, badInputs |-> 0, badInputResets |-> 0]

Alarms(Keys, Ips) ==
  [dbOk : BOOLEAN, dbErrors : Nat, dbErrorResets : Nat,
   notificationV : SUBSET Keys, notificationErrors : Nat, notificationErrorResets : Nat,
   badInputV : SUBSET Ips, badInputs : Nat, badInputResets : Nat]

\* The part of dbError and of dbErrorReset inside the semaphore.
DbErrorSet(a) == [a EXCEPT !.dbErrors = @ + 1, !.dbOk = FALSE]
DbErrorResetSet(a) == [a EXCEPT !.dbErrorResets = @ + 1, !.dbOk = TRUE]

NotificationError(a, url) ==
  IF url \in a.notificationV
  THEN a
  ELSE [a EXCEPT !.notificationErrors = @ + 1, !.notificationV = @ \cup {url}]

NotificationErrorReset(a, url) ==
  IF url \in a.notificationV
  THEN [a EXCEPT !.notificationErrorResets = @ + 1, !.notificationV = @ \ {url}]
  ELSE a

\* The part of badInput after the test of the thread's badInputSeen.
BadInput(a, ip) ==
  IF ip \in a.badInputV
  THEN a
  ELSE [a EXCEPT !.badInputs = @ + 1, !.badInputV = @ \cup {ip}]

BadInputReset(a, ip) ==
  IF ip \in a.badInputV
  THEN [a EXCEPT !.badInputResets = @ + 1, !.badInputV = @ \ {ip}]
  ELSE a
=============================================================================
