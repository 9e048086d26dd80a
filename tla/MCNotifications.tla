--------------------------- MODULE MCNotifications ---------------------------
(***************************************************************************)
(* Instances of Notifications for TLC.                                     *)
(***************************************************************************)
EXTENDS Notifications

\* Three notifications through a pool of two workers and a queue of two.
Pool == [mode |-> "threadpool", simulated |-> FALSE, requests |-> 3, summaries |-> 0,
         resets |-> 0, badInput |-> FALSE, dbFails |-> FALSE]

\* Two requests, and everything that can go wrong around them.
Faults == [Pool EXCEPT !.requests = 2, !.badInput = TRUE, !.dbFails = TRUE]

\* The observers: the log summary over a turn of the transaction number, and
\* a reset of the statistics.
Summaries == [Pool EXCEPT !.requests = 2, !.summaries = 2]
Reset     == [Pool EXCEPT !.requests = 1, !.resets = 1, !.simulated = TRUE]

Transient(i) == [i EXCEPT !.mode = "transient"]
Simulated(i) == [i EXCEPT !.simulated = TRUE]

AllInstances ==
  {Pool, Faults, Reset, Transient(Pool), Transient(Faults), Transient(Summaries),
   Simulated(Transient(Pool))}
RushInstances == {[Pool EXCEPT !.requests = 2]}

None == {}
=============================================================================
