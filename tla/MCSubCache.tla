----------------------------- MODULE MCSubCache -----------------------------
(***************************************************************************)
(* Instances of SubCache for TLC: the requests of the workloads.           *)
(***************************************************************************)
EXTENDS SubCache, TLC

Plain == [throttling |-> NotGiven, status |-> "unset", filter |-> "clear", notify |-> FALSE]
Slow  == [Plain EXCEPT !.throttling = 2]

\* A throttled subscription, and one that is notified at once.
SomeRequests == {Slow, [Plain EXCEPT !.notify = TRUE]}

\* No change, a change of status each way, throttling removed, and a change of
\* the conditions that notifies.
Keep == [Plain EXCEPT !.filter = "keep"]
SomePatches == {Keep,
                [Keep EXCEPT !.status = "inactive"],
                [Keep EXCEPT !.status = "active", !.notify = TRUE],
                [Keep EXCEPT !.throttling = 0]}

PlainRequests    == {Plain}
SlowRequests     == {Slow}
NotifyRequests   == {[Plain EXCEPT !.notify = TRUE]}
FilterRequests   == {[Plain EXCEPT !.filter = "set"]}
KeepPatches      == {Keep}
None             == {}
ThreadSymmetry   == Permutations(Threads)
=============================================================================
