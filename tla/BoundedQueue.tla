----------------------------- MODULE BoundedQueue ----------------------------
(***************************************************************************)
(* What a queue of notifications promises its users: at most MaxSize       *)
(* elements wait, and they leave in the order in which they were accepted, *)
(* each exactly once.  Threads, locks, wake-ups and counters are the       *)
(* business of the implementation (Notifications.tla).                     *)
(***************************************************************************)
EXTENDS Naturals, Sequences

CONSTANTS Element, MaxSize

VARIABLES
  waiting,    \* the elements accepted and not handed over yet, in order
  handed      \* the elements handed over, in the order in which they left

vars == <<waiting, handed>>

Init == waiting = <<>> /\ handed = <<>>

Accept(e) ==
  /\ Len(waiting) < MaxSize
  /\ waiting' = Append(waiting, e)
  /\ UNCHANGED handed

HandOver ==
  /\ waiting # <<>>
  /\ handed' = Append(handed, Head(waiting))
  /\ waiting' = Tail(waiting)

Next == HandOver \/ \E e \in Element : Accept(e)

Spec == Init /\ [][Next]_vars
=============================================================================
