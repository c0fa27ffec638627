---------------------------- MODULE MCSemaphore ----------------------------
(* Three threads of different priority share a semaphore.                  *)
EXTENDS Semaphore

CONSTANTS low, mid, high

ThreeList == <<low, mid, high>>
Priorities == [t \in Threads |-> CASE t = low -> 1 [] t = mid -> 2 [] OTHER -> 3]
OnlyHighTwice == [t \in Threads |-> IF t = high THEN 2 ELSE 1]
=============================================================================
