------------------------------ MODULE Dispatch ------------------------------
(***************************************************************************)
(* What the scheduler of the bare-metal ports (module Scheduler) provides  *)
(* to the synchronisation objects built on it: one processor that runs,    *)
(* whenever the scheduler is called, a ready thread of the highest         *)
(* priority, among several the one whose last activation is longest ago.   *)
(*                                                                         *)
(* The operators are those of Thread::findNextToRun and                    *)
(* Thread::findNextWaitingFor, which compare threads the same way;         *)
(* "order" lists the threads by their last activation, oldest first.       *)
(***************************************************************************)
EXTENDS Naturals, Sequences

CONSTANTS Threads, idle

Older(order, t, u) ==
    \E i, j \in 1 .. Len(order) : i < j /\ order[i] = t /\ order[j] = u

(* The one thread of the set that the loop over threadList ends with.      *)
MostUrgent(set, priority, order) ==
    {t \in set : \A u \in set \ {t} :
        \/ priority[u] < priority[t]
        \/ priority[u] = priority[t] /\ Older(order, t, u)}

(* The idle thread runs when nobody else is ready.                         *)
findNextToRun(ready, priority, order) ==
    IF ready = {} THEN {idle} ELSE MostUrgent(ready, priority, order)

Activated(order, t) ==
    IF t = idle THEN order ELSE Append(SelectSeq(order, LAMBDA u : u # t), t)
=============================================================================
