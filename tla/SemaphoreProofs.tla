-------------------------- MODULE SemaphoreProofs --------------------------
(***************************************************************************)
(* Mutual exclusion of the Semaphore, for any number of threads of any     *)
(* priority, as long as nobody suspends itself inside a ceiling scope.     *)
(* Nothing but the ceiling priority and the calls of yield keep two        *)
(* threads from working on the semaphore at the same time, so the          *)
(* invariant says which threads may be ready at ceiling priority together  *)
(* (Hots), and which of them may be off the processor (Running).           *)
(***************************************************************************)
EXTENDS Semaphore, TLAPS

USE SMTT(30)

InScope(t) == pc[t] \in {"test", "boost", "loop", "wait", "suspend", "woken", "take", "unceil",
                         "release", "handover", "lunceil"}

Hot(t) == t \in ready /\ InScope(t)

(* t was given the semaphore and is on its way out of enter.               *)
Granted(t) == owner = t /\ pc[t] \in {"woken", "loop", "take", "unceil", "yield"}

Harmless(t) == pc[t] \in {"lunceil", "test", "boost", "loop", "wait", "suspend"}

(* Of two threads ready at ceiling priority one was just given the         *)
(* semaphore, and the other does nothing to it.                            *)
Hots ==
    \A t, u \in Threads :
        t # u /\ Hot(t) /\ Hot(u) => \/ Granted(t) /\ Harmless(u)
                                     \/ Granted(u) /\ Harmless(t)

(* If a thread ready at ceiling priority does not run, then it, or the one *)
(* that does run, was just given the semaphore.  The one that runs is      *)
(* ready.                                                                  *)
Running ==
    /\ currentThread \in ready \cup {idle}
    /\ \A t \in Threads :
        Hot(t) /\ t # currentThread =>
            Granted(t) \/ (currentThread \in Threads /\ Granted(currentThread))

Priorities ==
    /\ ownerPriority < Ceiling
    /\ \A t \in Threads :
        /\ InScope(t) => priority[t] = Ceiling
        /\ ~ InScope(t) => priority[t] < Ceiling
        /\ callerPriority[t] < Ceiling /\ previous[t] < Ceiling /\ restored[t] < Ceiling

Waiters ==
    \A t \in Threads :
        /\ t \notin ready => pc[t] \in {"run", "woken"}
        /\ t \in waitingFor <=> pc[t] = "suspend" \/ (pc[t] = "woken" /\ t \notin ready)
        /\ pc[t] = "woken" /\ t \in ready => owner = t

Owners ==
    /\ owner = None => ownerEnterCnt = 0
    /\ owner # None => ownerEnterCnt = depth[owner]
    /\ \A t \in Threads :
        /\ depth[t] > 0 => owner = t
        /\ pc[t] \in {"boost", "loop", "wait", "suspend", "woken"} => depth[t] = 0
        /\ pc[t] \in {"boost", "wait", "suspend"} => owner # None /\ owner # t
        /\ pc[t] = "loop" => owner # None
        /\ pc[t] = "take" => owner = None \/ owner = t
        /\ pc[t] \in {"unceil", "yield"} => owner = t
        /\ pc[t] \in {"lceil", "lraise", "release"} => owner = t /\ depth[t] = 0
        /\ pc[t] = "handover" => owner = None /\ handed[t] \in waitingFor

HandedOver == owner = None /\ waitingFor # {} => \E u \in Threads : pc[u] = "handover"

IInv == TypeOK /\ Priorities /\ Waiters /\ Owners /\ HandedOver /\ Hots /\ Running

-----------------------------------------------------------------------------
(* Every step of a thread in enter and leave, every rest and every switch  *)
(* keeps the invariant.                                                    *)
LEMMA Inductive ==
    ASSUME IInv, [Next]_vars
    PROVE  IInv'
<1> USE SemaphoreAssumption DEF IInv, at, goto, Stay, dispatchVars, semVars, localVars, None
\* enter reads the priority of the caller.
<1>1. ASSUME NEW t \in Threads, enter(t) PROVE IInv'
    <2> USE <1>1 DEF enter
    <2>1. TypeOK' BY Zenon DEF TypeOK, Owners, Waiters, PCs
    <2>2. Priorities' BY Zenon DEF TypeOK, Priorities, InScope
    <2>3. Waiters' BY DEF TypeOK, Waiters, Owners, Hots, Hot, InScope, Granted, Harmless, Running
    <2>4. Owners' BY DEF TypeOK, Waiters, Owners, Hots, Hot, InScope, Granted, Harmless, Running
    <2>5. HandedOver' BY DEF TypeOK, Waiters, Owners, HandedOver
    <2>6. Hots' BY DEF TypeOK, Waiters, Owners, Hots, Hot, InScope, Granted, Harmless, Running
    <2>7. Running' BY <2>1 DEF TypeOK, Priorities, Waiters, Owners, Hots, Hot, InScope, Granted, Harmless, Running
    <2> QED BY <2>1, <2>2, <2>3, <2>4, <2>5, <2>6, <2>7, Zenon
\* The ceiling scope of enter: the thread becomes Hot.
<1>2. ASSUME NEW t \in Threads, EnterCeil(t) PROVE IInv'
    <2> USE <1>2 DEF EnterCeil, ReadPriority, RaisePriority
    <2>1. TypeOK' BY DEF TypeOK, Owners, Waiters, PCs
    <2>2. Priorities' BY DEF TypeOK, Priorities, InScope
    <2>3. Waiters' BY DEF TypeOK, Waiters, Owners, Hots, Hot, InScope, Granted, Harmless, Running
    <2>4. Owners' BY DEF TypeOK, Waiters, Owners, Hots, Hot, InScope, Granted, Harmless, Running
    <2>5. HandedOver' BY DEF TypeOK, Waiters, Owners, HandedOver
    <2>6. Hots' BY DEF TypeOK, Waiters, Owners, Hots, Hot, InScope, Granted, Harmless, Running
    <2>7. Running' BY <2>1 DEF TypeOK, Priorities, Waiters, Owners, Hots, Hot, InScope, Granted, Harmless, Running
    <2> QED BY <2>1, <2>2, <2>3, <2>4, <2>5, <2>6, <2>7, Zenon
\* A second Hot thread is the owner, so the test sends t to wait.
<1>3. ASSUME NEW t \in Threads, EnterTest(t) PROVE IInv'
    <2> USE <1>3 DEF EnterTest, occupied
    <2>1. TypeOK' BY Zenon DEF TypeOK, Owners, Waiters, PCs
    <2>2. Priorities' BY Zenon DEF TypeOK, Priorities, InScope
    <2>3. Waiters' BY DEF TypeOK, Waiters, Owners, Hots, Hot, InScope, Granted, Harmless, Running
    <2>4. Owners' BY DEF TypeOK, Waiters, Owners, Hots, Hot, InScope, Granted, Harmless, Running
    <2>5. HandedOver' BY Zenon DEF TypeOK, Waiters, Owners, HandedOver
    <2>6. Hots' BY DEF TypeOK, Waiters, Owners, Hots, Hot, InScope, Granted, Harmless, Running
    <2>7. Running' BY <2>1 DEF TypeOK, Priorities, Waiters, Owners, Hots, Hot, InScope, Granted, Harmless, Running
    <2> QED BY <2>1, <2>2, <2>3, <2>4, <2>5, <2>6, <2>7, Zenon
\* The owner is outside any scope, or stays at the ceiling.
<1>4. ASSUME NEW t \in Threads, EnterBoost(t) PROVE IInv'
    <2> USE <1>4 DEF EnterBoost
    <2>1. TypeOK' BY Zenon DEF TypeOK, Owners, Waiters, PCs
    <2>2. Priorities' BY DEF TypeOK, Priorities, InScope
    <2>3. Waiters' BY Zenon DEF TypeOK, Waiters, Owners, Hots, Hot, InScope, Granted, Harmless, Running
    <2>4. Owners' BY DEF TypeOK, Waiters, Owners, Hots, Hot, InScope, Granted, Harmless, Running
    <2>5. HandedOver' BY Zenon DEF TypeOK, Waiters, Owners, HandedOver
    <2>6. Hots' BY DEF TypeOK, Waiters, Owners, Hots, Hot, InScope, Granted, Harmless, Running
    <2>7. Running' BY <2>1 DEF TypeOK, Priorities, Waiters, Owners, Hots, Hot, InScope, Granted, Harmless, Running
    <2> QED BY <2>1, <2>2, <2>3, <2>4, <2>5, <2>6, <2>7, Zenon
\* As EnterTest.
<1>5. ASSUME NEW t \in Threads, EnterLoop(t) PROVE IInv'
    <2> USE <1>5 DEF EnterLoop, occupied
    <2>1. TypeOK' BY DEF TypeOK, Owners, Waiters, PCs
    <2>2. Priorities' BY DEF TypeOK, Priorities, InScope
    <2>3. Waiters' BY DEF TypeOK, Waiters, Owners, Hots, Hot, InScope, Granted, Harmless, Running
    <2>4. Owners' BY DEF TypeOK, Waiters, Owners, Hots, Hot, InScope, Granted, Harmless, Running
    <2>5. HandedOver' BY Zenon DEF TypeOK, Waiters, Owners, HandedOver
    <2>6. Hots' BY DEF TypeOK, Waiters, Owners, Hots, Hot, InScope, Granted, Harmless, Running
    <2>7. Running' BY <2>1 DEF TypeOK, Priorities, Waiters, Owners, Hots, Hot, InScope, Granted, Harmless, Running
    <2> QED BY <2>1, <2>2, <2>3, <2>4, <2>5, <2>6, <2>7, Zenon
<1>6. ASSUME NEW t \in Threads, WaitFor(t) PROVE IInv'
    <2> USE <1>6 DEF WaitFor
    <2>1. TypeOK' BY Zenon DEF TypeOK, Owners, Waiters, PCs
    <2>2. Priorities' BY Zenon DEF TypeOK, Priorities, InScope
    <2>3. Waiters' BY DEF TypeOK, Waiters, Owners, Hots, Hot, InScope, Granted, Harmless, Running
    <2>4. Owners' BY DEF TypeOK, Waiters, Owners, Hots, Hot, InScope, Granted, Harmless, Running
    <2>5. HandedOver' BY Zenon DEF TypeOK, Waiters, Owners, HandedOver
    <2>6. Hots' BY DEF TypeOK, Waiters, Owners, Hots, Hot, InScope, Granted, Harmless, Running
    <2>7. Running' BY <2>1 DEF TypeOK, Priorities, Waiters, Owners, Hots, Hot, InScope, Granted, Harmless, Running
    <2> QED BY <2>1, <2>2, <2>3, <2>4, <2>5, <2>6, <2>7, Zenon
\* The next thread to run is a Hot one, if there is any.
<1>7. ASSUME NEW t \in Threads, WaitSuspend(t) PROVE IInv'
    <2> USE <1>7 DEF WaitSuspend
    <2>0. /\ currentThread' \in ready' \cup {idle}
          /\ \A u \in ready' : currentThread' \in ready' /\ priority[u] <= priority[currentThread']
        BY DEF TypeOK, Dispatched, findNextToRun, MostUrgent
    <2>1. TypeOK' BY <2>0, Zenon DEF TypeOK, Owners, Waiters, PCs
    <2>2. Priorities' BY Zenon DEF TypeOK, Priorities, InScope
    <2>3. Waiters' BY DEF TypeOK, Waiters, Owners, Hots, Hot, InScope, Granted, Harmless, Running
    <2>4. Owners' BY DEF TypeOK, Waiters, Owners, Hots, Hot, InScope, Granted, Harmless, Running
    <2>5. HandedOver' BY Zenon DEF TypeOK, Waiters, Owners, HandedOver
    <2>6. Hots' BY DEF TypeOK, Waiters, Owners, Hots, Hot, InScope, Granted, Harmless, Running
    <2>7. Running' BY <2>0, <2>1 DEF TypeOK, Priorities, Waiters, Owners, Hots, Hot, InScope, Granted, Harmless, Running
    <2> QED BY <2>1, <2>2, <2>3, <2>4, <2>5, <2>6, <2>7, Zenon
<1>8. ASSUME NEW t \in Threads, WaitReturn(t) PROVE IInv'
    <2> USE <1>8 DEF WaitReturn
    <2>1. TypeOK' BY Zenon DEF TypeOK, Owners, Waiters, PCs
    <2>2. Priorities' BY Zenon DEF TypeOK, Priorities, InScope
    <2>3. Waiters' BY DEF TypeOK, Waiters, Owners, Hots, Hot, InScope, Granted, Harmless, Running
    <2>4. Owners' BY DEF TypeOK, Waiters, Owners, Hots, Hot, InScope, Granted, Harmless, Running
    <2>5. HandedOver' BY DEF TypeOK, Waiters, Owners, HandedOver
    <2>6. Hots' BY DEF TypeOK, Waiters, Owners, Hots, Hot, InScope, Granted, Harmless, Running
    <2>7. Running' BY <2>1 DEF TypeOK, Priorities, Waiters, Owners, Hots, Hot, InScope, Granted, Harmless, Running
    <2> QED BY <2>1, <2>2, <2>3, <2>4, <2>5, <2>6, <2>7, Zenon
\* No other Hot thread, or t owns it already.
<1>9. ASSUME NEW t \in Threads, EnterTake(t) PROVE IInv'
    <2> USE <1>9 DEF EnterTake
    <2>1. TypeOK' BY DEF TypeOK, Owners, Waiters, PCs
    <2>2. Priorities' BY Zenon DEF TypeOK, Priorities, InScope
    <2>3. Waiters' BY DEF TypeOK, Waiters, Owners, Hots, Hot, InScope, Granted, Harmless, Running
    <2>4. Owners' BY DEF TypeOK, Waiters, Owners, Hots, Hot, InScope, Granted, Harmless, Running
    <2>5. HandedOver' BY DEF TypeOK, Waiters, Owners, HandedOver
    <2>6. Hots' BY DEF TypeOK, Waiters, Owners, Hots, Hot, InScope, Granted, Harmless, Running
    <2>7. Running' BY <2>1 DEF TypeOK, Priorities, Waiters, Owners, Hots, Hot, InScope, Granted, Harmless, Running
    <2> QED BY <2>1, <2>2, <2>3, <2>4, <2>5, <2>6, <2>7, Zenon
<1>10. ASSUME NEW t \in Threads, EnterUnceil(t) PROVE IInv'
    <2> USE <1>10 DEF EnterUnceil, LeaveScope
    <2>1. TypeOK' BY Zenon DEF TypeOK, Owners, Waiters, PCs
    <2>2. Priorities' BY DEF TypeOK, Priorities, InScope
    <2>3. Waiters' BY DEF TypeOK, Waiters, Owners, Hots, Hot, InScope, Granted, Harmless, Running
    <2>4. Owners' BY DEF TypeOK, Waiters, Owners, Hots, Hot, InScope, Granted, Harmless, Running
    <2>5. HandedOver' BY DEF TypeOK, Waiters, Owners, HandedOver
    <2>6. Hots' BY DEF TypeOK, Waiters, Owners, Hots, Hot, InScope, Granted, Harmless, Running
    <2>7. Running' BY <2>1 DEF TypeOK, Priorities, Waiters, Owners, Hots, Hot, InScope, Granted, Harmless, Running
    <2> QED BY <2>1, <2>2, <2>3, <2>4, <2>5, <2>6, <2>7, Zenon
\* yield gives way to a Hot thread.
<1>11. ASSUME NEW t \in Threads, EnterYield(t) PROVE IInv'
    <2> USE <1>11 DEF EnterYield
    <2>0. /\ currentThread' \in ready' \cup {idle}
          /\ \A u \in ready' : currentThread' \in ready' /\ priority[u] <= priority[currentThread']
        BY DEF TypeOK, Dispatched, findNextToRun, MostUrgent
    <2>1. TypeOK' BY <2>0, Zenon DEF TypeOK, Owners, Waiters, PCs
    <2>2. Priorities' BY DEF TypeOK, Priorities, InScope
    <2>3. Waiters' BY DEF TypeOK, Waiters, Owners, Hots, Hot, InScope, Granted, Harmless, Running
    <2>4. Owners' BY DEF TypeOK, Waiters, Owners, Hots, Hot, InScope, Granted, Harmless, Running
    <2>5. HandedOver' BY DEF TypeOK, Waiters, Owners, HandedOver
    <2>6. Hots' BY DEF TypeOK, Waiters, Owners, Hots, Hot, InScope, Granted, Harmless, Running
    <2>7. Running' BY <2>0, <2>1 DEF TypeOK, Priorities, Waiters, Owners, Hots, Hot, InScope, Granted, Harmless, Running
    <2> QED BY <2>1, <2>2, <2>3, <2>4, <2>5, <2>6, <2>7, Zenon
<1>12. ASSUME NEW t \in Threads, leave(t) PROVE IInv'
    <2> USE <1>12 DEF leave
    <2>1. TypeOK' BY DEF TypeOK, Owners, Waiters, PCs
    <2>2. Priorities' BY DEF TypeOK, Priorities, InScope
    <2>3. Waiters' BY DEF TypeOK, Waiters, Owners, Hots, Hot, InScope, Granted, Harmless, Running
    <2>4. Owners' BY DEF TypeOK, Waiters, Owners, Hots, Hot, InScope, Granted, Harmless, Running
    <2>5. HandedOver' BY DEF TypeOK, Waiters, Owners, HandedOver
    <2>6. Hots' BY DEF TypeOK, Waiters, Owners, Hots, Hot, InScope, Granted, Harmless, Running
    <2>7. Running' BY <2>1 DEF TypeOK, Priorities, Waiters, Owners, Hots, Hot, InScope, Granted, Harmless, Running
    <2> QED BY <2>1, <2>2, <2>3, <2>4, <2>5, <2>6, <2>7, Zenon
<1>13. ASSUME NEW t \in Threads, LeaveCeil(t) PROVE IInv'
    <2> USE <1>13 DEF LeaveCeil, ReadPriority, RaisePriority
    <2>1. TypeOK' BY DEF TypeOK, Owners, Waiters, PCs
    <2>2. Priorities' BY DEF TypeOK, Priorities, InScope
    <2>3. Waiters' BY DEF TypeOK, Waiters, Owners, Hots, Hot, InScope, Granted, Harmless, Running
    <2>4. Owners' BY DEF TypeOK, Waiters, Owners, Hots, Hot, InScope, Granted, Harmless, Running
    <2>5. HandedOver' BY Zenon DEF TypeOK, Waiters, Owners, HandedOver
    <2>6. Hots' BY DEF TypeOK, Waiters, Owners, Hots, Hot, InScope, Granted, Harmless, Running
    <2>7. Running' BY <2>1 DEF TypeOK, Priorities, Waiters, Owners, Hots, Hot, InScope, Granted, Harmless, Running
    <2> QED BY <2>1, <2>2, <2>3, <2>4, <2>5, <2>6, <2>7, Zenon
\* t is the only Hot thread.
<1>14. ASSUME NEW t \in Threads, LeaveRelease(t) PROVE IInv'
    <2> USE <1>14 DEF LeaveRelease, findNextWaitingFor, MostUrgent
    <2>1. TypeOK' BY DEF TypeOK, Owners, Waiters, PCs
    <2>2. Priorities' BY DEF TypeOK, Priorities, InScope
    <2>3. Waiters' BY DEF TypeOK, Waiters, Owners, Hots, Hot, InScope, Granted, Harmless, Running
    <2>4. Owners' BY DEF TypeOK, Waiters, Owners, Hots, Hot, InScope, Granted, Harmless, Running
    <2>5. HandedOver' BY DEF TypeOK, Waiters, Owners, HandedOver
    <2>6. Hots' BY DEF TypeOK, Waiters, Owners, Hots, Hot, InScope, Granted, Harmless, Running
    <2>7. Running' BY <2>1 DEF TypeOK, Priorities, Waiters, Owners, Hots, Hot, InScope, Granted, Harmless, Running
    <2> QED BY <2>1, <2>2, <2>3, <2>4, <2>5, <2>6, <2>7, Zenon
\* The waiter becomes Hot and Granted.
<1>15. ASSUME NEW t \in Threads, LeaveHandOver(t) PROVE IInv'
    <2> USE <1>15 DEF LeaveHandOver
    <2>0. handed[t] \in Threads BY Zenon DEF TypeOK, Owners
    <2>1. TypeOK' BY DEF TypeOK, Owners, Waiters, PCs
    <2>2. Priorities' BY Zenon DEF TypeOK, Priorities, InScope
    <2>3. Waiters' BY DEF TypeOK, Waiters, Owners, Hots, Hot, InScope, Granted, Harmless, Running
    <2>4. Owners' BY DEF TypeOK, Waiters, Owners, Hots, Hot, InScope, Granted, Harmless, Running
    <2>5. HandedOver' BY <2>0, Zenon DEF HandedOver
    <2>6. Hots' BY DEF TypeOK, Waiters, Owners, Hots, Hot, InScope, Granted, Harmless, Running
    <2>7. Running' BY <2>1 DEF TypeOK, Priorities, Waiters, Owners, Hots, Hot, InScope, Granted, Harmless, Running
    <2> QED BY <2>1, <2>2, <2>3, <2>4, <2>5, <2>6, <2>7, Zenon
<1>16. ASSUME NEW t \in Threads, LeaveUnceil(t) PROVE IInv'
    <2> USE <1>16 DEF LeaveUnceil, LeaveScope
    <2>1. TypeOK' BY Zenon DEF TypeOK, Owners, Waiters, PCs
    <2>2. Priorities' BY DEF TypeOK, Priorities, InScope
    <2>3. Waiters' BY DEF TypeOK, Waiters, Owners, Hots, Hot, InScope, Granted, Harmless, Running
    <2>4. Owners' BY DEF TypeOK, Waiters, Owners, Hots, Hot, InScope, Granted, Harmless, Running
    <2>5. HandedOver' BY DEF TypeOK, Waiters, Owners, HandedOver
    <2>6. Hots' BY DEF TypeOK, Waiters, Owners, Hots, Hot, InScope, Granted, Harmless, Running
    <2>7. Running' BY <2>1 DEF TypeOK, Priorities, Waiters, Owners, Hots, Hot, InScope, Granted, Harmless, Running
    <2> QED BY <2>1, <2>2, <2>3, <2>4, <2>5, <2>6, <2>7, Zenon
<1>17. ASSUME NEW t \in Threads, LeaveRestore(t) PROVE IInv'
    <2> USE <1>17 DEF LeaveRestore
    <2>1. TypeOK' BY Zenon DEF TypeOK, Owners, Waiters, PCs
    <2>2. Priorities' BY DEF TypeOK, Priorities, InScope
    <2>3. Waiters' BY DEF TypeOK, Waiters, Owners, Hots, Hot, InScope, Granted, Harmless, Running
    <2>4. Owners' BY DEF TypeOK, Waiters, Owners, Hots, Hot, InScope, Granted, Harmless, Running
    <2>5. HandedOver' BY DEF TypeOK, Waiters, Owners, HandedOver
    <2>6. Hots' BY DEF TypeOK, Waiters, Owners, Hots, Hot, InScope, Granted, Harmless, Running
    <2>7. Running' BY <2>1 DEF TypeOK, Priorities, Waiters, Owners, Hots, Hot, InScope, Granted, Harmless, Running
    <2> QED BY <2>1, <2>2, <2>3, <2>4, <2>5, <2>6, <2>7, Zenon
<1>18. ASSUME NEW t \in Threads, LeaveYield(t) PROVE IInv'
    <2> USE <1>18 DEF LeaveYield
    <2>0. \/ currentThread' = currentThread
          \/ /\ currentThread' \in ready' \cup {idle}
             /\ \A u \in ready' : currentThread' \in ready' /\ priority[u] <= priority[currentThread']
        BY DEF TypeOK, Dispatched, findNextToRun, MostUrgent
    <2>1. TypeOK' BY <2>0 DEF TypeOK, Owners, Waiters, PCs
    <2>2. Priorities' BY Zenon DEF TypeOK, Priorities, InScope
    <2>3. Waiters' BY DEF TypeOK, Waiters, Owners, Hots, Hot, InScope, Granted, Harmless, Running
    <2>4. Owners' BY DEF TypeOK, Waiters, Owners, Hots, Hot, InScope, Granted, Harmless, Running
    <2>5. HandedOver' BY DEF TypeOK, Waiters, Owners, HandedOver
    <2>6. Hots' BY DEF TypeOK, Waiters, Owners, Hots, Hot, InScope, Granted, Harmless, Running
    <2>7. Running' BY <2>0, <2>1, SMTT(30) DEF TypeOK, Priorities, Waiters, Owners, Hots, Hot, InScope, Granted, Harmless, Running
    <2> QED BY <2>1, <2>2, <2>3, <2>4, <2>5, <2>6, <2>7, Zenon
<1>19. ASSUME NEW t \in Threads, Rest(t) PROVE IInv'
    <2> USE <1>19 DEF Rest
    <2>0. /\ currentThread' \in ready' \cup {idle}
          /\ \A u \in ready' : currentThread' \in ready' /\ priority[u] <= priority[currentThread']
        BY DEF TypeOK, Dispatched, findNextToRun, MostUrgent
    <2>1. TypeOK' BY <2>0, Zenon DEF TypeOK, Owners, Waiters, PCs
    <2>2. Priorities' BY Zenon DEF TypeOK, Priorities, InScope
    <2>3. Waiters' BY Zenon DEF TypeOK, Waiters, Owners, Hots, Hot, InScope, Granted, Harmless, Running
    <2>4. Owners' BY DEF TypeOK, Waiters, Owners, Hots, Hot, InScope, Granted, Harmless, Running
    <2>5. HandedOver' BY Zenon DEF TypeOK, Waiters, Owners, HandedOver
    <2>6. Hots' BY DEF TypeOK, Waiters, Owners, Hots, Hot, InScope, Granted, Harmless, Running
    <2>7. Running' BY <2>0, <2>1, Zenon DEF TypeOK, Priorities, Waiters, Owners, Hots, Hot, InScope, Granted, Harmless, Running
    <2> QED BY <2>1, <2>2, <2>3, <2>4, <2>5, <2>6, <2>7, Zenon
<1>20. ASSUME NEW t \in Threads, WakeUp(t) PROVE IInv'
    <2> USE <1>20 DEF WakeUp
    <2>1. TypeOK' BY DEF TypeOK, Owners, Waiters, PCs
    <2>2. Priorities' BY Zenon DEF TypeOK, Priorities, InScope
    <2>3. Waiters' BY Zenon DEF TypeOK, Waiters, Owners, Hots, Hot, InScope, Granted, Harmless, Running
    <2>4. Owners' BY DEF TypeOK, Waiters, Owners, Hots, Hot, InScope, Granted, Harmless, Running
    <2>5. HandedOver' BY Zenon DEF TypeOK, Waiters, Owners, HandedOver
    <2>6. Hots' BY DEF TypeOK, Waiters, Owners, Hots, Hot, InScope, Granted, Harmless, Running
    <2>7. Running' BY <2>1, Zenon DEF TypeOK, Priorities, Waiters, Owners, Hots, Hot, InScope, Granted, Harmless, Running
    <2> QED BY <2>1, <2>2, <2>3, <2>4, <2>5, <2>6, <2>7, Zenon
<1>21. ASSUME Preempt PROVE IInv'
    <2> USE <1>21 DEF Preempt
    <2>0. /\ currentThread' \in ready' \cup {idle}
          /\ \A u \in ready' : currentThread' \in ready' /\ priority[u] <= priority[currentThread']
        BY DEF TypeOK, Dispatched, findNextToRun, MostUrgent
    <2>1. TypeOK' BY <2>0, Zenon DEF TypeOK, Owners, Waiters, PCs
    <2>2. Priorities' BY Zenon DEF TypeOK, Priorities, InScope
    <2>3. Waiters' BY Zenon DEF TypeOK, Waiters, Owners, Hots, Hot, InScope, Granted, Harmless, Running
    <2>4. Owners' BY Zenon DEF TypeOK, Waiters, Owners, Hots, Hot, InScope, Granted, Harmless, Running
    <2>5. HandedOver' BY Zenon DEF TypeOK, Waiters, Owners, HandedOver
    <2>6. Hots' BY DEF TypeOK, Waiters, Owners, Hots, Hot, InScope, Granted, Harmless, Running
    <2>7. Running' BY <2>0, <2>1, SMTT(30) DEF TypeOK, Priorities, Waiters, Owners, Hots, Hot, InScope, Granted, Harmless, Running
    <2> QED BY <2>1, <2>2, <2>3, <2>4, <2>5, <2>6, <2>7, Zenon
<1>22. CASE UNCHANGED vars
    BY <1>22, SMTT(30) DEF vars, TypeOK, Priorities, Waiters, Owners, HandedOver, Hots, Running, Hot, InScope, Granted, Harmless
<1> QED
    BY <1>1, <1>2, <1>3, <1>4, <1>5, <1>6, <1>7, <1>8, <1>9, <1>10, <1>11, <1>12, <1>13, <1>14, <1>15, <1>16, <1>17, <1>18, <1>19, <1>20, <1>21, <1>22, Zenon DEF Next, Enter, Leave

(* The invariant holds whenever threads use enter and leave and rest.      *)
THEOREM Invariance == Spec => []IInv
<1>1. ASSUME Init PROVE IInv
    <2> USE <1>1, SemaphoreAssumption DEF Init, None
    <2>1. TypeOK BY Zenon DEF TypeOK, PCs
    <2>2. Priorities BY DEF Priorities, InScope
    <2>3. Waiters /\ Owners /\ HandedOver BY DEF Waiters, Owners, HandedOver
    <2>4. Hots /\ Running BY Zenon DEF Hots, Running, Hot, InScope
    <2> QED BY <2>1, <2>2, <2>3, <2>4, Zenon DEF IInv
<1>2. IInv /\ [Next]_vars => IInv'
    BY Inductive, Zenon
<1> QED BY <1>1, <1>2, PTL DEF Spec

(* Only the owner is between enter and leave, for any number of threads.   *)
THEOREM MutuallyExclusive == Spec => []MutualExclusion
<1>1. IInv => MutualExclusion
    BY SemaphoreAssumption, Zenon DEF IInv, TypeOK, Owners, MutualExclusion, None
<1> QED BY <1>1, Invariance, PTL

(* What enter found out about the owner still holds when it acts on it.    *)
THEOREM AtomicScope == Spec => []ScopeIsAtomic
<1>1. IInv => ScopeIsAtomic
    BY Zenon DEF IInv, Owners, ScopeIsAtomic, at, occupied
<1> QED BY <1>1, Invariance, PTL

(* Nobody sleeps in enter while the semaphore is free.                     *)
THEOREM NoneOrphaned == Spec => []NoOrphanedWaiter
<1>1. IInv => NoOrphanedWaiter
    BY Zenon DEF IInv, Waiters, HandedOver, NoOrphanedWaiter
<1> QED BY <1>1, Invariance, PTL

(* Every variable of the semaphore and of the threads in it has its type,  *)
(* ownerEnterCnt never counts below 0 (rodos-semaphore.cpp:81).            *)
THEOREM TypeCorrect == Spec => []TypeOK
<1>1. IInv => TypeOK
    BY Zenon DEF IInv
<1> QED BY <1>1, Invariance, PTL

-----------------------------------------------------------------------------
(* A thread that may enter again is one of the most urgent ones, as in     *)
(* MCSemaphore: no other thread can raise the priority it enters with.     *)
OnlyTopReenters ==
    /\ MaxDepth \in [Threads -> Nat]
    /\ \A t, u \in Threads : MaxDepth[t] > 1 => BasePriority[u] <= BasePriority[t]

(* Wherever enter and leave keep a priority for later it is the one the    *)
(* thread was constructed with, and only the owner's can differ from it.   *)
Kept ==
    \A t \in Threads :
        /\ owner = t => depth[t] > 0 \/ pc[t] \in {"woken", "loop", "take", "lceil", "lraise", "release"}
        /\ owner = t /\ (depth[t] > 0 \/ pc[t] \in {"lceil", "lraise", "release"}) =>
               ownerPriority = BasePriority[t]
        /\ pc[t] \in {"ceil", "raise", "test", "boost", "loop", "wait", "suspend", "woken", "take"} =>
               callerPriority[t] = BasePriority[t]
        /\ pc[t] \in {"handover", "lunceil", "restore"} => restored[t] = BasePriority[t]
        /\ pc[t] \in {"run", "lyield", "ceil", "raise"} /\ owner # t => priority[t] = BasePriority[t]

(* The priority of a thread that may enter again is never raised.          *)
TopKept ==
    \A t \in Threads : MaxDepth[t] > 1 =>
        /\ ~ InScope(t) => priority[t] = BasePriority[t]
        /\ InScope(t) \/ pc[t] \in {"raise", "lraise"} => previous[t] = BasePriority[t]

(* Every step keeps the priorities that enter and leave will restore.      *)
LEMMA KeptInductive ==
    ASSUME OnlyTopReenters, IInv, Kept, TopKept, [Next]_vars
    PROVE  Kept' /\ TopKept'
<1> USE SemaphoreAssumption DEF IInv, TypeOK, OnlyTopReenters, at, goto, Stay, dispatchVars, semVars, localVars, None
<1>1. ASSUME NEW t \in Threads, enter(t) PROVE Kept' /\ TopKept'
    <2> USE <1>1 DEF enter
    <2>1. Kept' BY DEF Kept, TopKept, InScope
    <2>2. TopKept' BY DEF Kept, TopKept, InScope
    <2> QED BY <2>1, <2>2, Zenon
<1>2. ASSUME NEW t \in Threads, EnterCeil(t) PROVE Kept' /\ TopKept'
    <2> USE <1>2 DEF EnterCeil, ReadPriority, RaisePriority
    <2>1. Kept' BY SMTT(30) DEF Kept, TopKept, InScope
    <2>2. TopKept' BY SMTT(30) DEF Kept, TopKept, InScope
    <2> QED BY <2>1, <2>2, Zenon
<1>3. ASSUME NEW t \in Threads, EnterTest(t) PROVE Kept' /\ TopKept'
    <2> USE <1>3 DEF EnterTest, occupied
    <2>1. Kept' BY DEF Kept, TopKept, InScope
    <2>2. TopKept' BY DEF Kept, TopKept, InScope
    <2> QED BY <2>1, <2>2, Zenon
<1>4. ASSUME NEW t \in Threads, EnterBoost(t) PROVE Kept' /\ TopKept'
    <2> USE <1>4 DEF EnterBoost, Priorities, Owners
    <2>1. Kept' BY SMTT(30) DEF Kept, TopKept, InScope
    <2>2. TopKept' BY SMTT(30) DEF Kept, TopKept, InScope
    <2> QED BY <2>1, <2>2, Zenon
<1>5. ASSUME NEW t \in Threads, EnterLoop(t) PROVE Kept' /\ TopKept'
    <2> USE <1>5 DEF EnterLoop, occupied
    <2>1. Kept' BY DEF Kept, TopKept, InScope
    <2>2. TopKept' BY DEF Kept, TopKept, InScope
    <2> QED BY <2>1, <2>2, Zenon
<1>6. ASSUME NEW t \in Threads, WaitFor(t) PROVE Kept' /\ TopKept'
    <2> USE <1>6 DEF WaitFor
    <2>1. Kept' BY DEF Kept, TopKept, InScope
    <2>2. TopKept' BY DEF Kept, TopKept, InScope
    <2> QED BY <2>1, <2>2, Zenon
<1>7. ASSUME NEW t \in Threads, WaitSuspend(t) PROVE Kept' /\ TopKept'
    <2> USE <1>7 DEF WaitSuspend
    <2>1. Kept' BY DEF Kept, TopKept, InScope
    <2>2. TopKept' BY DEF Kept, TopKept, InScope
    <2> QED BY <2>1, <2>2, Zenon
<1>8. ASSUME NEW t \in Threads, WaitReturn(t) PROVE Kept' /\ TopKept'
    <2> USE <1>8 DEF WaitReturn
    <2>1. Kept' BY DEF Kept, TopKept, InScope
    <2>2. TopKept' BY DEF Kept, TopKept, InScope
    <2> QED BY <2>1, <2>2, Zenon
<1>9. ASSUME NEW t \in Threads, EnterTake(t) PROVE Kept' /\ TopKept'
    <2> USE <1>9 DEF EnterTake, Owners
    <2>1. Kept' BY DEF Kept, TopKept, InScope
    <2>2. TopKept' BY DEF Kept, TopKept, InScope
    <2> QED BY <2>1, <2>2, Zenon
<1>10. ASSUME NEW t \in Threads, EnterUnceil(t) PROVE Kept' /\ TopKept'
    <2> USE <1>10 DEF EnterUnceil, LeaveScope, Owners
    <2>1. Kept' BY DEF Kept, TopKept, InScope
    <2>2. TopKept' BY DEF Kept, TopKept, InScope
    <2> QED BY <2>1, <2>2, Zenon
<1>11. ASSUME NEW t \in Threads, EnterYield(t) PROVE Kept' /\ TopKept'
    <2> USE <1>11 DEF EnterYield, Owners
    <2>1. Kept' BY DEF Kept, TopKept, InScope
    <2>2. TopKept' BY DEF Kept, TopKept, InScope
    <2> QED BY <2>1, <2>2, Zenon
<1>12. ASSUME NEW t \in Threads, leave(t) PROVE Kept' /\ TopKept'
    <2> USE <1>12 DEF leave, Owners
    <2>1. Kept' BY DEF Kept, TopKept, InScope
    <2>2. TopKept' BY DEF Kept, TopKept, InScope
    <2> QED BY <2>1, <2>2, Zenon
<1>13. ASSUME NEW t \in Threads, LeaveCeil(t) PROVE Kept' /\ TopKept'
    <2> USE <1>13 DEF LeaveCeil, ReadPriority, RaisePriority, Owners
    <2>1. Kept' BY DEF Kept, TopKept, InScope
    <2>2. TopKept' BY DEF Kept, TopKept, InScope
    <2> QED BY <2>1, <2>2, Zenon
<1>14. ASSUME NEW t \in Threads, LeaveRelease(t) PROVE Kept' /\ TopKept'
    <2> USE <1>14 DEF LeaveRelease, Owners
    <2>1. Kept' BY DEF Kept, TopKept, InScope
    <2>2. TopKept' BY DEF Kept, TopKept, InScope
    <2> QED BY <2>1, <2>2, Zenon
<1>15. ASSUME NEW t \in Threads, LeaveHandOver(t) PROVE Kept' /\ TopKept'
    <2> USE <1>15 DEF LeaveHandOver
    <2>1. handed[t] \in Threads /\ pc[handed[t]] = "woken" /\ depth[handed[t]] = 0
        BY Zenon DEF Owners, Waiters, Hots, Hot, InScope, Granted
    <2>2. Kept' BY <2>1 DEF Kept, Owners
    <2>3. TopKept' BY Zenon DEF TopKept, InScope
    <2> QED BY <2>2, <2>3, Zenon
<1>16. ASSUME NEW t \in Threads, LeaveUnceil(t) PROVE Kept' /\ TopKept'
    <2> USE <1>16 DEF LeaveUnceil, LeaveScope
    <2>1. Kept' BY DEF Kept, TopKept, InScope
    <2>2. TopKept' BY DEF Kept, TopKept, InScope
    <2> QED BY <2>1, <2>2, Zenon
<1>17. ASSUME NEW t \in Threads, LeaveRestore(t) PROVE Kept' /\ TopKept'
    <2> USE <1>17 DEF LeaveRestore
    <2>1. Kept' BY DEF Kept, TopKept, InScope
    <2>2. TopKept' BY DEF Kept, TopKept, InScope
    <2> QED BY <2>1, <2>2, Zenon
<1>18. ASSUME NEW t \in Threads, LeaveYield(t) PROVE Kept' /\ TopKept'
    <2> USE <1>18 DEF LeaveYield
    <2>1. Kept' BY DEF Kept, TopKept, InScope
    <2>2. TopKept' BY DEF Kept, TopKept, InScope
    <2> QED BY <2>1, <2>2, Zenon
<1>19. ASSUME NEW t \in Threads, Rest(t) PROVE Kept' /\ TopKept'
    <2> USE <1>19 DEF Rest
    <2>1. Kept' BY Zenon DEF Kept, TopKept, InScope
    <2>2. TopKept' BY Zenon DEF Kept, TopKept, InScope
    <2> QED BY <2>1, <2>2, Zenon
<1>20. ASSUME NEW t \in Threads, WakeUp(t) PROVE Kept' /\ TopKept'
    <2> USE <1>20 DEF WakeUp
    <2>1. Kept' BY Zenon DEF Kept, TopKept, InScope
    <2>2. TopKept' BY Zenon DEF Kept, TopKept, InScope
    <2> QED BY <2>1, <2>2, Zenon
<1>21. CASE Preempt
    BY <1>21, Zenon DEF Preempt, Kept, TopKept, InScope
<1>22. CASE UNCHANGED vars
    BY <1>22, Zenon DEF vars, Kept, TopKept, InScope
<1> QED
    BY <1>1, <1>2, <1>3, <1>4, <1>5, <1>6, <1>7, <1>8, <1>9, <1>10, <1>11, <1>12, <1>13, <1>14, <1>15, <1>16, <1>17, <1>18, <1>19, <1>20, <1>21, <1>22, Zenon DEF Next, Enter, Leave

(* A thread that holds nothing runs at the priority it was given, for any  *)
(* number of threads of which only the most urgent ones enter again; run   *)
(* semaphore_reenter shows that the condition is needed.                   *)
THEOREM PriorityKept ==
    ASSUME OnlyTopReenters
    PROVE  Spec => []PriorityRestored
<1>1. Init => Kept /\ TopKept
    BY SemaphoreAssumption DEF Init, Kept, TopKept, InScope, None
<1>2. IInv /\ Kept /\ TopKept /\ [Next]_vars => Kept' /\ TopKept'
    BY KeptInductive, OnlyTopReenters, Zenon
<1>3. IInv /\ Kept => PriorityRestored
    BY DEF Kept, PriorityRestored
<1> QED BY <1>1, <1>2, <1>3, Invariance, PTL DEF Spec
=============================================================================
