----------------------------- MODULE Semaphore -----------------------------
(***************************************************************************)
(* The mutex Semaphore of src/bare-metal-generic/rodos-semaphore.cpp, used *)
(* by threads of different priority.  The scheduler may strike between any *)
(* two steps (Preempt); enter and leave protect themselves with            *)
(* PRIORITY_CEILER_IN_SCOPE only.  A thread that waits in enter keeps the  *)
(* ceiling priority all the while.                                         *)
(*                                                                         *)
(* Besides using the semaphore, a thread rests (suspendCallerUntil at its  *)
(* own priority).                                                          *)
(***************************************************************************)
EXTENDS Dispatch, FiniteSets

CONSTANTS BasePriority,  \* the priority each thread was constructed with
          Ceiling,       \* CEILING_PRIORITY
          ThreadList,    \* the threads as the scans visit them
          MaxDepth       \* bound: how often each thread enters before it leaves

None == idle     \* a null pointer: the idle thread uses no semaphore

ASSUME SemaphoreAssumption ==
    /\ idle \notin Threads
    /\ BasePriority \in [Threads -> Nat \ {0}]
    /\ Ceiling \in Nat \ {0} /\ \A t \in Threads : BasePriority[t] < Ceiling

VARIABLES currentThread, order,
          priority,       \* of each thread
          ready,          \* the threads whose suspendedUntil has passed
          waitingFor,     \* the threads whose waitingFor is this semaphore
          owner, ownerEnterCnt, ownerPriority,
          pc,             \* where each thread is
          callerPriority, \* enter's local
          previous,       \* the priority its ceiling scope will restore
          handed,         \* leave's locals: waiter,
          restored,       \*   and currentOwnerPriority
          depth           \* history: how often each thread is inside

semVars == <<owner, ownerEnterCnt, ownerPriority>>
dispatchVars == <<currentThread, order>>
localVars == <<callerPriority, previous, handed, restored>>
vars == <<dispatchVars, priority, ready, waitingFor, semVars, pc, localVars, depth>>

Init ==
    /\ currentThread = idle /\ order = ThreadList
    /\ priority = BasePriority
    /\ ready = Threads /\ waitingFor = {}
    /\ owner = None /\ ownerEnterCnt = 0 /\ ownerPriority = 0
    /\ pc = [t \in Threads |-> "run"]
    /\ callerPriority = [t \in Threads |-> 0]
    /\ previous = [t \in Threads |-> 0]
    /\ handed = [t \in Threads |-> None]
    /\ restored = [t \in Threads |-> 0]
    /\ depth = [t \in Threads |-> 0]

at(t, l) == currentThread = t /\ pc[t] = l
goto(t, l) == pc' = [pc EXCEPT ![t] = l]

(* A call of the scheduler; Stay: no call.                                 *)
Dispatched(rdy) ==
    \E u \in findNextToRun(rdy, priority, order) :
        currentThread' = u /\ order' = Activated(order, u)
Stay == UNCHANGED dispatchVars

(* SysTick calls the scheduler.                                            *)
Preempt ==
    /\ Dispatched(ready)
    /\ currentThread' # currentThread
    /\ UNCHANGED <<priority, ready, waitingFor, semVars, pc, localVars, depth>>

-----------------------------------------------------------------------------
(* Semaphore::enter: rodos-semaphore.cpp:44.                               *)
enter(t) ==
    /\ at(t, "run") /\ depth[t] < MaxDepth[t]
    /\ callerPriority' = [callerPriority EXCEPT ![t] = priority[t]]
    /\ goto(t, "ceil")
    /\ Stay /\ UNCHANGED <<priority, ready, waitingFor, semVars, previous, handed, restored, depth>>

(* The constructor of ScopePriority: reads the priority, then sets it.      *)
ReadPriority(t, from, to) ==
    /\ at(t, from)
    /\ previous' = [previous EXCEPT ![t] = priority[t]]
    /\ goto(t, to)
    /\ Stay /\ UNCHANGED <<priority, ready, waitingFor, semVars, callerPriority, handed, restored, depth>>

RaisePriority(t, from, to) ==
    /\ at(t, from)
    /\ priority' = [priority EXCEPT ![t] = Ceiling]
    /\ goto(t, to)
    /\ Stay /\ UNCHANGED <<ready, waitingFor, semVars, localVars, depth>>

(* Its destructor.                                                         *)
LeaveScope(t, from, to) ==
    /\ at(t, from)
    /\ priority' = [priority EXCEPT ![t] = previous[t]]
    /\ previous' = [previous EXCEPT ![t] = 0]
    /\ goto(t, to)
    /\ Stay /\ UNCHANGED <<ready, waitingFor, semVars, callerPriority, handed, restored, depth>>

EnterCeil(t) == ReadPriority(t, "ceil", "raise") \/ RaisePriority(t, "raise", "test")

occupied(t) == owner # None /\ owner # t

EnterTest(t) ==
    /\ at(t, "test")
    /\ goto(t, IF occupied(t) THEN "boost" ELSE "take")
    /\ Stay /\ UNCHANGED <<priority, ready, waitingFor, semVars, localVars, depth>>

EnterBoost(t) ==
    /\ at(t, "boost")
    /\ priority' = IF owner # None /\ callerPriority[t] > priority[owner]
                   THEN [priority EXCEPT ![owner] = callerPriority[t]] ELSE priority
    /\ goto(t, "loop")
    /\ Stay /\ UNCHANGED <<ready, waitingFor, semVars, localVars, depth>>

EnterLoop(t) ==
    /\ at(t, "loop")
    /\ IF occupied(t) THEN goto(t, "wait") /\ UNCHANGED ownerEnterCnt
                      ELSE goto(t, "take") /\ ownerEnterCnt' = 0
    /\ Stay /\ UNCHANGED <<priority, ready, waitingFor, owner, ownerPriority, localVars, depth>>

(* suspendCallerUntil(END_OF_TIME, this): its two stores, and yield.       *)
WaitFor(t) ==
    /\ at(t, "wait")
    /\ waitingFor' = waitingFor \cup {t}
    /\ goto(t, "suspend")
    /\ Stay /\ UNCHANGED <<priority, ready, semVars, localVars, depth>>

WaitSuspend(t) ==
    /\ at(t, "suspend")
    /\ ready' = ready \ {t}
    /\ Dispatched(ready')
    /\ goto(t, "woken")
    /\ UNCHANGED <<priority, waitingFor, semVars, localVars, depth>>

WaitReturn(t) ==
    /\ at(t, "woken")
    /\ waitingFor' = waitingFor \ {t}
    /\ goto(t, "loop")
    /\ Stay /\ UNCHANGED <<priority, ready, semVars, localVars, depth>>

EnterTake(t) ==
    /\ at(t, "take")
    /\ owner' = t
    /\ ownerPriority' = callerPriority[t]
    /\ ownerEnterCnt' = ownerEnterCnt + 1
    /\ depth' = [depth EXCEPT ![t] = depth[t] + 1]
    /\ goto(t, "unceil")
    /\ Stay /\ UNCHANGED <<priority, ready, waitingFor, localVars>>

EnterUnceil(t) == LeaveScope(t, "unceil", "yield")

EnterYield(t) ==
    /\ at(t, "yield")
    /\ Dispatched(ready)
    /\ callerPriority' = [callerPriority EXCEPT ![t] = 0]
    /\ goto(t, "run")
    /\ UNCHANGED <<priority, ready, waitingFor, semVars, previous, handed, restored, depth>>

-----------------------------------------------------------------------------
(* Semaphore::leave: rodos-semaphore.cpp:71.                               *)
leaveAtOnce(t) ==
    /\ at(t, "run") /\ depth[t] > 0
    /\ depth' = [depth EXCEPT ![t] = depth[t] - 1]
    /\ ownerEnterCnt' = ownerEnterCnt - 1
    /\ goto(t, "lceil")
    /\ Stay /\ UNCHANGED <<priority, ready, waitingFor, owner, ownerPriority, localVars>>

leave(t) ==
    /\ at(t, "run") /\ depth[t] > 0
    /\ depth' = [depth EXCEPT ![t] = depth[t] - 1]
    /\ IF owner # t THEN UNCHANGED <<ownerEnterCnt, pc>>
       ELSE /\ ownerEnterCnt' = ownerEnterCnt - 1
            /\ goto(t, IF ownerEnterCnt > 1 THEN "run" ELSE "lceil")
    /\ Stay /\ UNCHANGED <<priority, ready, waitingFor, owner, ownerPriority, localVars>>

LeaveCeil(t) == ReadPriority(t, "lceil", "lraise") \/ RaisePriority(t, "lraise", "release")

findNextWaitingFor == MostUrgent(waitingFor, priority, order)

LeaveRelease(t) ==
    /\ at(t, "release")
    /\ owner' = None
    /\ restored' = [restored EXCEPT ![t] = ownerPriority]
    /\ ownerPriority' = 0
    /\ IF waitingFor = {}
       THEN goto(t, "lunceil") /\ UNCHANGED handed
       ELSE /\ \E w \in findNextWaitingFor : handed' = [handed EXCEPT ![t] = w]
            /\ goto(t, "handover")
    /\ Stay /\ UNCHANGED <<priority, ready, waitingFor, ownerEnterCnt, callerPriority, previous, depth>>

LeaveNoOwner(t) ==
    /\ at(t, "handover")
    /\ ready' = ready \cup {handed[t]}
    /\ waitingFor' = waitingFor \ {handed[t]}
    /\ goto(t, "lunceil")
    /\ Stay /\ UNCHANGED <<priority, semVars, localVars, depth>>

(* owner = waiter; waiter->resume().                                       *)
LeaveHandOver(t) ==
    /\ at(t, "handover")
    /\ owner' = handed[t]
    /\ ready' = ready \cup {handed[t]}
    /\ waitingFor' = waitingFor \ {handed[t]}
    /\ goto(t, "lunceil")
    /\ Stay /\ UNCHANGED <<priority, ownerEnterCnt, ownerPriority, localVars, depth>>

LeaveUnceil(t) == LeaveScope(t, "lunceil", "restore")

LeaveKeepPriority(t) ==
    /\ at(t, "restore")
    /\ restored' = [restored EXCEPT ![t] = 0]
    /\ goto(t, "lyield")
    /\ Stay /\ UNCHANGED <<priority, ready, waitingFor, semVars, callerPriority, previous, handed, depth>>

LeaveRestore(t) ==
    /\ at(t, "restore")
    /\ priority' = [priority EXCEPT ![t] = restored[t]]
    /\ restored' = [restored EXCEPT ![t] = 0]
    /\ goto(t, "lyield")
    /\ Stay /\ UNCHANGED <<ready, waitingFor, semVars, callerPriority, previous, handed, depth>>

LeaveYield(t) ==
    /\ at(t, "lyield")
    /\ IF handed[t] # None /\ ownerPriority = 0 THEN Dispatched(ready) ELSE Stay
    /\ handed' = [handed EXCEPT ![t] = None]
    /\ goto(t, "run")
    /\ UNCHANGED <<priority, ready, waitingFor, semVars, callerPriority, previous, restored, depth>>

-----------------------------------------------------------------------------
(* The thread suspends itself for some time, at its own priority.          *)
Rest(t) ==
    /\ at(t, "run")
    /\ ready' = ready \ {t}
    /\ Dispatched(ready')
    /\ UNCHANGED <<priority, waitingFor, semVars, pc, localVars, depth>>

(* Its time is reached.                                                    *)
WakeUp(t) ==
    /\ t \notin ready /\ pc[t] = "run"
    /\ ready' = ready \cup {t}
    /\ UNCHANGED <<dispatchVars, priority, waitingFor, semVars, pc, localVars, depth>>

-----------------------------------------------------------------------------
Enter(t) ==
    \/ enter(t) \/ EnterCeil(t) \/ EnterTest(t) \/ EnterBoost(t) \/ EnterLoop(t)
    \/ WaitFor(t) \/ WaitSuspend(t) \/ WaitReturn(t)
    \/ EnterTake(t) \/ EnterUnceil(t) \/ EnterYield(t)

Leave(t) ==
    \/ leave(t) \/ LeaveCeil(t) \/ LeaveRelease(t) \/ LeaveHandOver(t)
    \/ LeaveUnceil(t) \/ LeaveRestore(t) \/ LeaveYield(t)

Next == Preempt \/ \E t \in Threads : Enter(t) \/ Leave(t) \/ Rest(t) \/ WakeUp(t)

Spec == Init /\ [][Next]_vars

-----------------------------------------------------------------------------
PCs == {"run", "ceil", "raise", "test", "boost", "loop", "wait", "suspend", "woken", "take", "unceil", "yield",
        "lceil", "lraise", "release", "handover", "lunceil", "restore", "lyield"}

(* Every variable holds a value of its type.                               *)
TypeOK ==
    /\ currentThread \in Threads \cup {idle}
    /\ priority \in [Threads -> Nat]
    /\ ready \subseteq Threads /\ waitingFor \subseteq Threads
    /\ owner \in Threads \cup {None} /\ ownerEnterCnt \in Nat /\ ownerPriority \in Nat
    /\ pc \in [Threads -> PCs]
    /\ callerPriority \in [Threads -> Nat] /\ previous \in [Threads -> Nat]
    /\ handed \in [Threads -> Threads \cup {None}] /\ restored \in [Threads -> Nat]
    /\ depth \in [Threads -> Nat]

(* Only the owner is between enter and leave, and ownerEnterCnt counts how *)
(* often it entered (rodos-semaphore.h:25, rodos-semaphore.cpp:81).        *)
MutualExclusion ==
    \A t \in Threads : depth[t] > 0 => owner = t /\ ownerEnterCnt = depth[t]

(* "Priority ceiling is used to avoid thread switches in a critical        *)
(* region. This is equivalent to atomarity at thread level." (thread.h:387)*)
(* What enter found out about the owner inside its ceiling scope still     *)
(* holds when it acts on it.                                               *)
ScopeIsAtomic ==
    \A t \in Threads : at(t, "boost") \/ at(t, "wait") \/ at(t, "suspend") => occupied(t)

(* Nobody sleeps in enter while the semaphore is free: leave hands it over *)
(* to a waiting thread (rodos-semaphore.cpp:94).                           *)
NoOrphanedWaiter ==
    \A t \in Threads :
        (pc[t] = "woken" /\ t \notin ready) =>
            owner # None \/ \E u \in Threads : pc[u] = "handover"

(* "If so, restore the original priority" (rodos-semaphore.cpp:101): a     *)
(* thread that holds nothing runs at the priority it was given.            *)
PriorityRestored ==
    \A t \in Threads : pc[t] = "run" /\ depth[t] = 0 => priority[t] = BasePriority[t]
=============================================================================
