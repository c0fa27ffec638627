---------------------------- MODULE CeilingScope ----------------------------
(***************************************************************************)
(* Threads that synchronise with PRIORITY_CEILER_IN_SCOPE, suspension and  *)
(* resume: what SyncFifo, SyncCommBuffer and Barrier have in common.  The  *)
(* scheduler is its contract (Dispatch), and may strike between any two    *)
(* steps.  A thread that suspends itself inside a scope keeps the ceiling  *)
(* priority and goes on with it when it is resumed.                        *)
(*                                                                         *)
(* Nobody changes the priority of another thread here, so that reading and *)
(* raising the priority are one step.  The definitions leave all variables *)
(* alone that are not declared in this module.                             *)
(***************************************************************************)
EXTENDS Dispatch

CONSTANTS writer, reader, \* the two threads that share an object
          Ceiling,        \* CEILING_PRIORITY
          ThreadList,     \* the threads as the scans visit them
          Priorities      \* the priorities the threads may be constructed with

ASSUME CeilingScopeAssumption ==
    /\ {writer, reader} \subseteq Threads /\ writer # reader /\ idle \notin Threads
    /\ Ceiling \in Nat \ {0} /\ \A p \in Priorities : p \in Nat /\ p < Ceiling

VARIABLES currentThread, order,
          priority,       \* of each thread
          ready,          \* the threads whose suspendedUntil has passed
          pc,             \* where each thread is
          previous,       \* the priority its ceiling scope will restore
          timeout,        \* of its last call: "none" (0), "some" or "ever" (END_OF_TIME)
          switched        \* history: SysTick has switched threads inside a ceiling scope

dispatchVars == <<currentThread, order>>
scopeVars == <<dispatchVars, priority, ready, pc, previous, timeout, switched>>

None == idle

ScopeInit ==
    /\ currentThread = idle /\ order = ThreadList
    /\ priority \in [Threads -> Priorities]
    /\ ready = Threads
    /\ pc = [t \in Threads |-> "run"]
    /\ previous = [t \in Threads |-> 0]
    /\ timeout = [t \in Threads |-> "some"]
    /\ switched = FALSE

at(t, l) == currentThread = t /\ pc[t] = l
goto(t, l) == pc' = [pc EXCEPT ![t] = l]

(* A step of a thread in its own code.                                     *)
Step(t, from, to) ==
    /\ at(t, from) /\ goto(t, to)
    /\ UNCHANGED <<dispatchVars, priority, ready, previous, timeout, switched>>

(* A call of the scheduler.                                                *)
Dispatched(rdy) ==
    \E u \in findNextToRun(rdy, priority, order) :
        currentThread' = u /\ order' = Activated(order, u)

Yield(t, from, to) ==
    /\ at(t, from) /\ goto(t, to)
    /\ Dispatched(ready)
    /\ UNCHANGED <<priority, ready, previous, timeout, switched>>

(* SysTick calls the scheduler.                                            *)
Preempt ==
    /\ Dispatched(ready)
    /\ currentThread' # currentThread
    /\ switched' = (switched \/ (currentThread \in Threads /\ priority[currentThread] = Ceiling))
    /\ UNCHANGED <<priority, ready, pc, previous, timeout>>

(* The constructor and the destructor of ScopePriority.                    *)
OpenScopeLow(t, from, to) ==
    /\ at(t, from) /\ goto(t, to)
    /\ previous' = [previous EXCEPT ![t] = priority[t]]
    /\ UNCHANGED <<dispatchVars, priority, ready, switched>>

OpenScope(t, from, to) ==
    /\ at(t, from) /\ goto(t, to)
    /\ previous' = [previous EXCEPT ![t] = priority[t]]
    /\ priority' = [priority EXCEPT ![t] = Ceiling]
    /\ UNCHANGED <<dispatchVars, ready, switched>>

CloseScope(t, from, to) ==
    /\ at(t, from) /\ goto(t, to)
    /\ priority' = [priority EXCEPT ![t] = previous[t]]
    /\ previous' = [previous EXCEPT ![t] = 0]
    /\ UNCHANGED <<dispatchVars, ready, timeout, switched>>

(* suspendCallerUntil, and resume of a thread (or of a null pointer, which *)
(* the callers exclude).                                                   *)
Suspend(t, from, to) ==
    /\ at(t, from) /\ goto(t, to)
    /\ ready' = ready \ {t}
    /\ Dispatched(ready')
    /\ UNCHANGED <<priority, previous, timeout, switched>>

Resume(t, u, from, to) ==
    /\ at(t, from) /\ goto(t, to)
    /\ ready' = ready \cup ({u} \ {None})
    /\ UNCHANGED <<dispatchVars, priority, previous, timeout, switched>>

(* Between its calls a thread rests for some time.                         *)
Rest(t) == Suspend(t, "run", "run")

(* The time of a suspension is reached.                                    *)
WakeUp(t) ==
    /\ t \notin ready
    /\ pc[t] = "run" \/ timeout[t] = "some"
    /\ ready' = ready \cup {t}
    /\ UNCHANGED <<dispatchVars, priority, pc, previous, timeout, switched>>
=============================================================================
