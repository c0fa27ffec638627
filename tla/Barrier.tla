------------------------------- MODULE Barrier -------------------------------
(***************************************************************************)
(* The Barrier of src/independent/barrier.cpp: the reader waits, the       *)
(* writer gives the signal.  owner is volatile: every mention of it in the *)
(* code is a load or a store of its own, and a step.  A null pointer that  *)
(* is followed (unblock loads owner once to test it and once to follow it) *)
(* resumes nobody here.                                                    *)
(***************************************************************************)
EXTENDS CeilingScope

VARIABLES owner,
          waitOk,      \* the local "ok" of waitForSignal,
          unblockOk,   \*   and of unblock
          waiter,      \* the pointer unblock has loaded to follow it
          wakenBy      \* history: a signal or the time ended the last suspension

barrierVars == <<owner, waitOk, unblockOk, waiter, wakenBy>>

BarrierInit ==
    /\ owner = None /\ waiter = None
    /\ waitOk = TRUE /\ unblockOk = FALSE
    /\ wakenBy = "nothing"

(* waitForSignal(condition, timeOutAt): returns false at once when         *)
(* somebody waits; a condition that is false only opens and closes the     *)
(* scope.                                                                  *)
waitForSignal(t) ==
    /\ t = reader /\ at(t, "run")
    /\ IF owner # None
       THEN /\ waitOk' = FALSE
            /\ UNCHANGED <<pc, timeout, wakenBy>>
       ELSE /\ waitOk' = TRUE /\ wakenBy' = "nothing"
            /\ \E to \in {"some", "ever"} : timeout' = [timeout EXCEPT ![t] = to]
            /\ goto(t, "waitOpen") \/ goto(t, "passOpen")
    /\ UNCHANGED <<dispatchVars, priority, ready, previous, switched, owner, unblockOk, waiter>>

waitOpen(t) ==
    /\ OpenScope(t, "waitOpen", "waitOwn") \/ OpenScope(t, "passOpen", "waitClose")
    /\ UNCHANGED <<barrierVars, timeout>>

waitOwn(t) ==
    /\ Step(t, "waitOwn", "waitSuspend")
    /\ owner' = t
    /\ UNCHANGED <<waitOk, unblockOk, waiter, wakenBy>>

waitSuspend(t) == Suspend(t, "waitSuspend", "waitTest") /\ UNCHANGED barrierVars

waitTest(t) ==
    /\ Step(t, "waitTest", "waitClose")
    /\ waitOk' = (owner = None)
    /\ UNCHANGED <<owner, unblockOk, waiter, wakenBy>>

waitClose(t) == CloseScope(t, "waitClose", "waitClear") /\ UNCHANGED barrierVars

waitClearNot(t) == Step(t, "waitClear", "run") /\ UNCHANGED barrierVars

waitClear(t) ==
    /\ Step(t, "waitClear", "run")
    /\ owner' = None
    /\ UNCHANGED <<waitOk, unblockOk, waiter, wakenBy>>

(* unblock().                                                              *)
unblock(t) ==
    /\ t = writer /\ at(t, "run")
    /\ IF owner = None
       THEN unblockOk' = FALSE /\ UNCHANGED pc
       ELSE goto(t, "unblockOpen") /\ UNCHANGED unblockOk
    /\ UNCHANGED <<dispatchVars, priority, ready, previous, switched, timeout, owner, waitOk, waiter, wakenBy>>

unblockOpen(t) == OpenScope(t, "unblockOpen", "unblockTest") /\ UNCHANGED <<barrierVars, timeout>>

unblockTest(t) ==
    /\ Step(t, "unblockTest", IF owner # None THEN "unblockLoad" ELSE "unblockAsk")
    /\ UNCHANGED barrierVars

unblockLoad(t) ==
    /\ Step(t, "unblockLoad", "unblockResume")
    /\ waiter' = owner
    /\ UNCHANGED <<owner, waitOk, unblockOk, wakenBy>>

unblockResume(t) ==
    /\ Resume(t, waiter, "unblockResume", "unblockAsk")
    /\ wakenBy' = IF waiter # None /\ pc[waiter] = "waitTest" THEN "signal" ELSE wakenBy
    /\ UNCHANGED <<owner, waitOk, unblockOk, waiter>>

unblockAsk(t) ==
    /\ Step(t, "unblockAsk", "unblockClear")
    /\ unblockOk' = (owner # None)
    /\ UNCHANGED <<owner, waitOk, waiter, wakenBy>>

unblockClearNot(t) == Step(t, "unblockClear", "unblockClose") /\ UNCHANGED barrierVars

unblockClear(t) ==
    /\ Step(t, "unblockClear", "unblockClose")
    /\ owner' = None
    /\ UNCHANGED <<waitOk, unblockOk, waiter, wakenBy>>

unblockClose(t) ==
    /\ CloseScope(t, "unblockClose", "run")
    /\ waiter' = None
    /\ UNCHANGED <<owner, waitOk, unblockOk, wakenBy>>

BarrierTimeOut(t) ==
    /\ WakeUp(t)
    /\ wakenBy' = IF pc[t] = "waitTest" THEN "time" ELSE wakenBy
    /\ UNCHANGED <<owner, waitOk, unblockOk, waiter>>

BarrierStep(t) ==
    \/ waitForSignal(t) \/ waitOpen(t) \/ waitOwn(t) \/ waitSuspend(t) \/ waitTest(t)
    \/ waitClose(t) \/ waitClear(t)
    \/ unblock(t) \/ unblockOpen(t) \/ unblockTest(t) \/ unblockLoad(t) \/ unblockResume(t)
    \/ unblockAsk(t) \/ unblockClear(t) \/ unblockClose(t)

-----------------------------------------------------------------------------
InWait(t) == pc[t] \in {"waitSuspend", "waitTest", "waitClose", "waitClear"}

(* owner always points to a thread inside waitForSignal (barrier.cpp:36).  *)
(* So does the pointer that unblock follows (barrier.cpp:48) as long as    *)
(* SysTick never switches threads inside a ceiling scope: a stray resume   *)
(* would end some other suspension early.                                  *)
OwnerWaits ==
    /\ owner # None => InWait(owner)
    /\ ~switched /\ pc[writer] = "unblockResume" => waiter # None /\ InWait(waiter)

(* As long as SysTick never switches threads inside a ceiling scope, the   *)
(* two sides agree.  waitForSignal "returns false in case of time out,     *)
(* else true" (barrier.h:24); a thread that sleeps in it can be signalled; *)
(* unblock returns true if and only if it resumes a thread, and that       *)
(* thread either has not tested owner yet and returns true, or it has      *)
(* timed out and is about to clear owner (barrier.cpp:33-36, 48-50).       *)
SignalsAgree ==
    ~switched =>
        /\ pc[reader] = "run" => (waitOk <=> wakenBy # "time")
        /\ pc[reader] = "waitTest" /\ reader \notin ready => owner = reader
        /\ pc[writer] = "unblockClose" =>
                /\ unblockOk <=> waiter # None
                /\ unblockOk => \/ pc[reader] = "waitTest" /\ wakenBy = "signal"
                                \/ pc[reader] = "waitClear" /\ wakenBy = "time"
=============================================================================
