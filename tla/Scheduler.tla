----------------------------- MODULE Scheduler -----------------------------
(***************************************************************************)
(* The preemptive scheduler of the bare-metal ports                        *)
(* (src/bare-metal-generic/scheduler.cpp and thread_on_hw.cpp): threads    *)
(* that yield, suspend themselves and raise their priority, the scheduler  *)
(* called by yield or by the SysTick interrupt, device interrupts that     *)
(* resume threads, and the idle thread with its sleep mode.                *)
(*                                                                         *)
(* Time passes only while a thread executes its own code or sleeps, so     *)
(* that yield, interrupts and the scheduler take no time; a SysTick that   *)
(* is due still strikes between any two steps of yield.  The values of     *)
(* scheduleCounter matter only by comparison: "order" lists the threads by *)
(* their lastActivation, "undisturbed[t]" says that the counter still has  *)
(* the value t's yield loaded.                                             *)
(***************************************************************************)
EXTENDS TimeModel, Sequences, FiniteSets, Functions

CONSTANTS threadList,   \* the threads, in the order the scans visit them
          idlethread,
          BasePriority, \* the priority each thread was constructed with
          Ceiling,      \* CEILING_PRIORITY
          TimeSlice,    \* TIME_SLICE_FOR_SAME_PRIORITY
          Spacing,      \* MIN_SYS_TICK_SPACING
          Wakeup,       \* TIME_WAKEUP_FROM_SLEEP
          Micro,        \* 1000 in the code: the time units in one of the timer
          EventPeriod,  \* of the time event that is active
          Delays,       \* for how long threads suspend themselves
          Scoped,       \* the threads that use PRIORITY_CEILER_IN_SCOPE
          Resumable,    \* the threads that are resumed by others
          MayOverflow,  \* the threads that may overflow their stack
          MaxTime       \* bound: time stands still then

Threads == Range(threadList)
All == Threads \cup {idlethread}
None == "none"

ASSUME SchedulerAssumption ==
    /\ threadList \in Seq(Threads) /\ idlethread \notin Threads /\ None \notin All
    /\ BasePriority \in [All -> Nat] /\ BasePriority[idlethread] = 0
    /\ Ceiling \in Nat /\ \A t \in Threads : 0 < BasePriority[t] /\ BasePriority[t] < Ceiling
    /\ {TimeSlice, Spacing, Micro, EventPeriod} \subseteq Nat \ {0}
    /\ {Wakeup, MaxTime} \subseteq Nat /\ Delays \subseteq Nat
    /\ MaxTime + TimeSlice + 2 * Spacing + EventPeriod < EndOfTime

VARIABLES now,
          mode,            \* "thread", or where the interrupted processor is in schedulerWrapper
          currentThread,
          suspendedUntil, priority, order,
          timeToTry,       \* timeToTryAgainToSchedule
          preSelected,     \* preSelectedNextToRun with its EarliestSuspendedUntil
          yieldSchedulingLock,
          trigger,         \* when SysTick strikes; EndOfTime: stopped
          eventAt,         \* TimeEvent::getNextTriggerTime()
          chosen,          \* what schedule() selected
          pc,              \* where each thread is
          after,           \* where it continues after yield
          inScope,         \* it is inside PRIORITY_CEILER_IN_SCOPE
          wakeAt,          \* the parameter reactivationTime of suspendCallerUntil
          sel, pos, undisturbed,  \* yield's locals: selection so far, scan position
          reactivation,    \* the idle thread's local reactivationTime
          broken,          \* the threads that overflowed their stack
          overdue, turn    \* history: how long each ready thread has been kept from running by
                           \* one constructed less urgent, since the scheduler preferred that one;
                           \* and by any of lower or equal priority

timerVars == <<timeToTry, trigger, eventAt>>
threadVars == <<suspendedUntil, priority, order, inScope, broken>>
yieldVars == <<after, wakeAt, sel, pos, undisturbed, reactivation>>
schedVars == <<mode, currentThread, preSelected, yieldSchedulingLock, chosen>>
histVars == <<overdue, turn>>
vars == <<now, timerVars, threadVars, yieldVars, schedVars, pc, histVars>>

NoSelection == [next |-> idlethread, earliest |-> EndOfTime]
NotPreSelected == [NoSelection EXCEPT !.next = None]

-----------------------------------------------------------------------------
NeverBefore(a, b) == FALSE

(* lastActivation of a is less than that of b.                             *)
ActivatedBefore(a, b) ==
    \E i \in 1 .. Len(order) : order[i] = b /\ \A j \in i .. Len(order) : order[j] # a

Activated(t) == Append(SelectSeq(order, LAMBDA u : u # t), t)

ConsiderNoFuture(s, t) ==
    IF suspendedUntil[t] < now
    THEN IF \/ priority[t] > priority[s.next]
            \/ priority[t] = priority[s.next] /\ ActivatedBefore(t, s.next)
         THEN [s EXCEPT !.next = t] ELSE s
    ELSE s

(* The body of the loop of findNextToRun, for one thread of the list.      *)
Consider(s, t) ==
    IF suspendedUntil[t] < now
    THEN IF \/ priority[t] > priority[s.next]
            \/ priority[t] = priority[s.next] /\ ActivatedBefore(t, s.next)
         THEN [s EXCEPT !.next = t] ELSE s
    ELSE IF priority[t] >= priority[s.next]
         THEN [s EXCEPT !.earliest = earlier(s.earliest, suspendedUntil[t])] ELSE s

(* What the loop has found after i threads.                                *)
found[i \in 0 .. Len(threadList)] ==
    IF i = 0 THEN NoSelection ELSE Consider(found[i - 1], threadList[i])

findNextToRunFromISR == found[Len(threadList)]

(* Timer::setInterval: the timer counts whole units.                       *)
setInterval(interval) == now + (interval \div Micro) * Micro

updateTriggerToNextTimingEvent(nextScheduling, nextTimeEvent) ==
    setInterval(later(earlier(nextScheduling, nextTimeEvent),
                      computeNextBeat(0, Spacing, now + Spacing)) - now)

(* Scheduler::idle starts the system in the idle thread.                   *)
Init ==
    /\ now = 1
    /\ mode = "thread" /\ currentThread = idlethread
    /\ suspendedUntil = [t \in All |-> 0]
    /\ priority = BasePriority
    /\ order = << >>
    /\ timeToTry = 0
    /\ eventAt = EventPeriod
    /\ trigger = updateTriggerToNextTimingEvent(timeToTry, eventAt)
    /\ preSelected = NotPreSelected
    /\ yieldSchedulingLock = FALSE
    /\ chosen = NoSelection
    /\ pc = [t \in All |-> "run"]
    /\ after = [t \in All |-> "run"]
    /\ inScope = [t \in All |-> FALSE]
    /\ wakeAt = [t \in All |-> 0]
    /\ sel = [t \in All |-> NoSelection]
    /\ pos = [t \in All |-> 0]
    /\ undisturbed = [t \in All |-> FALSE]
    /\ reactivation = 0
    /\ broken = {}
    /\ overdue = [t \in All |-> 0] /\ turn = [t \in All |-> 0]

at(t, l) == mode = "thread" /\ currentThread = t /\ pc[t] = l
goto(t, l) == pc' = [pc EXCEPT ![t] = l]

-----------------------------------------------------------------------------
(* Thread::yield: thread_on_hw.cpp:87, called from the thread's own code   *)
(* (the idle thread does nothing else) or from suspendCallerUntil.         *)
yield(t) ==
    /\ at(t, "run") \/ at(t, "suspended")
    /\ timeToTry' = 0
    /\ after' = [after EXCEPT ![t] =
                    IF t = idlethread THEN "idle" ELSE IF pc[t] = "run" THEN "run" ELSE "woken"]
    /\ goto(t, "start")
    /\ UNCHANGED <<now, trigger, eventAt, threadVars, wakeAt, sel, pos, undisturbed, reactivation,
                   schedVars, histVars>>

YieldStart(t) ==
    /\ at(t, "start")
    /\ undisturbed' = [undisturbed EXCEPT ![t] = TRUE]
    /\ sel' = [sel EXCEPT ![t] = NoSelection]
    /\ pos' = [pos EXCEPT ![t] = 1]
    /\ goto(t, "scan")
    /\ UNCHANGED <<now, timerVars, threadVars, after, wakeAt, reactivation, schedVars, histVars>>

findNextToRun(t) ==
    /\ at(t, "scan")
    /\ pos[t] <= Len(threadList)
    /\ sel' = [sel EXCEPT ![t] = Consider(sel[t], threadList[pos[t]])]
    /\ pos' = [pos EXCEPT ![t] = pos[t] + 1]
    /\ UNCHANGED <<now, timerVars, threadVars, after, wakeAt, undisturbed, reactivation, schedVars,
                   pc, histVars>>

YieldReturnsIfIdle(t) == ~undisturbed[t] \/ sel[t].next \in {t, idlethread}

(* The scheduler was called meanwhile, or would choose this thread again.  *)
YieldReturns(t) == ~undisturbed[t] \/ sel[t].next = t

(* The locals of yield end with it.                                        *)
EndLocals(t) ==
    /\ after' = [after EXCEPT ![t] = "run"]
    /\ sel' = [sel EXCEPT ![t] = NoSelection]
    /\ pos' = [pos EXCEPT ![t] = 0]
    /\ undisturbed' = [undisturbed EXCEPT ![t] = FALSE]

YieldCheck(t) ==
    /\ at(t, "scan")
    /\ pos[t] > Len(threadList)
    /\ IF YieldReturns(t) THEN goto(t, after[t]) /\ EndLocals(t)
                          ELSE goto(t, "lock") /\ UNCHANGED <<after, sel, pos, undisturbed>>
    /\ UNCHANGED <<now, timerVars, threadVars, wakeAt, reactivation, schedVars, histVars>>

YieldLock(t) ==
    /\ at(t, "lock")
    /\ yieldSchedulingLock' = TRUE
    /\ goto(t, "call")
    /\ UNCHANGED <<now, timerVars, threadVars, yieldVars, mode, currentThread, preSelected, chosen,
                   histVars>>

(* Timer::stop, the preselection and the call of the scheduler; the thread *)
(* continues after yield when it is activated again.                       *)
YieldCall(t) ==
    /\ at(t, "call")
    /\ trigger' = EndOfTime
    /\ preSelected' = IF undisturbed[t] THEN sel[t] ELSE preSelected
    /\ mode' = "wrapper"
    /\ goto(t, after[t]) /\ EndLocals(t)
    /\ UNCHANGED <<now, timeToTry, eventAt, threadVars, wakeAt, reactivation, currentThread,
                   yieldSchedulingLock, chosen, histVars>>

-----------------------------------------------------------------------------
(* Thread::suspendCallerUntil: thread_on_hw.cpp:185.  Its stores are made  *)
(* at ceiling priority.                                                    *)
suspendCallerUntil(t, until) ==
    /\ at(t, "run") /\ t # idlethread
    /\ wakeAt' = [wakeAt EXCEPT ![t] = until]
    /\ priority' = [priority EXCEPT ![t] = Ceiling]
    /\ goto(t, "suspend")
    /\ UNCHANGED <<now, timerVars, suspendedUntil, order, inScope, broken, after, sel, pos, undisturbed,
                   reactivation, schedVars, histVars>>

SuspendStore(t) ==
    /\ at(t, "suspend")
    /\ suspendedUntil' = [suspendedUntil EXCEPT ![t] = wakeAt[t]]
    /\ wakeAt' = [wakeAt EXCEPT ![t] = 0]
    /\ goto(t, "stored")
    /\ UNCHANGED <<now, timerVars, priority, order, inScope, broken, after, sel, pos, undisturbed,
                   reactivation, schedVars, histVars>>

SuspendUnceil(t) ==
    /\ at(t, "stored")
    /\ priority' = [priority EXCEPT ![t] = IF inScope[t] THEN Ceiling ELSE BasePriority[t]]
    /\ goto(t, "suspended")
    /\ UNCHANGED <<now, timerVars, suspendedUntil, order, inScope, broken, yieldVars, schedVars, histVars>>

SuspendReturn(t) ==
    /\ at(t, "woken")
    /\ goto(t, "run")
    /\ UNCHANGED <<now, timerVars, threadVars, yieldVars, schedVars, histVars>>

(* PRIORITY_CEILER_IN_SCOPE: thread.h:391.                                 *)
EnterScope(t) ==
    /\ at(t, "run") /\ t \in Scoped /\ ~inScope[t]
    /\ inScope' = [inScope EXCEPT ![t] = TRUE]
    /\ priority' = [priority EXCEPT ![t] = Ceiling]
    /\ UNCHANGED <<now, timerVars, suspendedUntil, order, broken, yieldVars, schedVars, pc, histVars>>

LeaveScope(t) ==
    /\ at(t, "run") /\ inScope[t]
    /\ inScope' = [inScope EXCEPT ![t] = FALSE]
    /\ priority' = [priority EXCEPT ![t] = BasePriority[t]]
    /\ UNCHANGED <<now, timerVars, suspendedUntil, order, broken, yieldVars, schedVars, pc, histVars>>

StackOverflow(t) ==
    /\ at(t, "run") /\ t \in MayOverflow
    /\ broken' = broken \cup {t}
    /\ UNCHANGED <<now, timerVars, suspendedUntil, priority, order, inScope, yieldVars, schedVars, pc,
                   histVars>>

(* Thread::resume, from an interrupt, a time event or the running thread.  *)
(* An interrupt ends the sleep of the idle thread.                         *)
resume(t) ==
    /\ t \in Resumable
    /\ timeToTry' = 0
    /\ suspendedUntil' = [suspendedUntil EXCEPT ![t] = 0]
    /\ pc' = IF pc[idlethread] = "sleep" THEN [pc EXCEPT ![idlethread] = "awake"] ELSE pc
    /\ UNCHANGED <<now, trigger, eventAt, priority, order, inScope, broken, yieldVars, schedVars, histVars>>

-----------------------------------------------------------------------------
(* IdleThread::run: thread_on_hw.cpp:266, after its yield returned.        *)
IdleRead ==
    /\ at(idlethread, "idle")
    /\ reactivation' = earlier(timeToTry, eventAt)
    /\ goto(idlethread, "arm")
    /\ UNCHANGED <<now, timerVars, threadVars, after, wakeAt, sel, pos, undisturbed, schedVars, histVars>>

IdleArm ==
    /\ at(idlethread, "arm")
    /\ LET timerInterval == reactivation - now - Wakeup - Spacing
       IN  IF timerInterval > Wakeup /\ timerInterval > Spacing
           THEN trigger' = setInterval(timerInterval) /\ goto(idlethread, "armed") /\ UNCHANGED reactivation
           ELSE goto(idlethread, "run") /\ reactivation' = 0 /\ UNCHANGED trigger
    /\ UNCHANGED <<now, timeToTry, eventAt, threadVars, after, wakeAt, sel, pos, undisturbed, schedVars, histVars>>

enterSleepMode ==
    /\ at(idlethread, "armed")
    /\ goto(idlethread, "sleep")
    /\ UNCHANGED <<now, timerVars, threadVars, yieldVars, schedVars, histVars>>

(* __WFI: any interrupt ends the sleep, also one no thread waits for.      *)
Interrupt ==
    /\ at(idlethread, "sleep")
    /\ goto(idlethread, "awake")
    /\ UNCHANGED <<now, timerVars, threadVars, yieldVars, schedVars, histVars>>

IdleAwake ==
    /\ at(idlethread, "awake")
    /\ trigger' = setInterval(later(reactivation - now, Spacing))
    /\ reactivation' = 0
    /\ goto(idlethread, "run")
    /\ UNCHANGED <<now, timeToTry, eventAt, threadVars, after, wakeAt, sel, pos, undisturbed, schedVars, histVars>>

-----------------------------------------------------------------------------
(* The SysTick handler calls the scheduler unless yield is about to.       *)
SysTick ==
    /\ mode = "thread" /\ trigger <= now /\ ~yieldSchedulingLock
    /\ mode' = "wrapper"
    /\ pc' = IF pc[idlethread] = "sleep" THEN [pc EXCEPT ![idlethread] = "awake"] ELSE pc
    /\ UNCHANGED <<now, timerVars, threadVars, yieldVars, currentThread, preSelected,
                   yieldSchedulingLock, chosen, histVars>>

(* TimeEvent::propagate for the one time event.                            *)
propagate == eventAt' = IF eventAt < now THEN computeNextBeat(eventAt, EventPeriod, now) ELSE eventAt

(* schedulerWrapper, scheduler.cpp:43: SysTick was due for the time event  *)
(* only.                                                                   *)
WrapperReturn ==
    /\ mode = "wrapper" /\ now < timeToTry
    /\ propagate
    /\ trigger' = updateTriggerToNextTimingEvent(timeToTry, eventAt')
    /\ yieldSchedulingLock' = FALSE
    /\ mode' = "thread"
    /\ UNCHANGED <<now, timeToTry, threadVars, yieldVars, currentThread, preSelected, chosen, pc, histVars>>

(* Scheduler::schedule, scheduler.cpp:95, up to the choice of the thread.  *)
(* What a yield that it disturbs has selected is never used                *)
(* (thread_on_hw.cpp:100 and 137): its scan ends here.                     *)
SelectLeaving(preselection) ==
    LET s == IF preSelected.next = None THEN findNextToRunFromISR ELSE preSelected
        overflown == s.next \in broken
        next == IF overflown THEN idlethread ELSE s.next
    IN
    /\ mode = "wrapper" /\ now >= timeToTry
    /\ propagate
    /\ undisturbed' = [t \in All |-> FALSE]
    /\ sel' = [t \in All |-> NoSelection]
    /\ pos' = [t \in All |-> IF pos[t] = 0 THEN 0 ELSE Len(threadList) + 1]
    /\ preSelected' = preselection
    /\ suspendedUntil' = IF overflown THEN [suspendedUntil EXCEPT ![s.next] = EndOfTime] ELSE suspendedUntil
    /\ chosen' = [s EXCEPT !.next = next]
    /\ order' = Activated(next)
    /\ mode' = "activate"
    /\ UNCHANGED <<now, timeToTry, trigger, priority, inScope, broken, after, wakeAt, reactivation,
                   currentThread, yieldSchedulingLock, pc, histVars>>

SelectAgain == SelectLeaving(preSelected)

Select == SelectLeaving(NotPreSelected)

(* The rest of schedule, and Thread::activate.                             *)
activateWith(nextSchedulingEventTime, lock) ==
    /\ mode = "activate"
    /\ timeToTry' = nextSchedulingEventTime
    /\ trigger' = updateTriggerToNextTimingEvent(timeToTry', eventAt)
    /\ currentThread' = chosen.next
    /\ yieldSchedulingLock' = lock
    /\ chosen' = NoSelection
    /\ mode' = "thread"
    /\ overdue' = [t \in All |-> IF priority[t] > priority[chosen.next] THEN overdue[t] ELSE 0]
    /\ turn' = [turn EXCEPT ![chosen.next] = 0]
    /\ UNCHANGED <<now, eventAt, threadVars, yieldVars, preSelected, pc>>

activateLocked == activateWith(earlier(chosen.earliest, TimeSlice + now), yieldSchedulingLock)
activateForLong == activateWith(chosen.earliest, FALSE)

activate == activateWith(earlier(chosen.earliest, TimeSlice + now), FALSE)

-----------------------------------------------------------------------------
Ready(t) == suspendedUntil[t] < now /\ t \notin broken

(* Time passes; an interrupt that is due strikes first.  A pass of the     *)
(* idle loop is shorter than a unit of time, so that the idle thread looks *)
(* for ready threads before time goes on, unless it sleeps.                *)
Tick ==
    /\ mode = "thread"
    /\ \/ pc[currentThread] = "run" /\ (currentThread = idlethread => \A t \in Threads : ~Ready(t))
       \/ pc[currentThread] = "sleep"
    /\ now < trigger /\ now < MaxTime
    /\ now' = now + 1
    /\ overdue' = [t \in All |->
          IF Ready(t) /\ t # currentThread /\ priority[t] > BasePriority[currentThread]
          THEN overdue[t] + 1 ELSE 0]
    /\ turn' = [t \in All |->
          IF ~Ready(t) \/ t = currentThread THEN 0
          ELSE IF priority[t] >= priority[currentThread] THEN turn[t] + 1 ELSE turn[t]]
    /\ UNCHANGED <<timerVars, threadVars, yieldVars, schedVars, pc>>

ThreadStep(t) ==
    \/ yield(t) \/ YieldStart(t) \/ findNextToRun(t) \/ YieldCheck(t) \/ YieldLock(t) \/ YieldCall(t)
    \/ \E d \in Delays : suspendCallerUntil(t, IF now + d > MaxTime THEN EndOfTime ELSE now + d)
    \/ SuspendStore(t) \/ SuspendUnceil(t) \/ SuspendReturn(t)
    \/ EnterScope(t) \/ LeaveScope(t) \/ StackOverflow(t)

IdleStep == IdleRead \/ IdleArm \/ enterSleepMode \/ Interrupt \/ IdleAwake

Next ==
    \/ \E t \in All : ThreadStep(t)
    \/ IdleStep
    \/ \E t \in Threads : resume(t)
    \/ SysTick \/ WrapperReturn \/ Select \/ activate
    \/ Tick

Spec == Init /\ [][Next]_vars

-----------------------------------------------------------------------------
(* A thread never comes back from suspendCallerUntil before it was resumed *)
(* or its time was reached ("True if the thread is resumed, false if the   *)
(* reactivation time is reached", thread.h:173), although yield returns    *)
(* without calling the scheduler in two cases.                             *)
NoEarlyReturn ==
    \A t \in Threads :
        at(t, "woken") => suspendedUntil[t] = 0 \/ suspendedUntil[t] < now

(* The scheduler only ever activates a thread that may run, also when it   *)
(* takes over what a yield selected some steps before (scheduler.cpp:103)  *)
(* and when the thread overflowed its stack (scheduler.cpp:115).           *)
SelectedMayRun ==
    mode = "activate" =>
        chosen.next = idlethread \/ (suspendedUntil[chosen.next] < now /\ chosen.next \notin broken)

(* yieldSchedulingLock, which keeps SysTick out, is never left set in a    *)
(* thread that goes on with its own code (thread_on_hw.cpp:147).           *)
LockReleased ==
    (mode = "thread" /\ yieldSchedulingLock) => pc[currentThread] = "call"

(* "deadlines may be overrun by maximally: 2 * MIN_SYS_TICK_SPACING"       *)
(* (hw_specific_generic.cpp:19): a thread whose time has come waits no     *)
(* longer than that for one of lower priority.                             *)
WakeUpOnTime == \A t \in Threads : overdue[t] <= 2 * Spacing

(* resume does not make SysTick strike earlier (thread_on_hw.cpp:174), and *)
(* the scheduler passes over everybody while the running thread is inside  *)
(* a ceiling scope; but it comes back after a time slice                   *)
(* (scheduler.cpp:131).  A less urgent thread keeps a ready one waiting    *)
(* for no longer than that, counted from when it became ready or from the  *)
(* last call of the scheduler that found the other one inside a scope: a   *)
(* scope costs a slice if SysTick strikes in it, and nothing otherwise.    *)
WakeUpWithinSlice == \A t \in Threads : overdue[t] <= TimeSlice + 2 * Spacing

(* Threads of the same priority take turns: a thread that is ready waits   *)
(* for at most one slice of each of the others (thread_on_hw.cpp:336).     *)
TakeTurns ==
    \A t \in Threads :
        LET peers == {u \in Threads \ {t} : BasePriority[u] = BasePriority[t]}
        IN  peers # {} => turn[t] <= Cardinality(peers) * (TimeSlice + 2 * Spacing)
=============================================================================
