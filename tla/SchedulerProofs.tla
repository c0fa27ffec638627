--------------------------- MODULE SchedulerProofs ---------------------------
(***************************************************************************)
(* The scheduler only activates threads that may run, suspendCallerUntil   *)
(* never returns early, and yield's lock is always released: for any list  *)
(* of threads, any priorities, any times, and wherever SysTick and resume  *)
(* come in between.                                                        *)
(***************************************************************************)
EXTENDS Scheduler, TLAPS

USE SMTT(30)

Selections == [next : All, earliest : Nat]

Yielding == {"scan", "lock", "call"}

Places == Yielding \cup {"run", "start", "suspend", "stored", "suspended", "woken", "idle", "arm",
                         "armed", "sleep", "awake"}

(* Where a thread goes on after yield.                                     *)
Continuations == {"run", "idle", "woken"}

Types ==
    /\ now \in Nat /\ now > 0
    /\ mode \in {"thread", "wrapper", "activate"} /\ currentThread \in All
    /\ suspendedUntil \in [All -> Nat] /\ wakeAt \in [All -> Nat]
    /\ pc \in [All -> Places] /\ after \in [All -> Continuations]
    /\ pos \in [All -> Nat] /\ (\A t \in All : pc[t] = "scan" => pos[t] > 0)
    /\ undisturbed \in [All -> BOOLEAN]
    /\ sel \in [All -> Selections] /\ chosen \in Selections

(* The thread can run as far as its suspension is concerned.               *)
May(t) == t = idlethread \/ suspendedUntil[t] < now

(* A selection that a yield has begun is the current thread's, it names a  *)
(* thread that may run, and once the yield goes on to call the scheduler   *)
(* it names another thread.                                                *)
SelectionsMayRun ==
    \A t \in All :
        /\ May(sel[t].next)
        /\ sel[t] # NoSelection => mode # "activate" /\ t = currentThread /\ pc[t] \in Yielding
        /\ pc[t] \in {"lock", "call"} /\ undisturbed[t] => sel[t].next # t

(* So does the preselection, also when schedulerWrapper has returned early *)
(* and left it for a later call.                                           *)
PreSelectedMayRun ==
    preSelected.next # None =>
        /\ preSelected \in Selections /\ mode # "activate"
        /\ May(preSelected.next) /\ preSelected.next # currentThread

(* The thread returns from yield into suspendCallerUntil.                  *)
Returning(t) == pc[t] = "woken" \/ (pc[t] \in Yielding \cup {"start"} /\ after[t] = "woken")

(* A thread that returns from its suspension has asked for scheduling, and *)
(* the scheduler has not run since, or it may run; and it may run if the   *)
(* scheduler has disturbed its yield or yield has ended.                   *)
ReturnsInTime ==
    mode # "activate" =>
        /\ Returning(currentThread) => timeToTry = 0 \/ May(currentThread)
        /\ pc[currentThread] \in Yielding /\ ~undisturbed[currentThread] => May(currentThread)
        /\ mode = "thread" /\ pc[currentThread] = "woken" => May(currentThread)

IInv ==
    /\ Types /\ SelectionsMayRun /\ PreSelectedMayRun /\ ReturnsInTime
    /\ SelectedMayRun /\ LockReleased

(* What the scan of all threads selects, from an interrupt or from yield,  *)
(* may run; shown last (FindsMayRun), by induction over the list.          *)
ScanMayRun == findNextToRunFromISR \in Selections /\ May(findNextToRunFromISR.next)

-----------------------------------------------------------------------------
(* The constants.                                                          *)
LEMMA Constants ==
    /\ Len(threadList) \in Nat /\ \A i \in 1 .. Len(threadList) : threadList[i] \in Threads
    /\ idlethread \in All /\ idlethread \notin Threads /\ Threads \subseteq All /\ None \notin All
    /\ EndOfTime \in Nat /\ Delays \subseteq Nat /\ MaxTime \in Nat
    /\ NoSelection \in Selections /\ NoSelection.next = idlethread /\ NotPreSelected.next = None
BY SchedulerAssumption, EndOfTimeAssumption
   DEF All, NoSelection, NotPreSelected, Selections

(* One pass of the loop of findNextToRun (thread_on_hw.cpp:318) keeps or   *)
(* chooses a thread that may run.                                          *)
LEMMA ConsiderMayRun ==
    ASSUME Types, NEW s \in Selections, May(s.next), NEW t \in Threads
    PROVE  Consider(s, t) \in Selections /\ May(Consider(s, t).next)
<1>1. t \in All BY Constants, Zenon
<1>2. suspendedUntil[t] \in Nat BY <1>1, Zenon DEF Types
<1>3. s.next \in All /\ s.earliest \in Nat BY Zenon DEF Selections
<1>4. earlier(s.earliest, suspendedUntil[t]) \in Nat BY <1>2, <1>3, Zenon DEF earlier
<1>5. [s EXCEPT !.earliest = earlier(s.earliest, suspendedUntil[t])] \in Selections
    BY <1>4, Zenon DEF Selections
<1>6. [s EXCEPT !.earliest = earlier(s.earliest, suspendedUntil[t])].next = s.next
    BY Zenon DEF Selections
<1>7. [s EXCEPT !.next = t] \in Selections /\ [s EXCEPT !.next = t].next = t
    BY <1>1, Zenon DEF Selections
<1> QED BY <1>5, <1>6, <1>7, Zenon DEF Consider, May

-----------------------------------------------------------------------------
(* The system starts in the idle thread, with nothing selected.            *)
LEMMA Starts == Init => IInv
<1> SUFFICES ASSUME Init PROVE IInv OBVIOUS
<1> USE Constants
<1>1. Types
    <2>1. Len(threadList) \in Nat /\ currentThread = idlethread BY Zenon DEF Init
    <2> QED BY DEF Init, Types, Continuations, Places
<1>2. SelectionsMayRun BY Zenon DEF Init, SelectionsMayRun, May
<1>3. PreSelectedMayRun BY Zenon DEF Init, PreSelectedMayRun
<1>4. ReturnsInTime BY Zenon DEF Init, ReturnsInTime, May
<1>5. SelectedMayRun /\ LockReleased BY Zenon DEF Init, SelectedMayRun, LockReleased
<1> QED BY <1>1, <1>2, <1>3, <1>4, <1>5, Zenon DEF IInv

(* The places of the model.                                                *)
LEMMA PlaceNames ==
    /\ {"run", "start", "lock", "call", "suspend", "stored", "suspended"} \subseteq Places \ {"scan"}
    /\ {"woken", "idle", "arm", "armed", "sleep", "awake"} \subseteq Places \ {"scan"}
    /\ "scan" \in Places
BY Zenon DEF Places, Yielding

(* A step of one thread that leaves the selections alone.                  *)
Moves(t, l) ==
    /\ pc' = [pc EXCEPT ![t] = l]
    /\ UNCHANGED <<now, mode, currentThread, chosen, sel, pos, undisturbed>>

(* Such a step keeps the types.                                            *)
LEMMA MovesTyped ==
    ASSUME Types, NEW t \in All, NEW l \in Places \ {"scan"}, Moves(t, l),
           after' \in [All -> Continuations], wakeAt' \in [All -> Nat], suspendedUntil' \in [All -> Nat]
    PROVE  Types'
<1>1. /\ pc' = [pc EXCEPT ![t] = l] /\ pos' = pos /\ pc \in [All -> Places]
      /\ \A u \in All : pc[u] = "scan" => pos[u] > 0
    BY Zenon DEF Moves, Types
<1>2. pc' \in [All -> Places] /\ \A u \in All : pc'[u] = "scan" => pos'[u] > 0 BY <1>1, Zenon
<1> QED BY <1>2, Zenon DEF Types, Moves

(* Every step of a thread outside the scheduler keeps the types.           *)
LEMMA ThreadTyped ==
    ASSUME Types, SelectionsMayRun, NEW t \in All, ThreadStep(t)
    PROVE  Types'
<1>1. /\ pc \in [All -> Places] /\ after \in [All -> Continuations] /\ wakeAt \in [All -> Nat]
      /\ suspendedUntil \in [All -> Nat]
      /\ pos \in [All -> Nat] /\ undisturbed \in [All -> BOOLEAN] /\ sel \in [All -> Selections]
      /\ \A u \in All : pc[u] = "scan" => pos[u] > 0
    BY Zenon DEF Types
<1>2. CASE yield(t)
    <2>1. Moves(t, "start") /\ wakeAt' = wakeAt /\ suspendedUntil' = suspendedUntil
        BY <1>2, Zenon DEF yield, goto, threadVars, schedVars, Moves
    <2>2. after' \in [All -> Continuations]
        <3> DEFINE l == IF t = idlethread THEN "idle" ELSE IF pc[t] = "run" THEN "run" ELSE "woken"
        <3>1. after' = [after EXCEPT ![t] = l] BY <1>2, Zenon DEF yield
        <3>2. l \in Continuations BY Zenon DEF Continuations
        <3> HIDE DEF l
        <3> QED BY <1>1, <3>1, <3>2, Zenon
    <2> QED BY <1>1, <2>1, <2>2, PlaceNames, MovesTyped, Zenon
<1>3. CASE YieldLock(t)
    <2>1. Moves(t, "call") /\ UNCHANGED <<wakeAt, after, suspendedUntil>>
        BY <1>3, Zenon DEF YieldLock, goto, threadVars, yieldVars, Moves
    <2> QED BY <1>1, <2>1, PlaceNames, MovesTyped, Zenon
<1>4. ASSUME NEW d \in Delays, suspendCallerUntil(t, IF now + d > MaxTime THEN EndOfTime ELSE now + d)
      PROVE  Types'
    <2>1. (IF now + d > MaxTime THEN EndOfTime ELSE now + d) \in Nat BY Constants DEF Types
    <2>2. Moves(t, "suspend") /\ UNCHANGED <<after, suspendedUntil>> /\ wakeAt' \in [All -> Nat]
        BY <1>1, <1>4, <2>1, Zenon DEF suspendCallerUntil, goto, schedVars, Moves
    <2> QED BY <1>1, <2>2, PlaceNames, MovesTyped, Zenon
<1>5. CASE SuspendStore(t)
    <2>1. Moves(t, "stored") /\ wakeAt' = [wakeAt EXCEPT ![t] = 0] /\ after' = after
          /\ suspendedUntil' = [suspendedUntil EXCEPT ![t] = wakeAt[t]]
        BY <1>5, Zenon DEF SuspendStore, goto, schedVars, Moves
    <2>2. wakeAt' \in [All -> Nat] /\ suspendedUntil' \in [All -> Nat] BY <1>1, <2>1, Zenon
    <2> QED BY <1>1, <2>1, <2>2, PlaceNames, MovesTyped, Zenon
<1>6. CASE SuspendUnceil(t) \/ SuspendReturn(t)
    <2>1. (Moves(t, "suspended") \/ Moves(t, "run")) /\ UNCHANGED <<wakeAt, after, suspendedUntil>>
        BY <1>6, Zenon DEF SuspendUnceil, SuspendReturn, goto, schedVars, yieldVars, threadVars, Moves
    <2> QED BY <1>1, <2>1, PlaceNames, MovesTyped, Zenon
<1>7. CASE EnterScope(t) \/ LeaveScope(t) \/ StackOverflow(t)
    <2>1. pc' = pc /\ pc[t] = "run" BY <1>7, Zenon DEF EnterScope, LeaveScope, StackOverflow, at
    <2>2. pc' = [pc EXCEPT ![t] = "run"] BY <1>1, <2>1, Zenon
    <2>3. Moves(t, "run") /\ UNCHANGED <<wakeAt, after, suspendedUntil>>
        BY <1>7, <2>2, Zenon DEF EnterScope, LeaveScope, StackOverflow, schedVars, yieldVars, Moves
    <2> QED BY <1>1, <2>3, PlaceNames, MovesTyped, Zenon
<1>8. CASE YieldStart(t)
    <2>1. /\ undisturbed' = [undisturbed EXCEPT ![t] = TRUE] /\ sel' = [sel EXCEPT ![t] = NoSelection]
          /\ pos' = [pos EXCEPT ![t] = 1] /\ pc' = [pc EXCEPT ![t] = "scan"]
          /\ UNCHANGED <<wakeAt, after, suspendedUntil, now, mode, currentThread, chosen>>
        BY <1>8, Zenon DEF YieldStart, goto, schedVars, threadVars
    <2>2. pc' \in [All -> Places] /\ \A u \in All : pc'[u] = "scan" => pos'[u] > 0
        BY <1>1, <2>1, PlaceNames
    <2>3. undisturbed' \in [All -> BOOLEAN] /\ sel' \in [All -> Selections] /\ pos' \in [All -> Nat]
        BY <1>1, <2>1, Constants, Zenon
    <2> QED BY <2>1, <2>2, <2>3, Zenon DEF Types
<1>9. CASE findNextToRun(t)
    <2>1. /\ sel' = [sel EXCEPT ![t] = Consider(sel[t], threadList[pos[t]])]
          /\ pos' = [pos EXCEPT ![t] = pos[t] + 1] /\ pc[t] = "scan" /\ pos[t] <= Len(threadList)
          /\ UNCHANGED <<pc, wakeAt, after, suspendedUntil, now, mode, currentThread, chosen, undisturbed>>
        BY <1>9, Zenon DEF findNextToRun, at, schedVars, threadVars
    <2>2. threadList[pos[t]] \in Threads BY <1>1, <2>1, Constants
    <2>3. Consider(sel[t], threadList[pos[t]]) \in Selections
        <3>1. sel[t] \in Selections /\ May(sel[t].next) BY <1>1, Zenon DEF SelectionsMayRun
        <3> QED BY <2>2, <3>1, ConsiderMayRun, Zenon
    <2>4. sel' \in [All -> Selections] BY <1>1, <2>1, <2>3, Zenon
    <2>5. pos' \in [All -> Nat] /\ \A u \in All : pc'[u] = "scan" => pos'[u] > 0 BY <1>1, <2>1
    <2> QED BY <2>1, <2>4, <2>5, Zenon DEF Types
<1>10. ASSUME EndLocals(t), goto(t, after[t]), mode' \in {"thread", "wrapper"},
              UNCHANGED <<wakeAt, suspendedUntil, now, currentThread, chosen>>
       PROVE  Types'
    <2>1. after[t] \in Places \ {"scan"} BY <1>1, PlaceNames, Zenon DEF Continuations
    <2>2. /\ after' = [after EXCEPT ![t] = "run"] /\ sel' = [sel EXCEPT ![t] = NoSelection]
          /\ pos' = [pos EXCEPT ![t] = 0] /\ undisturbed' = [undisturbed EXCEPT ![t] = FALSE]
          /\ pc' = [pc EXCEPT ![t] = after[t]]
        BY <1>10, Zenon DEF EndLocals, goto
    <2>3. pc' \in [All -> Places] /\ \A u \in All : pc'[u] = "scan" => pos'[u] > 0
        BY <1>1, <2>1, <2>2, Zenon
    <2>4. /\ undisturbed' \in [All -> BOOLEAN] /\ sel' \in [All -> Selections] /\ pos' \in [All -> Nat]
          /\ after' \in [All -> Continuations]
        BY <1>1, <2>2, Constants, Zenon DEF Continuations
    <2> QED BY <1>10, <2>3, <2>4, Zenon DEF Types
<1>11. CASE YieldCheck(t)
    <2>1. UNCHANGED <<wakeAt, suspendedUntil, now, mode, currentThread, chosen>> /\ mode = "thread"
        BY <1>11, Zenon DEF YieldCheck, at, threadVars, schedVars
    <2>2. CASE YieldReturns(t)
        <3>1. EndLocals(t) /\ goto(t, after[t]) BY <1>11, <2>2, Zenon DEF YieldCheck
        <3> QED BY <1>10, <2>1, <3>1, Zenon
    <2>3. CASE ~YieldReturns(t)
        <3>1. Moves(t, "lock") /\ after' = after BY <1>11, <2>1, <2>3, Zenon DEF YieldCheck, goto, Moves
        <3> QED BY <1>1, <2>1, <3>1, PlaceNames, MovesTyped, Zenon
    <2> QED BY <2>2, <2>3, Zenon
<1>12. CASE YieldCall(t)
    <2>1. UNCHANGED <<wakeAt, suspendedUntil, now, currentThread, chosen>> /\ mode' = "wrapper"
          /\ EndLocals(t) /\ goto(t, after[t])
        BY <1>12, Zenon DEF YieldCall, threadVars
    <2> QED BY <1>10, <2>1, Zenon
<1> QED BY <1>2, <1>3, <1>4, <1>5, <1>6, <1>7, <1>8, <1>9, <1>11, <1>12, ZenonT(30) DEF ThreadStep

(* Every step keeps the types.                                             *)
LEMMA TypesKept ==
    ASSUME Types, SelectionsMayRun, PreSelectedMayRun, ScanMayRun, [Next]_vars
    PROVE  Types'
<1>1. /\ pc \in [All -> Places] /\ pos \in [All -> Nat] /\ suspendedUntil \in [All -> Nat]
      /\ wakeAt \in [All -> Nat] /\ after \in [All -> Continuations]
      /\ \A u \in All : pc[u] = "scan" => pos[u] > 0
    BY Zenon DEF Types
<1>2. CASE IdleStep
    <2>1. \E l \in {"arm", "armed", "run", "sleep", "awake"} : Moves(idlethread, l)
        BY <1>2, Zenon DEF IdleStep, IdleRead, IdleArm, enterSleepMode, Interrupt, IdleAwake, goto, schedVars,
                    yieldVars, Moves
    <2>2. UNCHANGED <<suspendedUntil, wakeAt, after>>
        BY <1>2, Zenon DEF IdleStep, IdleRead, IdleArm, enterSleepMode, Interrupt, IdleAwake, threadVars, yieldVars
    <2>3. PICK l \in {"arm", "armed", "run", "sleep", "awake"} : Moves(idlethread, l) BY <2>1, Zenon
    <2>4. l \in Places \ {"scan"} BY PlaceNames, Zenon
    <2>5. suspendedUntil' \in [All -> Nat] /\ wakeAt' \in [All -> Nat] /\ after' \in [All -> Continuations]
        BY <1>1, <2>2, Zenon
    <2>6. idlethread \in All BY Constants, Zenon
    <2> QED BY <2>3, <2>4, <2>5, <2>6, MovesTyped, ZenonT(30)
<1>3. ASSUME pc' = IF pc[idlethread] = "sleep" THEN [pc EXCEPT ![idlethread] = "awake"] ELSE pc, pos' = pos
      PROVE  pc' \in [All -> Places] /\ \A u \in All : pc'[u] = "scan" => pos'[u] > 0
    BY <1>1, <1>3, Constants, PlaceNames, Zenon
<1>4. ASSUME NEW t \in Threads, resume(t) PROVE Types'
    <2>1. /\ suspendedUntil' = [suspendedUntil EXCEPT ![t] = 0]
          /\ pc' = IF pc[idlethread] = "sleep" THEN [pc EXCEPT ![idlethread] = "awake"] ELSE pc
          /\ UNCHANGED <<now, mode, currentThread, wakeAt, after, pos, undisturbed, sel, chosen>>
        BY <1>4, Zenon DEF resume, yieldVars, schedVars
    <2>2. suspendedUntil' \in [All -> Nat] BY <1>1, <2>1, Constants, Zenon
    <2>3. pc' \in [All -> Places] /\ \A u \in All : pc'[u] = "scan" => pos'[u] > 0 BY <1>3, <2>1, Zenon
    <2> QED BY <2>1, <2>2, <2>3, Zenon DEF Types
<1>5. CASE SysTick
    <2>1. /\ mode' = "wrapper"
          /\ pc' = IF pc[idlethread] = "sleep" THEN [pc EXCEPT ![idlethread] = "awake"] ELSE pc
          /\ UNCHANGED <<now, currentThread, suspendedUntil, wakeAt, after, pos, undisturbed, sel, chosen>>
        BY <1>5, Zenon DEF SysTick, yieldVars, threadVars
    <2>2. pc' \in [All -> Places] /\ \A u \in All : pc'[u] = "scan" => pos'[u] > 0 BY <1>3, <2>1, Zenon
    <2> QED BY <2>1, <2>2, Zenon DEF Types
<1>6. CASE WrapperReturn \/ Tick \/ UNCHANGED vars
    <2>1. /\ UNCHANGED <<pc, currentThread, suspendedUntil, wakeAt, after, pos, undisturbed, sel, chosen>>
          /\ (mode' = mode \/ mode' = "thread") /\ (now' = now \/ now' = now + 1)
        BY <1>6, Zenon DEF WrapperReturn, Tick, vars, yieldVars, threadVars, schedVars
    <2> QED BY <2>1 DEF Types
<1>7. CASE Select
    <2> DEFINE s == IF preSelected.next = None THEN findNextToRunFromISR ELSE preSelected
               next == IF s.next \in broken THEN idlethread ELSE s.next
    <2>1. s \in Selections BY Zenon DEF PreSelectedMayRun, ScanMayRun
    <2>2. s.next \in All /\ next \in All BY <2>1, Constants, Zenon DEF Selections
    <2>3. /\ chosen' = [s EXCEPT !.next = next] /\ mode' = "activate"
          /\ suspendedUntil' = IF s.next \in broken THEN [suspendedUntil EXCEPT ![s.next] = EndOfTime] ELSE suspendedUntil
          /\ undisturbed' = [t \in All |-> FALSE] /\ sel' = [t \in All |-> NoSelection]
          /\ pos' = [t \in All |-> IF pos[t] = 0 THEN 0 ELSE Len(threadList) + 1]
          /\ UNCHANGED <<now, currentThread, pc, wakeAt, after>>
        BY <1>7, Zenon DEF Select, SelectLeaving
    <2> HIDE DEF s, next
    <2>4. chosen' \in Selections BY <2>1, <2>2, <2>3, Zenon DEF Selections
    <2>5. suspendedUntil' \in [All -> Nat] BY <1>1, <2>2, <2>3, Constants, Zenon
    <2>6. undisturbed' \in [All -> BOOLEAN] /\ sel' \in [All -> Selections] BY <2>3, Constants, Zenon
    <2>7. pos' \in [All -> Nat] /\ \A u \in All : pc'[u] = "scan" => pos'[u] > 0 BY <1>1, <2>3, Constants
    <2> QED BY <2>3, <2>4, <2>5, <2>6, <2>7, Zenon DEF Types
<1>8. CASE activate
    <2>1. /\ currentThread' = chosen.next /\ chosen' = NoSelection /\ mode' = "thread"
          /\ UNCHANGED <<pc, now, suspendedUntil, wakeAt, after, pos, undisturbed, sel>>
        BY <1>8, Zenon DEF activate, activateWith, threadVars, yieldVars
    <2>2. chosen.next \in All BY Zenon DEF Types, Selections
    <2>3. NoSelection \in Selections BY Constants, Zenon
    <2> QED BY <2>1, <2>2, <2>3, ZenonT(30) DEF Types
<1>9. ASSUME NEW t \in All, ThreadStep(t) PROVE Types' BY <1>9, ThreadTyped, Zenon
<1> QED BY <1>2, <1>4, <1>5, <1>6, <1>7, <1>8, <1>9, ZenonT(30) DEF Next

(* What a step of the running thread leaves alone, whatever the step is:   *)
(* the time, the suspensions, the choice and the preselection.             *)
Own(t) ==
    /\ mode = "thread" /\ currentThread = t
    /\ UNCHANGED <<now, mode, currentThread, suspendedUntil, chosen, preSelected>>

(* Outside the scheduler the preselection stays good, and there is no      *)
(* choice yet.                                                             *)
LEMMA OwnKeeps ==
    ASSUME IInv, NEW t \in All, Own(t)
    PROVE  PreSelectedMayRun' /\ SelectedMayRun'
<1>1. mode' = "thread" BY Zenon DEF Own
<1>2. SelectedMayRun' BY <1>1, ZenonT(30) DEF SelectedMayRun
<1>3. PreSelectedMayRun' BY Zenon DEF IInv, Own, PreSelectedMayRun, May
<1> QED BY <1>2, <1>3, Zenon

(* A step of a thread outside yield that changes no suspension, selection  *)
(* or time.                                                                *)
Quiet(t) ==
    /\ Own(t)
    /\ pc[t] \notin Yielding \cup {"start"}
    /\ \E l \in Places \ (Yielding \cup {"start", "woken"}) : pc' = [pc EXCEPT ![t] = l]
    /\ UNCHANGED <<timeToTry, sel, undisturbed, after, yieldSchedulingLock>>

(* A step that changes neither the selection nor a suspension keeps the    *)
(* invariant.                                                              *)
LEMMA QuietKeeps ==
    ASSUME IInv, Types', NEW t \in All, Quiet(t)
    PROVE  IInv'
<1>1. PreSelectedMayRun' /\ SelectedMayRun' BY OwnKeeps, Zenon DEF Quiet
<1>2. mode = "thread" /\ currentThread = t /\ mode' = mode /\ currentThread' = currentThread
      /\ now' = now /\ suspendedUntil' = suspendedUntil
    BY Zenon DEF Quiet, Own
<1>3. /\ pc[t] \notin {"scan", "lock", "call", "start"}
      /\ pc'[t] \notin {"scan", "lock", "call", "start", "woken"}
      /\ \A u \in All : u # t => pc'[u] = pc[u]
    <2>1. PICK l \in Places \ (Yielding \cup {"start", "woken"}) : pc' = [pc EXCEPT ![t] = l] BY ZenonT(30) DEF Quiet
    <2>2. pc \in [All -> Places] BY Zenon DEF IInv, Types
    <2>3. pc'[t] = l /\ \A u \in All : u # t => pc'[u] = pc[u] BY ONLY <2>1, <2>2, t \in All, Zenon
    <2> QED BY <2>3, Zenon DEF Quiet, Yielding
<1>4. sel' = sel /\ undisturbed' = undisturbed /\ yieldSchedulingLock' = yieldSchedulingLock
    BY Zenon DEF Quiet
<1>5. \A u \in All : May(u) => May(u)' BY <1>2, Zenon DEF May
<1>6. \A u \in All : sel[u].next \in All BY Zenon DEF IInv, Types, Selections
<1>7. SelectionsMayRun' BY <1>2, <1>3, <1>4, <1>5, <1>6, Zenon DEF IInv, SelectionsMayRun, May, Yielding
<1>8. ReturnsInTime' BY <1>2, <1>3, Zenon DEF ReturnsInTime, Returning, Yielding
<1>9. LockReleased' BY <1>2, <1>3, <1>4, Zenon DEF IInv, LockReleased
<1> QED BY <1>1, <1>7, <1>8, <1>9, Zenon DEF IInv

(* goto moves the one thread.                                              *)
LEMMA Goes ==
    ASSUME Types, NEW t \in All, NEW l, goto(t, l)
    PROVE  pc'[t] = l /\ \A u \in All : u # t => pc'[u] = pc[u]
<1>1. pc \in [All -> Places] /\ pc' = [pc EXCEPT ![t] = l] BY Zenon DEF Types, goto
<1> QED BY ONLY <1>1, t \in All, Zenon

(* The steps of yield outside the scheduler (thread_on_hw.cpp:87) keep the *)
(* invariant: a selection is only ever made from threads that may run, and *)
(* yield returns at once only if its caller may.                           *)
LEMMA YieldKeeps ==
    ASSUME IInv, Types', NEW t \in All,
           yield(t) \/ YieldStart(t) \/ findNextToRun(t) \/ YieldCheck(t) \/ YieldLock(t)
    PROVE  IInv'
<1>1. Own(t) BY Zenon DEF yield, YieldStart, findNextToRun, YieldCheck, YieldLock, at, Own, threadVars, schedVars
<1>2. PreSelectedMayRun' /\ SelectedMayRun' BY <1>1, OwnKeeps, Zenon
<1>3. mode = "thread" /\ currentThread = t /\ mode' = "thread" /\ currentThread' = t
      /\ now' = now /\ suspendedUntil' = suspendedUntil
    BY <1>1, Zenon DEF Own
<1>4. \A u \in All : May(u)' <=> May(u) BY <1>3, Zenon DEF May
<1>5. \A u \in All : sel[u] \in Selections /\ sel[u].next \in All /\ May(sel[u].next)
    BY Zenon DEF IInv, Types, Selections, SelectionsMayRun
<1>6. \A u \in All : u # t => sel[u] = NoSelection BY <1>3, ZenonT(30) DEF IInv, SelectionsMayRun
<1>7. \A u \in All : pc[u] \in {"lock", "call"} /\ undisturbed[u] => sel[u].next # u
    BY ZenonT(30) DEF IInv, SelectionsMayRun
<1>8. /\ Returning(t) => timeToTry = 0 \/ May(t)
      /\ pc[t] \in Yielding /\ ~undisturbed[t] => May(t)
    BY <1>3, Zenon DEF IInv, ReturnsInTime
<1>9. yieldSchedulingLock => pc[t] = "call" BY <1>3, Zenon DEF IInv, LockReleased
<1>10. sel \in [All -> Selections] /\ undisturbed \in [All -> BOOLEAN] BY Zenon DEF IInv, Types
<1>11. NoSelection.next = idlethread /\ idlethread \in All /\ May(idlethread)
    BY Constants, ZenonT(30) DEF May
<1>12. ASSUME NEW l, goto(t, l) PROVE pc'[t] = l /\ \A u \in All : u # t => pc'[u] = pc[u]
    BY <1>12, Goes, ZenonT(30) DEF IInv
<1>13. ASSUME SelectionsMayRun', ReturnsInTime', LockReleased' PROVE IInv'
    BY <1>2, <1>13, ZenonT(30) DEF IInv
<1>14. CASE yield(t)
    <2>1. /\ pc[t] \in {"run", "suspended"} /\ goto(t, "start") /\ timeToTry' = 0
          /\ sel' = sel /\ undisturbed' = undisturbed /\ yieldSchedulingLock' = yieldSchedulingLock
        BY <1>14, Zenon DEF yield, at, schedVars
    <2>2. pc'[t] = "start" /\ \A u \in All : u # t => pc'[u] = pc[u] BY <1>12, <2>1, ZenonT(30)
    <2>3. sel[t] = NoSelection BY <1>3, <2>1, ZenonT(30) DEF IInv, SelectionsMayRun, Yielding
    <2>4. SelectionsMayRun' BY <1>4, <1>5, <1>6, <1>7, <2>1, <2>2, <2>3, ZenonT(30) DEF SelectionsMayRun
    <2>5. ReturnsInTime' BY <1>3, <2>1, <2>2, ZenonT(30) DEF ReturnsInTime, Yielding
    <2>6. LockReleased' BY <1>9, <2>1, Zenon DEF LockReleased
    <2> QED BY <1>13, <2>4, <2>5, <2>6, Zenon
<1>15. CASE YieldStart(t)
    <2>1. /\ pc[t] = "start" /\ goto(t, "scan") /\ timeToTry' = timeToTry /\ after' = after
          /\ sel' = [sel EXCEPT ![t] = NoSelection] /\ undisturbed' = [undisturbed EXCEPT ![t] = TRUE]
          /\ yieldSchedulingLock' = yieldSchedulingLock
        BY <1>15, Zenon DEF YieldStart, at, schedVars, timerVars
    <2>2. pc'[t] = "scan" /\ \A u \in All : u # t => pc'[u] = pc[u] BY <1>12, <2>1, ZenonT(30)
    <2>3. \A u \in All : sel'[u] = NoSelection BY <1>6, <1>10, <2>1, Zenon
    <2>4. undisturbed'[t] /\ \A u \in All : u # t => undisturbed'[u] = undisturbed[u] BY <1>10, <2>1, Zenon
    <2>5. SelectionsMayRun' BY <1>4, <1>6, <1>7, <1>11, <2>2, <2>3, <2>4 DEF SelectionsMayRun
    <2>6. ReturnsInTime' BY <1>3, <1>4, <1>8, <2>1, <2>2, <2>4, ZenonT(30) DEF ReturnsInTime, Yielding, Returning
    <2>7. LockReleased' BY <1>9, <2>1, Zenon DEF LockReleased
    <2> QED BY <1>13, <2>5, <2>6, <2>7, Zenon
<1>16. CASE findNextToRun(t)
    <2> DEFINE s == Consider(sel[t], threadList[pos[t]])
    <2>1. /\ pc[t] = "scan" /\ pos[t] <= Len(threadList) /\ pc' = pc /\ timeToTry' = timeToTry /\ after' = after
          /\ sel' = [sel EXCEPT ![t] = s] /\ undisturbed' = undisturbed
          /\ yieldSchedulingLock' = yieldSchedulingLock
        BY <1>16, Zenon DEF findNextToRun, at, schedVars, timerVars
    <2>2. pos[t] \in 1 .. Len(threadList)
        <3>1. pos[t] \in Nat /\ pos[t] > 0 BY <2>1, ZenonT(30) DEF IInv, Types
        <3> QED BY <2>1, <3>1, Constants
    <2>3. May(s.next)
        <3>1. threadList[pos[t]] \in Threads BY <2>2, Constants, ZenonT(30)
        <3> QED BY <1>5, <3>1, ConsiderMayRun, ZenonT(30) DEF IInv
    <2>4. s \in Selections
        <3>1. threadList[pos[t]] \in Threads BY <2>2, Constants, ZenonT(30)
        <3> QED BY <1>5, <3>1, ConsiderMayRun, ZenonT(30) DEF IInv
    <2> HIDE DEF s
    <2>5. sel'[t] = s /\ \A u \in All : u # t => sel'[u] = sel[u] BY <1>10, <2>1, Zenon
    <2>6. s.next \in All BY <2>4, Zenon DEF Selections
    <2>7. SelectionsMayRun'
        BY <1>3, <1>4, <1>5, <1>6, <1>7, <2>1, <2>3, <2>5, <2>6 DEF SelectionsMayRun, Yielding
    <2>8. ReturnsInTime' BY <1>3, <1>4, <1>8, <2>1, Zenon DEF ReturnsInTime, Returning
    <2>9. LockReleased' BY <1>9, <2>1, Zenon DEF LockReleased
    <2> QED BY <1>13, <2>7, <2>8, <2>9, Zenon
<1>17. CASE YieldCheck(t)
    <2>1. /\ pc[t] = "scan" /\ timeToTry' = timeToTry /\ yieldSchedulingLock' = yieldSchedulingLock
        BY <1>17, ZenonT(30) DEF YieldCheck, at, schedVars, timerVars
    <2>2. LockReleased' BY <1>9, <2>1, Zenon DEF LockReleased
    <2>3. CASE YieldReturns(t)
        <3>1. /\ goto(t, after[t]) /\ sel' = [sel EXCEPT ![t] = NoSelection]
              /\ undisturbed' = [undisturbed EXCEPT ![t] = FALSE]
            BY <1>17, <2>3, Zenon DEF YieldCheck, EndLocals
        <3>2. pc'[t] = after[t] /\ \A u \in All : u # t => pc'[u] = pc[u] BY <1>12, <3>1, ZenonT(30)
        <3>3. May(t) BY <1>5, <1>8, <2>1, <2>3, Zenon DEF YieldReturns, Yielding
        <3>4. after[t] \in {"run", "idle", "woken"} BY Zenon DEF IInv, Types, Continuations
        <3>5. \A u \in All : sel'[u] = NoSelection BY <1>6, <1>10, <3>1, Zenon
        <3>6. \A u \in All : u # t => undisturbed'[u] = undisturbed[u] BY <1>10, <3>1, Zenon
        <3>7. SelectionsMayRun'
            BY <1>4, <1>6, <1>7, <1>11, <3>2, <3>4, <3>5, <3>6 DEF SelectionsMayRun
        <3>8. ReturnsInTime' BY <1>3, <1>4, <3>3, ZenonT(30) DEF ReturnsInTime
        <3> QED BY <1>13, <2>2, <3>7, <3>8, Zenon
    <2>4. CASE ~YieldReturns(t)
        <3>1. goto(t, "lock") /\ sel' = sel /\ undisturbed' = undisturbed /\ after' = after
            BY <1>17, <2>4, ZenonT(30) DEF YieldCheck
        <3>2. pc'[t] = "lock" /\ \A u \in All : u # t => pc'[u] = pc[u] BY <1>12, <3>1, ZenonT(30)
        <3>3. sel[t].next # t BY <2>4, Zenon DEF YieldReturns
        <3>4. SelectionsMayRun'
            BY <1>3, <1>4, <1>5, <1>6, <1>7, <3>1, <3>2, <3>3, ZenonT(30) DEF SelectionsMayRun, Yielding
        <3>5. ReturnsInTime'
            BY <1>3, <1>4, <1>8, <2>1, <3>1, <3>2, Zenon DEF ReturnsInTime, Returning, Yielding
        <3> QED BY <1>13, <2>2, <3>4, <3>5, Zenon
    <2> QED BY <2>3, <2>4, Zenon
<1>18. CASE YieldLock(t)
    <2>1. /\ pc[t] = "lock" /\ goto(t, "call") /\ timeToTry' = timeToTry /\ after' = after
          /\ sel' = sel /\ undisturbed' = undisturbed
        BY <1>18, Zenon DEF YieldLock, at, yieldVars, timerVars
    <2>2. pc'[t] = "call" /\ \A u \in All : u # t => pc'[u] = pc[u] BY <1>12, <2>1, ZenonT(30)
    <2>3. SelectionsMayRun'
        BY <1>3, <1>4, <1>5, <1>6, <1>7, <2>1, <2>2, Zenon DEF SelectionsMayRun, Yielding
    <2>4. ReturnsInTime'
        BY <1>3, <1>4, <1>8, <2>1, <2>2, ZenonT(30) DEF ReturnsInTime, Returning, Yielding
    <2>5. LockReleased' BY <1>3, <2>2, Zenon DEF LockReleased
    <2> QED BY <1>13, <2>3, <2>4, <2>5, Zenon
<1> QED BY <1>14, <1>15, <1>16, <1>17, <1>18, Zenon

(* yield hands its selection over to the scheduler (thread_on_hw.cpp:137), *)
(* if no scheduling has made it stale, and calls it.                       *)
LEMMA CallKeeps ==
    ASSUME IInv, Types', NEW t \in All, YieldCall(t)
    PROVE  IInv'
<1>1. /\ mode = "thread" /\ mode' = "wrapper" /\ currentThread = t /\ currentThread' = t
      /\ now' = now /\ suspendedUntil' = suspendedUntil /\ timeToTry' = timeToTry
      /\ pc[t] = "call" /\ goto(t, after[t])
      /\ sel' = [sel EXCEPT ![t] = NoSelection] /\ undisturbed' = [undisturbed EXCEPT ![t] = FALSE]
      /\ preSelected' = IF undisturbed[t] THEN sel[t] ELSE preSelected
    BY Zenon DEF YieldCall, EndLocals, at, threadVars
<1>2. \A u \in All : May(u)' <=> May(u) BY <1>1, ZenonT(30) DEF May
<1>3. sel[t] \in Selections /\ sel[t].next \in All /\ May(sel[t].next)
    BY Zenon DEF IInv, Types, Selections, SelectionsMayRun
<1>4. sel \in [All -> Selections] /\ undisturbed \in [All -> BOOLEAN] /\ after[t] \in {"run", "idle", "woken"}
    BY Zenon DEF IInv, Types, Continuations
<1>5. pc'[t] = after[t] /\ \A u \in All : u # t => pc'[u] = pc[u] BY <1>1, Goes, Zenon DEF IInv
<1>6. SelectionsMayRun'
    <2>1. \A u \in All : sel'[u] = NoSelection BY <1>1, <1>4, Zenon DEF IInv, SelectionsMayRun
    <2>2. \A u \in All : u # t => undisturbed'[u] = undisturbed[u] BY <1>1, <1>4, Zenon
    <2>3. \A u \in All : pc[u] \in {"lock", "call"} /\ undisturbed[u] => sel[u].next # u
        BY Zenon DEF IInv, SelectionsMayRun
    <2>4. \A u \in All : u # t => sel[u] = NoSelection BY <1>1, Zenon DEF IInv, SelectionsMayRun
    <2>5. NoSelection.next = idlethread /\ idlethread \in All /\ May(idlethread)
        BY Constants, ZenonT(30) DEF May
    <2> QED BY <1>2, <1>4, <1>5, <2>1, <2>2, <2>3, <2>4, <2>5 DEF SelectionsMayRun
<1>7. PreSelectedMayRun'
    <2>1. CASE undisturbed[t]
        <3>1. preSelected' = sel[t] BY <1>1, <2>1, Zenon
        <3>2. sel[t].next # t BY <1>1, <2>1, Zenon DEF IInv, SelectionsMayRun
        <3> QED BY <1>1, <1>2, <1>3, <3>1, <3>2, Zenon DEF PreSelectedMayRun
    <2>2. CASE ~undisturbed[t]
        <3>1. preSelected' = preSelected BY <1>1, <2>2, Zenon
        <3>2. preSelected.next # None => preSelected.next \in All
            BY Zenon DEF IInv, PreSelectedMayRun, Selections
        <3> QED BY <1>1, <1>2, <3>1, <3>2, ZenonT(30) DEF IInv, PreSelectedMayRun
    <2> QED BY <2>1, <2>2, Zenon
<1>8. ReturnsInTime'
    <2>1. Returning(t) => timeToTry = 0 \/ May(t) BY <1>1, ZenonT(30) DEF IInv, ReturnsInTime
    <2>2. Returning(t)' => Returning(t) BY <1>1, <1>4, <1>5, Zenon DEF Returning, Yielding
    <2> QED BY <1>1, <1>2, <1>4, <1>5, <2>1, <2>2, ZenonT(30) DEF ReturnsInTime, Yielding
<1>9. SelectedMayRun' /\ LockReleased' BY <1>1, Zenon DEF SelectedMayRun, LockReleased
<1> QED BY <1>6, <1>7, <1>8, <1>9, Zenon DEF IInv

(* suspendCallerUntil stores its time while no selection names the thread: *)
(* no yield has begun one, and a preselection left over is another's.      *)
LEMMA StoreKeeps ==
    ASSUME IInv, Types', NEW t \in All, SuspendStore(t)
    PROVE  IInv'
<1>1. /\ mode = "thread" /\ mode' = "thread" /\ currentThread = t /\ currentThread' = t
      /\ now' = now /\ suspendedUntil' = [suspendedUntil EXCEPT ![t] = wakeAt[t]]
      /\ pc[t] = "suspend" /\ goto(t, "stored")
      /\ sel' = sel /\ undisturbed' = undisturbed /\ preSelected' = preSelected
      /\ yieldSchedulingLock' = yieldSchedulingLock
    BY Zenon DEF SuspendStore, at, schedVars
<1>2. \A u \in All : u # t => (May(u)' <=> May(u))
    <2>1. suspendedUntil \in [All -> Nat] BY Zenon DEF IInv, Types
    <2> QED BY <1>1, <2>1, Zenon DEF May
<1>3. pc'[t] = "stored" /\ \A u \in All : u # t => pc'[u] = pc[u] BY <1>1, Goes, Zenon DEF IInv
<1>4. SelectionsMayRun'
    <2>1. \A u \in All : sel[u] = NoSelection BY <1>1, Zenon DEF IInv, SelectionsMayRun, Yielding
    <2>2. \A u \in All : pc[u] \in {"lock", "call"} /\ undisturbed[u] => sel[u].next # u
        BY Zenon DEF IInv, SelectionsMayRun
    <2>3. NoSelection.next = idlethread /\ idlethread \in All /\ May(idlethread)'
        BY Constants, ZenonT(30) DEF May
    <2> QED BY <1>1, <1>3, <2>1, <2>2, <2>3, Zenon DEF SelectionsMayRun
<1>5. PreSelectedMayRun'
    <2>1. preSelected.next # None => preSelected.next \in All
        BY Zenon DEF IInv, PreSelectedMayRun, Selections
    <2> QED BY <1>1, <1>2, <2>1, ZenonT(30) DEF IInv, PreSelectedMayRun
<1>6. ReturnsInTime' BY <1>1, <1>3, ZenonT(30) DEF ReturnsInTime, Returning, Yielding
<1>7. SelectedMayRun' /\ LockReleased' BY <1>1, <1>3, Zenon DEF IInv, SelectedMayRun, LockReleased
<1> QED BY <1>4, <1>5, <1>6, <1>7, Zenon DEF IInv

(* A step that takes no thread's right to run away, and wakes at most the  *)
(* idle thread from its sleep.                                             *)
Calm ==
    /\ \A u \in All : May(u) => May(u)'
    /\ \A u \in All : suspendedUntil[u] < now => suspendedUntil'[u] < now'
    /\ mode' = mode \/ (mode = "thread" /\ mode' = "wrapper")
    /\ timeToTry' \in {0, timeToTry}
    /\ pc' = pc \/ (pc[idlethread] = "sleep" /\ pc' = [pc EXCEPT ![idlethread] = "awake"])
    /\ UNCHANGED <<currentThread, preSelected, chosen, sel, undisturbed, after,
                   yieldSchedulingLock, broken>>

(* Such a step keeps the invariant.                                        *)
LEMMA CalmKeeps ==
    ASSUME IInv, Types', Calm
    PROVE  IInv'
<1>1. \A u \in All : (pc'[u] = pc[u]) \/ (pc[u] = "sleep" /\ pc'[u] = "awake")
    <2>1. pc \in [All -> Places] /\ idlethread \in All BY Constants, Zenon DEF IInv, Types
    <2> QED BY <2>1, ZenonT(30) DEF Calm
<1>2. \A u \in All, l \in Yielding \cup {"start", "woken"} : (pc'[u] = l) <=> (pc[u] = l)
    BY <1>1, Zenon DEF Yielding
<1>3. /\ currentThread' = currentThread /\ preSelected' = preSelected /\ sel' = sel /\ chosen' = chosen
      /\ undisturbed' = undisturbed /\ after' = after /\ yieldSchedulingLock' = yieldSchedulingLock
      /\ broken' = broken
      /\ (mode' = mode \/ (mode = "thread" /\ mode' = "wrapper")) /\ timeToTry' \in {0, timeToTry}
    BY Zenon DEF Calm
<1>4. /\ \A u \in All : May(u) => May(u)'
      /\ \A u \in All : suspendedUntil[u] < now => suspendedUntil'[u] < now'
    BY Zenon DEF Calm
<1>5. currentThread \in All /\ \A u \in All : sel[u].next \in All BY Zenon DEF IInv, Types, Selections
<1>6. chosen.next \in All /\ (preSelected.next # None => preSelected.next \in All)
    BY Zenon DEF IInv, Types, Selections, PreSelectedMayRun
<1>7. SelectionsMayRun'
    <2> SUFFICES ASSUME NEW u \in All
                 PROVE  /\ May(sel[u].next)'
                        /\ sel'[u] # NoSelection => mode' # "activate" /\ u = currentThread' /\ pc'[u] \in Yielding
                        /\ pc'[u] \in {"lock", "call"} /\ undisturbed'[u] => sel'[u].next # u
        BY Zenon DEF SelectionsMayRun
    <2>1. /\ May(sel[u].next)
          /\ sel[u] # NoSelection => mode # "activate" /\ u = currentThread /\ pc[u] \in Yielding
          /\ pc[u] \in {"lock", "call"} /\ undisturbed[u] => sel[u].next # u
        BY Zenon DEF IInv, SelectionsMayRun
    <2>2. May(sel[u].next)' BY <1>3, <1>4, <1>5, <2>1, Zenon DEF May
    <2>3. sel'[u] # NoSelection => mode' # "activate" /\ u = currentThread' /\ pc'[u] \in Yielding
        BY <1>2, <1>3, <2>1, Zenon
    <2>4. pc'[u] \in {"lock", "call"} /\ undisturbed'[u] => sel'[u].next # u
        BY <1>2, <1>3, <2>1, Zenon DEF Yielding
    <2> QED BY <2>2, <2>3, <2>4, Zenon
<1>8. PreSelectedMayRun'
    <2>1. preSelected.next # None => May(preSelected.next)'
        BY <1>3, <1>4, <1>6, Zenon DEF IInv, PreSelectedMayRun, May
    <2> QED BY <1>3, <2>1, Zenon DEF IInv, PreSelectedMayRun, May
<1>9. ReturnsInTime'
    <2>1. Returning(currentThread)' => Returning(currentThread)
        BY <1>2, <1>3, <1>5, Zenon DEF Returning, Yielding
    <2>2. May(currentThread) => May(currentThread)' BY <1>3, <1>4, <1>5, Zenon DEF May
    <2>3. /\ (pc'[currentThread] = "woken") <=> (pc[currentThread] = "woken")
          /\ (pc'[currentThread] \in Yielding) <=> (pc[currentThread] \in Yielding)
        BY <1>2, <1>5, Zenon DEF Yielding
    <2> QED BY <1>3, <2>1, <2>2, <2>3, Zenon DEF IInv, ReturnsInTime
<1>10. SelectedMayRun' BY <1>3, <1>4, <1>6, Zenon DEF IInv, SelectedMayRun
<1>11. LockReleased' BY <1>2, <1>3, <1>5, Zenon DEF IInv, LockReleased, Yielding
<1> QED BY <1>7, <1>8, <1>9, <1>10, <1>11, Zenon DEF IInv

(* A resume, a SysTick and the time that passes are such steps.            *)
LEMMA IsCalm ==
    ASSUME IInv, (\E t \in Threads : resume(t)) \/ SysTick \/ Tick \/ UNCHANGED vars
    PROVE  Calm
<1>1. ASSUME NEW t \in Threads, resume(t) PROVE Calm
    <2>1. /\ suspendedUntil' = [suspendedUntil EXCEPT ![t] = 0] /\ now' = now
          /\ timeToTry' = 0 /\ mode' = mode
          /\ pc' = (IF pc[idlethread] = "sleep" THEN [pc EXCEPT ![idlethread] = "awake"] ELSE pc)
        BY <1>1, Zenon DEF resume, schedVars
    <2>2. UNCHANGED <<currentThread, preSelected, chosen, sel, undisturbed, after, yieldSchedulingLock, broken>>
        BY <1>1, Zenon DEF resume, schedVars, yieldVars
    <2>3. suspendedUntil \in [All -> Nat] /\ now \in Nat /\ now > 0 BY Zenon DEF IInv, Types
    <2>4. \A u \in All : suspendedUntil[u] < now => suspendedUntil'[u] < now' BY <2>1, <2>3, Zenon
    <2>5. \A u \in All : May(u) => May(u)' BY <2>4, Zenon DEF May
    <2> QED BY <2>1, <2>2, <2>4, <2>5, Zenon DEF Calm
<1>2. CASE SysTick
    <2>1. /\ suspendedUntil' = suspendedUntil /\ now' = now /\ timeToTry' = timeToTry
          /\ mode = "thread" /\ mode' = "wrapper"
          /\ pc' = (IF pc[idlethread] = "sleep" THEN [pc EXCEPT ![idlethread] = "awake"] ELSE pc)
        BY <1>2, Zenon DEF SysTick, threadVars, timerVars
    <2>2. UNCHANGED <<currentThread, preSelected, chosen, sel, undisturbed, after, yieldSchedulingLock, broken>>
        BY <1>2, Zenon DEF SysTick, threadVars, yieldVars
    <2> QED BY <2>1, <2>2, Zenon DEF Calm, May
<1>3. CASE Tick
    <2>1. /\ suspendedUntil' = suspendedUntil /\ now' = now + 1 /\ timeToTry' = timeToTry
          /\ mode' = mode /\ pc' = pc
        BY <1>3, ZenonT(30) DEF Tick, threadVars, timerVars, schedVars
    <2>2. UNCHANGED <<currentThread, preSelected, chosen, sel, undisturbed, after, yieldSchedulingLock, broken>>
        BY <1>3, ZenonT(30) DEF Tick, threadVars, yieldVars, schedVars
    <2>3. suspendedUntil \in [All -> Nat] /\ now \in Nat BY Zenon DEF IInv, Types
    <2>4. \A u \in All : suspendedUntil[u] < now => suspendedUntil'[u] < now' BY <2>1, <2>3
    <2>5. \A u \in All : May(u) => May(u)' BY <2>4, Zenon DEF May
    <2> QED BY <2>1, <2>2, <2>4, <2>5, Zenon DEF Calm
<1>4. CASE UNCHANGED vars
    <2>1. UNCHANGED <<suspendedUntil, now, timeToTry, mode, pc, currentThread, preSelected, chosen, sel,
                      undisturbed, after, yieldSchedulingLock, broken>>
        BY <1>4, Zenon DEF vars, threadVars, yieldVars, schedVars, timerVars
    <2> QED BY <2>1, Zenon DEF Calm, May
<1> QED BY <1>1, <1>2, <1>3, <1>4, Zenon

(* schedulerWrapper returns early (scheduler.cpp:43) only when no thread   *)
(* has asked for scheduling, so a thread that returns from its suspension  *)
(* may run.                                                                *)
LEMMA WrapperKeeps ==
    ASSUME IInv, Types', WrapperReturn
    PROVE  IInv'
<1>1. /\ mode = "wrapper" /\ mode' = "thread" /\ now < timeToTry /\ yieldSchedulingLock' = FALSE
      /\ UNCHANGED <<now, timeToTry, suspendedUntil, currentThread, pc, after, sel, undisturbed, preSelected>>
    BY Zenon DEF WrapperReturn, threadVars, yieldVars
<1>2. timeToTry # 0 BY <1>1 DEF IInv, Types
<1>3. SelectionsMayRun' BY <1>1, Zenon DEF IInv, SelectionsMayRun, May
<1>4. PreSelectedMayRun' BY <1>1, Zenon DEF IInv, PreSelectedMayRun, May
<1>5. ReturnsInTime'
    <2>1. /\ Returning(currentThread) => May(currentThread)
          /\ pc[currentThread] \in Yielding /\ ~undisturbed[currentThread] => May(currentThread)
        BY <1>1, <1>2, Zenon DEF IInv, ReturnsInTime
    <2>2. (Returning(currentThread)' <=> Returning(currentThread)) /\ (May(currentThread)' <=> May(currentThread))
        BY <1>1, Zenon DEF Returning, May
    <2>3. pc[currentThread] = "woken" => Returning(currentThread) BY Zenon DEF Returning
    <2> QED BY <1>1, <2>1, <2>2, <2>3, Zenon DEF ReturnsInTime
<1>6. SelectedMayRun' /\ LockReleased' BY <1>1, Zenon DEF SelectedMayRun, LockReleased
<1> QED BY <1>3, <1>4, <1>5, <1>6, Zenon DEF IInv

(* schedule chooses the preselection or what its own scan finds, and both  *)
(* may run (scheduler.cpp:103); activate makes the choice current.         *)
LEMMA ScheduleKeeps ==
    ASSUME IInv, Types', ScanMayRun, Select \/ activate
    PROVE  IInv'
<1>1. CASE Select
    <2> DEFINE s == IF preSelected.next = None THEN findNextToRunFromISR ELSE preSelected
    <2>1. s \in Selections /\ May(s.next) BY Zenon DEF IInv, PreSelectedMayRun, ScanMayRun
    <2>2. /\ chosen' = [s EXCEPT !.next = IF s.next \in broken THEN idlethread ELSE s.next]
          /\ now' = now /\ broken' = broken
          /\ s.next \notin broken => suspendedUntil' = suspendedUntil
        BY <1>1, Zenon DEF Select, SelectLeaving
    <2>3. /\ undisturbed' = [t \in All |-> FALSE] /\ sel' = [t \in All |-> NoSelection]
          /\ preSelected' = NotPreSelected /\ mode' = "activate"
        BY <1>1, Zenon DEF Select, SelectLeaving
    <2> HIDE DEF s
    <2>4. chosen'.next = IF s.next \in broken THEN idlethread ELSE s.next BY <2>1, <2>2, Zenon DEF Selections
    <2>5. SelectedMayRun' BY <2>1, <2>2, <2>4 DEF SelectedMayRun, May
    <2>6. NoSelection.next = idlethread /\ NotPreSelected.next = None BY Constants, Zenon
    <2>7. SelectionsMayRun' BY <2>3, <2>6, Zenon DEF SelectionsMayRun, May
    <2>8. PreSelectedMayRun' BY <2>3, <2>6, Zenon DEF PreSelectedMayRun
    <2>9. ReturnsInTime' /\ LockReleased' BY <2>3, Zenon DEF ReturnsInTime, LockReleased
    <2> QED BY <2>5, <2>7, <2>8, <2>9, Zenon DEF IInv
<1>2. CASE activate
    <2>1. /\ mode = "activate" /\ mode' = "thread" /\ currentThread' = chosen.next /\ yieldSchedulingLock' = FALSE
          /\ UNCHANGED <<now, suspendedUntil, pc, sel, undisturbed, preSelected>>
        BY <1>2, Zenon DEF activate, activateWith, threadVars, yieldVars
    <2>2. May(currentThread)' BY <2>1, Zenon DEF IInv, SelectedMayRun, May
    <2>3. ReturnsInTime' BY <2>2, Zenon DEF ReturnsInTime
    <2>4. \A u \in All : sel[u] = NoSelection BY <2>1, ZenonT(30) DEF IInv, SelectionsMayRun
    <2>5. SelectionsMayRun' BY <2>1, <2>4, ZenonT(30) DEF IInv, SelectionsMayRun, May
    <2>6. PreSelectedMayRun' BY <2>1, Zenon DEF IInv, PreSelectedMayRun
    <2>7. SelectedMayRun' /\ LockReleased' BY <2>1, Zenon DEF SelectedMayRun, LockReleased
    <2> QED BY <2>3, <2>5, <2>6, <2>7, Zenon DEF IInv
<1> QED BY <1>1, <1>2, Zenon

(* Every step keeps the invariant, if the scan selects what may run.       *)
LEMMA StepKeeps ==
    ASSUME IInv, ScanMayRun, [Next]_vars
    PROVE  IInv'
<1>0. Types' BY TypesKept, Zenon DEF IInv
<1>1. pc \in [All -> Places] BY Zenon DEF IInv, Types
<1>2. ASSUME NEW t \in All, NEW until \in Nat, suspendCallerUntil(t, until) PROVE Quiet(t)
    <2>1. Own(t) /\ pc[t] = "run" /\ pc' = [pc EXCEPT ![t] = "suspend"]
        BY <1>2, Zenon DEF suspendCallerUntil, Own, at, goto, schedVars
    <2>2. UNCHANGED <<timeToTry, sel, undisturbed, after, yieldSchedulingLock>>
        BY <1>2, Zenon DEF suspendCallerUntil, timerVars, schedVars
    <2> QED BY <2>1, <2>2, ZenonT(30) DEF Quiet, Places, Yielding
<1>3. ASSUME NEW t \in All, SuspendUnceil(t) \/ SuspendReturn(t) PROVE Quiet(t)
    <2>1. Own(t) /\ pc[t] \in {"stored", "woken"}
        BY <1>3, Zenon DEF SuspendUnceil, SuspendReturn, Own, at, goto, schedVars, threadVars
    <2>2. pc' = [pc EXCEPT ![t] = "suspended"] \/ pc' = [pc EXCEPT ![t] = "run"]
        BY <1>3, ZenonT(30) DEF SuspendUnceil, SuspendReturn, goto
    <2>3. UNCHANGED <<timeToTry, sel, undisturbed, after, yieldSchedulingLock>>
        BY <1>3, Zenon DEF SuspendUnceil, SuspendReturn, timerVars, schedVars, yieldVars
    <2> QED BY <2>1, <2>2, <2>3, Zenon DEF Quiet, Places, Yielding
<1>4. ASSUME NEW t \in All, EnterScope(t) \/ LeaveScope(t) \/ StackOverflow(t) PROVE Quiet(t)
    <2>1. Own(t) /\ pc[t] = "run" /\ pc' = pc
        BY <1>4, Zenon DEF EnterScope, LeaveScope, StackOverflow, Own, at, schedVars
    <2>2. pc' = [pc EXCEPT ![t] = "run"] BY <1>1, <2>1, Zenon
    <2>3. UNCHANGED <<timeToTry, sel, undisturbed, after, yieldSchedulingLock>>
        BY <1>4, Zenon DEF EnterScope, LeaveScope, StackOverflow, timerVars, schedVars, yieldVars
    <2> QED BY <2>1, <2>2, <2>3, ZenonT(30) DEF Quiet, Places, Yielding
<1>5. ASSUME IdleStep PROVE Quiet(idlethread)
    <2> USE <1>5 DEF IdleStep, IdleRead, IdleArm, enterSleepMode, Interrupt, IdleAwake
    <2>1. Own(idlethread) BY ZenonT(30) DEF Own, at, schedVars, threadVars
    <2>2. pc[idlethread] \in {"idle", "arm", "armed", "sleep", "awake"} BY Zenon DEF at
    <2>3. \E l \in {"arm", "armed", "run", "sleep", "awake"} : pc' = [pc EXCEPT ![idlethread] = l] BY Zenon DEF goto
    <2>4. UNCHANGED <<timeToTry, sel, undisturbed, after, yieldSchedulingLock>>
        BY Zenon DEF timerVars, schedVars, yieldVars
    <2> QED BY ONLY <2>1, <2>2, <2>3, <2>4, ZenonT(30) DEF Quiet, Places, Yielding
<1>6. ASSUME NEW t \in All, ThreadStep(t) PROVE IInv'
    <2>1. \A d \in Delays : (IF now + d > MaxTime THEN EndOfTime ELSE now + d) \in Nat
        <3>1. now \in Nat BY Zenon DEF IInv, Types
        <3> QED BY <3>1, Constants
    <2>2. Quiet(t) => IInv' BY <1>0, QuietKeeps, Zenon
    <2>3. (yield(t) \/ YieldStart(t) \/ findNextToRun(t) \/ YieldCheck(t) \/ YieldLock(t)) => IInv'
        BY <1>0, YieldKeeps, Zenon
    <2>4. YieldCall(t) => IInv' BY <1>0, CallKeeps, Zenon
    <2>5. SuspendStore(t) => IInv' BY <1>0, StoreKeeps, Zenon
    <2> QED BY <1>2, <1>3, <1>4, <1>6, <2>1, <2>2, <2>3, <2>4, <2>5, ZenonT(30) DEF ThreadStep
<1>7. CASE IdleStep BY <1>0, <1>5, <1>7, QuietKeeps, Constants, Zenon
<1>8. CASE (\E t \in Threads : resume(t)) \/ SysTick \/ Tick \/ UNCHANGED vars
    BY <1>0, <1>8, IsCalm, CalmKeeps, Zenon
<1>9. CASE WrapperReturn BY <1>0, <1>9, WrapperKeeps, Zenon
<1>10. CASE Select \/ activate BY <1>0, <1>10, ScheduleKeeps, Zenon
<1> QED BY <1>6, <1>7, <1>8, <1>9, <1>10, ZenonT(30) DEF Next

-----------------------------------------------------------------------------
W == INSTANCE WellFoundedInduction

(* A set of natural numbers that is not empty has a least element.         *)
LEMMA LeastNumber ==
    ASSUME NEW S \in SUBSET Nat, S # {}
    PROVE  \E n \in S : \A m \in S : n <= m
<1> DEFINE R == W!OpToRel(<, Nat)
<1>1. W!IsWellFoundedOn(R, Nat) BY W!NatLessThanWellFounded, ZenonT(30)
<1>2. \A x, y \in Nat : x < y => <<x, y>> \in R BY Zenon DEF W!OpToRel
<1> HIDE DEF R
<1>3. PICK x \in S : \A y \in S : ~ (<<y, x>> \in R) BY <1>1, W!WFMin, ZenonT(30)
<1>4. \A y \in S : ~ (y < x) BY <1>2, <1>3, ZenonT(30)
<1> QED BY <1>4

(* The loop of findNextToRun gives found a value for every thread.         *)
LEMMA LoopRuns ==
    found = [i \in 0 .. Len(threadList) |->
                IF i = 0 THEN NoSelection ELSE Consider(found[i - 1], threadList[i])]
<1> DEFINE N == Len(threadList)
           Next1(s, i) == Consider(s, threadList[i])
           Sol(f, n) == f = [i \in 0 .. n |-> IF i = 0 THEN NoSelection ELSE Next1(f[i - 1], i)]
           Bad == {n \in 0 .. N : ~ \E f : Sol(f, n)}
<1>0. N \in Nat BY Constants, Zenon
<1>a. found = CHOOSE f : Sol(f, N) BY Zenon DEF found
<1> HIDE DEF Next1, N
<1>1. Bad = {}
    <2> SUFFICES ASSUME Bad # {} PROVE FALSE OBVIOUS
    <2>1. PICK n \in Bad : \A m \in Bad : n <= m
        <3>1. Bad \in SUBSET Nat BY <1>0
        <3> HIDE DEF Bad
        <3> QED BY <3>1, LeastNumber, Zenon
    <2>2. n \in Nat /\ n <= N BY <1>0
    <2>3. ~ \E f : Sol(f, n) OBVIOUS
    <2>4. CASE n = 0
        <3> DEFINE f == [i \in 0 .. 0 |-> NoSelection]
        <3>1. Sol(f, 0) OBVIOUS
        <3> QED BY <2>3, <2>4, <3>1, ZenonT(30)
    <2>5. CASE n # 0
        <3>1. n - 1 \in 0 .. N /\ n - 1 \in Nat BY <1>0, <2>2, <2>5
        <3>2. n - 1 \notin Bad
            <4> HIDE DEF Bad
            <4> QED BY <2>1, <2>2, <3>1
        <3>3. PICK f : Sol(f, n - 1) BY <3>1, <3>2, Zenon
        <3> DEFINE g == [i \in 0 .. n |-> IF i = n THEN Next1(f[n - 1], n) ELSE f[i]]
        <3> HIDE DEF Bad
        <3>4. ASSUME NEW i \in 0 .. n
              PROVE  g[i] = IF i = 0 THEN NoSelection ELSE Next1(g[i - 1], i)
            <4>1. CASE i = n
                <5>1. n - 1 \in 0 .. n /\ n - 1 # n BY <2>2, <2>5
                <5>2. g[n - 1] = f[n - 1] BY <5>1, Zenon
                <5>3. g[i] = Next1(f[n - 1], n) BY <4>1, Zenon
                <5> QED BY <2>5, <4>1, <5>2, <5>3, Zenon
            <4>2. CASE i # n /\ i # 0
                <5>1. i \in 0 .. n - 1 /\ i - 1 \in 0 .. n /\ i - 1 # n BY <2>2, <4>2
                <5>2. g[i] = f[i] /\ g[i - 1] = f[i - 1] BY <4>2, <5>1, Zenon
                <5>3. f[i] = Next1(f[i - 1], i) BY <3>3, <4>2, <5>1, ZenonT(30)
                <5> QED BY <4>2, <5>2, <5>3, Zenon
            <4>3. CASE i # n /\ i = 0
                <5>1. i \in 0 .. n - 1 BY <2>2, <4>3
                <5>2. g[i] = f[i] BY <4>3, Zenon
                <5>3. f[i] = NoSelection BY <3>3, <4>3, <5>1, Zenon
                <5> QED BY <4>3, <5>2, <5>3, Zenon
            <4> QED BY <4>1, <4>2, <4>3, Zenon
        <3>5. Sol(g, n) BY <3>4, Zenon
        <3> HIDE DEF Sol, g
        <3> QED BY <2>3, <3>5, Zenon
    <2> QED BY <2>4, <2>5, Zenon
<1>2. N \in 0 .. N BY <1>0
<1>3. \E f : Sol(f, N)
    <2> HIDE DEF Sol
    <2> QED BY <1>1, <1>2, Zenon
<1>4. Sol(found, N)
    <2> HIDE DEF Sol
    <2> QED BY <1>3, <1>a, Zenon
<1> QED BY <1>4, Zenon DEF N, Next1

(* The whole loop finds a thread that may run, or the idle thread.         *)
LEMMA FindsMayRun ==
    ASSUME Types
    PROVE  ScanMayRun
<1> DEFINE N == Len(threadList)
           Good(s) == s \in Selections /\ May(s.next)
           Bad == {n \in 0 .. N : ~Good(found[n])}
<1>0. N \in Nat BY Constants, Zenon
<1>1. Bad = {}
    <2> SUFFICES ASSUME Bad # {} PROVE FALSE OBVIOUS
    <2>1. PICK n \in Bad : \A m \in Bad : n <= m
        <3>1. Bad \in SUBSET Nat BY <1>0
        <3> HIDE DEF Bad
        <3> QED BY <3>1, LeastNumber, Zenon
    <2>2. n \in Nat /\ n \in 0 .. N /\ ~Good(found[n]) BY <1>0
    <2>3. CASE n = 0
        <3>1. found[n] = NoSelection BY <2>2, <2>3, LoopRuns, Zenon
        <3> QED BY <2>2, <3>1, Constants, Zenon DEF May
    <2>4. CASE n # 0
        <3>1. n - 1 \in 0 .. N /\ n - 1 \in Nat /\ n \in 1 .. N BY <1>0, <2>2, <2>4
        <3>2. n - 1 \notin Bad
            <4> HIDE DEF Bad
            <4> QED BY <2>1, <2>2, <3>1
        <3>3. Good(found[n - 1]) BY <3>1, <3>2, Zenon
        <3>4. found[n] = Consider(found[n - 1], threadList[n]) BY <2>2, <2>4, LoopRuns, Zenon
        <3>5. threadList[n] \in Threads BY <3>1, Constants, Zenon
        <3> QED BY <2>2, <3>3, <3>4, <3>5, ConsiderMayRun, Zenon
    <2> QED BY <2>3, <2>4, Zenon
<1>2. Good(found[N]) BY <1>0, <1>1
<1> QED BY <1>2, Zenon DEF findNextToRunFromISR, ScanMayRun

(* The invariant is inductive.                                             *)
LEMMA Inductive == IInv /\ [Next]_vars => IInv'
BY FindsMayRun, StepKeeps, Zenon DEF IInv

(* "True if the thread is resumed, false if the reactivation time is       *)
(* reached" (thread.h:173): suspendCallerUntil never returns before, in    *)
(* whichever of its ways yield returns.                                    *)
THEOREM NeverEarly == Spec => []NoEarlyReturn
<1>1. IInv => NoEarlyReturn
    <2> SUFFICES ASSUME IInv, NEW t \in Threads, at(t, "woken") PROVE suspendedUntil[t] < now
        BY Zenon DEF NoEarlyReturn
    <2> QED BY Constants, ZenonT(30) DEF IInv, ReturnsInTime, May, at
<1> QED BY <1>1, Starts, Inductive, PTL DEF Spec

(* The scheduler activates only threads that may run, also when it takes   *)
(* over the preselection of a yield (scheduler.cpp:103).                   *)
THEOREM ActivatesOnlyReady == Spec => []SelectedMayRun
<1>1. IInv => SelectedMayRun BY Zenon DEF IInv
<1> QED BY <1>1, Starts, Inductive, PTL DEF Spec

(* yieldSchedulingLock is released whenever a thread goes on with its own  *)
(* code (thread_on_hw.cpp:147), so that SysTick is never locked out.       *)
THEOREM LockAlwaysReleased == Spec => []LockReleased
<1>1. IInv => LockReleased BY Zenon DEF IInv
<1> QED BY <1>1, Starts, Inductive, PTL DEF Spec

-----------------------------------------------------------------------------
(* The selection is at least as urgent as the thread if that one is ready, *)
(* and it is looked at again when the thread wakes up if that one is as    *)
(* urgent.                                                                 *)
Dominates(s, t) ==
    /\ suspendedUntil[t] < now => priority[t] <= priority[s.next]
    /\ suspendedUntil[t] >= now /\ priority[t] >= priority[s.next] => s.earliest <= suspendedUntil[t]

(* One pass of the loop makes the selection dominate one thread more, and  *)
(* it keeps dominating the others.                                         *)
LEMMA ConsiderDominates ==
    ASSUME Types, priority \in [All -> Nat], NEW s \in Selections, May(s.next), NEW t \in Threads
    PROVE  /\ Dominates(Consider(s, t), t)
           /\ \A u \in Threads : Dominates(s, u) => Dominates(Consider(s, t), u)
<1> DEFINE r == Consider(s, t)
           e == earlier(s.earliest, suspendedUntil[t])
<1>1. t \in All /\ r \in Selections /\ Threads \subseteq All BY Constants, ConsiderMayRun, Zenon
<1>2. r.next \in All /\ s.next \in All /\ r.earliest \in Nat /\ s.earliest \in Nat
    BY <1>1, Zenon DEF Selections
<1>3. /\ priority[t] \in Nat /\ priority[s.next] \in Nat /\ priority[r.next] \in Nat
      /\ suspendedUntil[t] \in Nat /\ now \in Nat
    BY <1>1, <1>2, Zenon DEF Types
<1>4. e \in Nat /\ e <= s.earliest /\ e <= suspendedUntil[t] BY <1>2, <1>3 DEF earlier
<1>5. /\ [s EXCEPT !.next = t].next = t /\ [s EXCEPT !.next = t].earliest = s.earliest
      /\ [s EXCEPT !.earliest = e].next = s.next /\ [s EXCEPT !.earliest = e].earliest = e
    BY Zenon DEF Selections
<1>6. \/ /\ suspendedUntil[t] < now /\ priority[t] >= priority[s.next]
         /\ r.next = t /\ r.earliest = s.earliest
      \/ /\ suspendedUntil[t] < now /\ ~(priority[t] > priority[s.next])
         /\ r.next = s.next /\ r.earliest = s.earliest
      \/ /\ ~(suspendedUntil[t] < now) /\ r.next = s.next /\ r.earliest = e
      \/ /\ ~(suspendedUntil[t] < now) /\ ~(priority[t] >= priority[s.next])
         /\ r.next = s.next /\ r.earliest = s.earliest
    BY <1>3, <1>5 DEF Consider
<1> HIDE DEF r, e
<1>7. priority[r.next] >= priority[s.next] /\ r.earliest <= s.earliest BY <1>2, <1>3, <1>4, <1>6
<1>8. Dominates(r, t) BY <1>2, <1>3, <1>4, <1>6 DEF Dominates
<1>9. ASSUME NEW u \in Threads, Dominates(s, u) PROVE Dominates(r, u)
    <2>1. priority[u] \in Nat /\ suspendedUntil[u] \in Nat BY <1>1, Zenon DEF Types
    <2> QED BY <1>2, <1>3, <1>7, <1>9, <2>1 DEF Dominates
<1> QED BY <1>8, <1>9, Zenon DEF r

(* What the whole loop selects dominates every thread.                     *)
LEMMA FindsMostUrgent ==
    ASSUME Types, priority \in [All -> Nat]
    PROVE  \A t \in Threads : Dominates(findNextToRunFromISR, t)
<1> DEFINE N == Len(threadList)
           Good(n) == /\ found[n] \in Selections /\ May(found[n].next)
                      /\ \A i \in 1 .. n : Dominates(found[n], threadList[i])
           Bad == {n \in 0 .. N : ~Good(n)}
<1>0. N \in Nat BY Constants, Zenon
<1>1. Bad = {}
    <2> SUFFICES ASSUME Bad # {} PROVE FALSE OBVIOUS
    <2>1. PICK n \in Bad : \A m \in Bad : n <= m
        <3>1. Bad \in SUBSET Nat BY <1>0
        <3> HIDE DEF Bad
        <3> QED BY <3>1, LeastNumber, Zenon
    <2>2. n \in Nat /\ n \in 0 .. N /\ ~Good(n) BY <1>0
    <2>3. CASE n = 0
        <3>1. found[n] = NoSelection BY <2>2, <2>3, LoopRuns, Zenon
        <3>2. 1 .. n = {} BY <2>3
        <3> QED BY <2>2, <3>1, <3>2, Constants, Zenon DEF May
    <2>4. CASE n # 0
        <3>1. n - 1 \in 0 .. N /\ n - 1 \in Nat /\ n \in 1 .. N BY <1>0, <2>2, <2>4
        <3>2. n - 1 \notin Bad
            <4> HIDE DEF Bad
            <4> QED BY <2>1, <2>2, <3>1
        <3>3. Good(n - 1) BY <3>1, <3>2, Zenon
        <3>4. found[n] = Consider(found[n - 1], threadList[n]) BY <2>2, <2>4, LoopRuns, Zenon
        <3>5. threadList[n] \in Threads /\ \A i \in 1 .. N : threadList[i] \in Threads
            BY <3>1, Constants, Zenon
        <3>6. found[n] \in Selections /\ May(found[n].next) BY <3>3, <3>4, <3>5, ConsiderMayRun, Zenon
        <3>7. /\ Dominates(found[n], threadList[n])
              /\ \A u \in Threads : Dominates(found[n - 1], u) => Dominates(found[n], u)
            BY <3>3, <3>4, <3>5, ConsiderDominates, Zenon
        <3>8. \A i \in 1 .. n : i = n \/ (i \in 1 .. n - 1 /\ i \in 1 .. N) BY <3>1
        <3>9. \A i \in 1 .. n : Dominates(found[n], threadList[i])
            BY <3>3, <3>5, <3>7, <3>8, Zenon
        <3> QED BY <2>2, <3>6, <3>9, Zenon
    <2> QED BY <2>3, <2>4, Zenon
<1>2. Good(N)
    <2>1. N \in 0 .. N BY <1>0
    <2> QED BY <1>1, <2>1, Zenon
<1>3. DOMAIN threadList = 1 .. N BY SchedulerAssumption
<1>4. \A t \in Threads : \E i \in 1 .. N : threadList[i] = t BY <1>3, Zenon DEF Threads, Range
<1> QED BY <1>2, <1>4, Zenon DEF findNextToRunFromISR

(* Every priority a thread is given is a number.                           *)
PrioritiesTyped == priority \in [All -> Nat]

(* Only suspendCallerUntil and the ceiling scopes change a priority, to    *)
(* the ceiling and back.                                                   *)
LEMMA PrioritiesKept == PrioritiesTyped /\ [Next]_vars => PrioritiesTyped'
<1> SUFFICES ASSUME PrioritiesTyped, [Next]_vars PROVE PrioritiesTyped' OBVIOUS
<1>1. Ceiling \in Nat /\ BasePriority \in [All -> Nat] BY SchedulerAssumption, Zenon
<1>2. ASSUME NEW t \in All, NEW p \in Nat, priority' = [priority EXCEPT ![t] = p] PROVE PrioritiesTyped'
    BY <1>2 DEF PrioritiesTyped
<1>3. ASSUME UNCHANGED priority PROVE PrioritiesTyped' BY <1>3, Zenon DEF PrioritiesTyped
<1>4. ASSUME NEW t \in All, ThreadStep(t) PROVE PrioritiesTyped'
    <2>0. BasePriority[t] \in Nat BY <1>1, Zenon
    <2>1. CASE \E d \in Delays : suspendCallerUntil(t, IF now + d > MaxTime THEN EndOfTime ELSE now + d)
        BY <1>1, <1>2, <2>1, Zenon DEF suspendCallerUntil
    <2>2. CASE SuspendUnceil(t)
        <3>1. (IF inScope[t] THEN Ceiling ELSE BasePriority[t]) \in Nat BY <1>1, <2>0, Zenon
        <3> QED BY <1>2, <2>2, <3>1, Zenon DEF SuspendUnceil
    <2>3. CASE EnterScope(t) BY <1>1, <1>2, <2>3, Zenon DEF EnterScope
    <2>4. CASE LeaveScope(t) BY <1>2, <2>0, <2>4, Zenon DEF LeaveScope
    <2>5. CASE yield(t) BY <1>3, <2>5, Zenon DEF yield, threadVars
    <2>6. CASE YieldStart(t) BY <1>3, <2>6, Zenon DEF YieldStart, threadVars
    <2>7. CASE findNextToRun(t) BY <1>3, <2>7, Zenon DEF findNextToRun, threadVars
    <2>8. CASE YieldCheck(t) BY <1>3, <2>8, Zenon DEF YieldCheck, threadVars
    <2>9. CASE YieldLock(t) BY <1>3, <2>9, Zenon DEF YieldLock, threadVars
    <2>10. CASE YieldCall(t) BY <1>3, <2>10, Zenon DEF YieldCall, threadVars
    <2>11. CASE SuspendStore(t) BY <1>3, <2>11, Zenon DEF SuspendStore
    <2>12. CASE SuspendReturn(t) BY <1>3, <2>12, Zenon DEF SuspendReturn, threadVars
    <2>13. CASE StackOverflow(t) BY <1>3, <2>13, Zenon DEF StackOverflow
    <2> QED BY <1>4, <2>1, <2>2, <2>3, <2>4, <2>5, <2>6, <2>7, <2>8, <2>9, <2>10, <2>11, <2>12, <2>13, Zenon
           DEF ThreadStep
<1>5. CASE IdleStep
    BY <1>3, <1>5, Zenon
       DEF IdleStep, IdleRead, IdleArm, enterSleepMode, Interrupt, IdleAwake, threadVars
<1>6. CASE \E t \in Threads : resume(t) BY <1>3, <1>6, Zenon DEF resume
<1>7. CASE SysTick \/ WrapperReturn BY <1>3, <1>7, Zenon DEF SysTick, WrapperReturn, threadVars
<1>8. CASE Select BY <1>3, <1>8, Zenon DEF Select, SelectLeaving
<1>9. CASE activate BY <1>3, <1>9, Zenon DEF activate, activateWith, threadVars
<1>10. CASE Tick BY <1>3, <1>10, Zenon DEF Tick, threadVars
<1>11. CASE UNCHANGED vars BY <1>3, <1>11, Zenon DEF vars, threadVars
<1> QED BY <1>4, <1>5, <1>6, <1>7, <1>8, <1>9, <1>10, <1>11, Zenon DEF Next

(* Whatever the scheduler selects by itself, no ready thread is more       *)
(* urgent; and "if there is a thread with higher or same priority in the   *)
(* future, we must call the scheduler then" (thread_on_hw.cpp:382): it is  *)
(* told to look again no later than such a thread wakes up.                *)
SelectsMostUrgent == \A t \in Threads : Dominates(findNextToRunFromISR, t)

(* findNextToRunFromISR (thread_on_hw.cpp:357) selects a most urgent ready *)
(* thread in every reachable state, also while other threads are at        *)
(* ceiling priority, although an early pass of its loop compares with a    *)
(* selection that a later pass replaces.                                   *)
THEOREM MostUrgentSelected == Spec => []SelectsMostUrgent
<1>1. Init => PrioritiesTyped BY SchedulerAssumption, Zenon DEF Init, PrioritiesTyped
<1>2. IInv /\ PrioritiesTyped => SelectsMostUrgent
    BY FindsMostUrgent, Zenon DEF IInv, PrioritiesTyped, SelectsMostUrgent
<1> QED BY <1>1, <1>2, Starts, Inductive, PrioritiesKept, PTL DEF Spec

=============================================================================
