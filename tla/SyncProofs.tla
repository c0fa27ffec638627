----------------------------- MODULE SyncProofs -----------------------------
(***************************************************************************)
(* SyncFifo, SyncCommBuffer and Barrier lose no wake-up and no value, for  *)
(* any priorities below the ceiling, any number of other threads and any   *)
(* capacity, wherever SysTick strikes and whoever times out.               *)
(***************************************************************************)
EXTENDS Sync, TLAPS

USE SMTT(20)

Both == {writer, reader}

FifoScope == {"try", "register", "suspend", "clear", "close", "load", "resume", "leave"}
FifoPlaces == FifoScope \cup {"run", "yield", "again", "open"}

WriterBufferScope == {"bufferLoad", "bufferResume", "bufferLeave"}
WriterBufferPlaces == WriterBufferScope \cup {"run", "bufferFlag", "bufferOpen"}
ReaderBufferScope == {"bufferTest", "bufferRegister", "bufferSuspend", "bufferClear", "bufferClose"}
ReaderBufferPlaces == ReaderBufferScope \cup {"run", "bufferAsk", "bufferTake", "bufferCopy"}

WriterBarrierScope == {"unblockTest", "unblockLoad", "unblockResume", "unblockAsk", "unblockClear",
                       "unblockClose"}
WriterBarrierPlaces == WriterBarrierScope \cup {"run", "unblockOpen"}
ReaderBarrierScope == {"waitOwn", "waitSuspend", "waitTest", "waitClose"}
ReaderBarrierPlaces == ReaderBarrierScope \cup {"run", "waitOpen", "passOpen", "waitClear"}

Places == FifoPlaces \cup WriterBufferPlaces \cup ReaderBufferPlaces
                     \cup WriterBarrierPlaces \cup ReaderBarrierPlaces

(* Where a thread is inside a ceiling scope, and where it may sleep there. *)
InScope == FifoScope \cup WriterBufferScope \cup ReaderBufferScope
                     \cup WriterBarrierScope \cup ReaderBarrierScope
Sleeps == {"clear", "bufferClear", "waitTest"}

(* A thread has the ceiling priority exactly inside a scope.  As long as   *)
(* SysTick has switched nobody inside a scope, a thread that is in one and *)
(* does not sleep is the one that runs.                                    *)
ScopeInv ==
    /\ ready \subseteq Threads /\ currentThread \in ready \cup {idle}
    /\ pc \in [Threads -> Places] /\ priority \in [Threads -> Nat] /\ previous \in [Threads -> Nat]
    /\ switched \in BOOLEAN
    /\ \A t \in Threads :
        /\ pc[t] \in InScope => priority[t] = Ceiling /\ previous[t] < Ceiling
        /\ pc[t] \notin InScope => priority[t] < Ceiling
        /\ t \notin ready => pc[t] \in Sleeps \cup {"run"}
        /\ pc[t] \in InScope \ Sleeps /\ ~switched => currentThread = t
        /\ t \notin Both => pc[t] = "run"

-----------------------------------------------------------------------------
(* Between the test of the fifo and the suspension, and between the load   *)
(* of the peer and its resumption, the other side is kept out: it may only *)
(* leave its own scope, and then yields.                                   *)
Hot(t) == pc[t] \in FifoScope \ {"clear", "close"}

Exclusive ==
    \A t \in Both : Hot(t) =>
        /\ ~Hot(other(t))
        /\ currentThread = other(t) => pc[other(t)] \in {"clear", "close", "yield"}

GoingToSleep(t) == pc[t] \in {"register", "suspend"} \/ Asleep(t)

Wakes == \A t \in Both : GoingToSleep(t) /\ Possible(t) => AboutToResume(other(t))

FifoLocals ==
    /\ suspended \subseteq Both /\ peer \in [Both -> Both \cup {None}]
    /\ putOk \in BOOLEAN /\ getOk \in BOOLEAN
    /\ \A t \in Both :
        /\ t \in suspended <=> pc[t] \in {"suspend", "clear"}
        /\ pc[t] \in {"register", "suspend", "clear"} => ~ok(t)
        /\ pc[t] \in {"open", "load", "resume", "leave"} => ok(t)

(* The values in the fifo follow each other and the one that was got last. *)
Values == 0 .. SeqMod - 1
done == putOk /\ pc[writer] \in {"close", "yield", "again", "open", "load", "resume", "leave"}
newest == IF queue = << >> THEN got ELSE queue[Len(queue)]

Numbered ==
    /\ queue \in Seq(Values) /\ Len(queue) <= Capacity /\ got \in Values /\ sending \in Values
    /\ queue # << >> => queue[1] = next(got)
    /\ \A i \in 1 .. Len(queue) - 1 : queue[i + 1] = next(queue[i])
    /\ sending = IF done THEN newest ELSE next(newest)

FifoInv ==
    /\ \A t \in Both : pc[t] \in FifoPlaces
    /\ Exclusive /\ FifoLocals /\ Wakes /\ Numbered

-----------------------------------------------------------------------------
BufferInv ==
    /\ pc[writer] \in WriterBufferPlaces /\ pc[reader] \in ReaderBufferPlaces
    /\ suspendedReader = IF pc[reader] \in {"bufferSuspend", "bufferClear"} THEN reader ELSE None
    /\ newDataAvailable \in BOOLEAN /\ bufferOk \in BOOLEAN /\ target \in {reader, None}
    /\ ~newDataAvailable /\ pc[writer] # "bufferFlag" /\ (pc[reader] # "bufferCopy" \/ ~bufferOk) =>
            data = latest \/ mistaken
    /\ ~switched /\ newDataAvailable
         /\ (pc[reader] \in {"bufferRegister", "bufferSuspend"} \/ BufferAsleep) =>
            \/ pc[writer] \in {"bufferOpen", "bufferLoad"}
            \/ pc[writer] = "bufferResume" /\ target = reader

-----------------------------------------------------------------------------
(* What ended the suspension is what waitForSignal finds in owner, and     *)
(* what unblock leaves there.                                              *)
WaitAgrees ==
    /\ pc[reader] \in {"waitOpen", "passOpen", "waitOwn", "waitSuspend"} =>
            waitOk = TRUE /\ wakenBy = "nothing"
    /\ pc[reader] = "waitSuspend" => owner = reader
    /\ pc[reader] = "waitTest" =>
            /\ reader \notin ready => owner = reader /\ wakenBy = "nothing"
            /\ reader \in ready => wakenBy \in {"time", "signal"}
            /\ wakenBy = "time" => owner = reader
            /\ wakenBy = "signal" => owner = None \/ pc[writer] \in {"unblockAsk", "unblockClear"}
            /\ pc[writer] \in {"unblockAsk", "unblockClear"} => wakenBy = "signal"
    /\ pc[reader] \in {"waitClose", "waitClear", "run"} => (waitOk <=> wakenBy # "time")
    /\ pc[reader] \in {"waitClose", "waitClear"} /\ owner = reader => wakenBy = "time"

(* The pointer that unblock has followed is owner until this is cleared,   *)
(* and the result says whether there was one.                              *)
UnblockAgrees ==
    /\ pc[writer] \in {"run", "unblockOpen", "unblockTest", "unblockLoad"} => waiter = None
    /\ pc[writer] = "unblockLoad" => owner = reader
    /\ pc[writer] = "unblockResume" => owner = reader /\ waiter = reader
    /\ pc[writer] \in {"unblockAsk", "unblockClear"} => waiter = owner
    /\ pc[writer] = "unblockClear" => (unblockOk <=> owner # None)
    /\ pc[writer] = "unblockClose" =>
            /\ unblockOk <=> waiter # None
            /\ unblockOk => \/ pc[reader] = "waitTest" /\ wakenBy = "signal"
                            \/ pc[reader] = "waitClear" /\ wakenBy = "time"

Agreed == WaitAgrees /\ UnblockAgrees

BarrierInv ==
    /\ pc[writer] \in WriterBarrierPlaces /\ pc[reader] \in ReaderBarrierPlaces
    /\ owner \in {reader, None} /\ waiter \in {reader, None}
    /\ waitOk \in BOOLEAN /\ unblockOk \in BOOLEAN /\ wakenBy \in {"nothing", "time", "signal"}
    /\ owner = reader => InWait(reader)
    /\ ~switched => Agreed

-----------------------------------------------------------------------------
Inv ==
    /\ ScopeInv /\ uses \in {{"fifo"}, {"buffer"}, {"barrier"}}
    /\ IF uses = {"fifo"} THEN FifoInv ELSE FifoInit
    /\ IF uses = {"buffer"} THEN BufferInv ELSE BufferInit
    /\ IF uses = {"barrier"} THEN BarrierInv ELSE BarrierInit

-----------------------------------------------------------------------------
(* What the assumptions say of the two threads.                            *)
LEMMA Constants ==
    /\ writer \in Threads /\ reader \in Threads /\ writer # reader
    /\ idle \notin Threads /\ Ceiling \in Nat \ {0}
    /\ Both \subseteq Threads /\ \A t \in Both : other(t) \in Both /\ other(t) # t
BY CeilingScopeAssumption DEF Both, other

(* The scheduler activates a ready thread, or idle.                        *)
LEMMA DispatchReady ==
    ASSUME NEW rdy \in SUBSET Threads, Dispatched(rdy)
    PROVE  currentThread' \in rdy \cup {idle}
BY Zenon DEF Dispatched, findNextToRun, MostUrgent

(* When a ready thread is in a ceiling scope, so is the one activated.     *)
LEMMA DispatchScope ==
    ASSUME ScopeInv, NEW rdy \in SUBSET Threads, Dispatched(rdy),
           NEW t \in rdy, pc[t] \in InScope
    PROVE  currentThread' \in rdy /\ pc[currentThread'] \in InScope
<1>1. PICK u \in findNextToRun(rdy, priority, order) : currentThread' = u
  BY Zenon DEF Dispatched
<1>2. u \in rdy /\ (u # t => priority[t] < priority[u] \/ priority[t] = priority[u])
  BY <1>1, Zenon DEF findNextToRun, MostUrgent
<1>3. priority[t] = Ceiling /\ (pc[u] \in InScope \/ priority[u] < Ceiling)
      /\ priority[u] \in Nat /\ Ceiling \in Nat
  BY <1>2, Constants, Zenon DEF ScopeInv
<1>4. QED
  BY <1>1, <1>2, <1>3

(* The kinds of steps keep the scopes.                                     *)
Moves(t, from, to) ==
    at(t, from) /\ goto(t, to) /\ UNCHANGED <<dispatchVars, priority, ready, previous, switched>>

(* A thread that stays inside, or outside, its ceiling scope keeps         *)
(* ScopeInv,                                                               *)
LEMMA ScopeMove ==
    ASSUME ScopeInv, NEW t \in Both, NEW from \in Places, NEW to \in Places,
           from \in InScope <=> to \in InScope, Moves(t, from, to)
    PROVE  ScopeInv'
BY Constants, Zenon DEF ScopeInv, Moves, at, goto, dispatchVars

(* also when it stays on the processor;                                    *)
LEMMA ScopeStep ==
    ASSUME ScopeInv, NEW t \in Both, NEW from \in Places, NEW to \in Places,
           from \in InScope <=> to \in InScope, Step(t, from, to)
    PROVE  ScopeInv'
BY ScopeMove, Zenon DEF Step, Moves

(* so do the constructor of ScopePriority (thread.h:364),                  *)
LEMMA ScopeOpen ==
    ASSUME ScopeInv, NEW t \in Both, NEW from \in Places, NEW to \in Places,
           from \notin InScope, to \in InScope, OpenScope(t, from, to)
    PROVE  ScopeInv'
BY Constants, Zenon DEF ScopeInv, OpenScope, at, goto, dispatchVars

(* its destructor (thread.h:375),                                          *)
LEMMA ScopeClose ==
    ASSUME ScopeInv, NEW t \in Both, NEW from \in Places, NEW to \in Places,
           from \in InScope, to \notin InScope, CloseScope(t, from, to)
    PROVE  ScopeInv'
BY Constants, Zenon DEF ScopeInv, CloseScope, at, goto, dispatchVars

(* suspendCallerUntil, inside the scope of an object or in user code,      *)
LEMMA ScopeSuspend ==
    ASSUME ScopeInv, NEW t \in Threads, NEW from \in Places, NEW to \in Places,
           \/ t \in Both /\ from \in InScope /\ to \in InScope \cap Sleeps
           \/ from = "run" /\ to = "run",
           Suspend(t, from, to)
    PROVE  ScopeInv'
<1>1. ready' \in SUBSET Threads /\ Dispatched(ready')
  BY Zenon DEF ScopeInv, Suspend
<1>2. currentThread' \in ready' \cup {idle}
  BY <1>1, DispatchReady, Zenon
<1>3. "run" \notin InScope
  BY Zenon DEF InScope, FifoScope, WriterBufferScope, ReaderBufferScope, WriterBarrierScope,
         ReaderBarrierScope
<1>4. QED
  BY <1>2, <1>3, Constants, Zenon DEF ScopeInv, Suspend, at, goto

(* yield, which is called outside of scopes only,                          *)
LEMMA ScopeYield ==
    ASSUME ScopeInv, NEW t \in Both, NEW from \in Places, NEW to \in Places,
           from \notin InScope, to \notin InScope, Yield(t, from, to)
    PROVE  ScopeInv'
<1>1. currentThread' \in ready \cup {idle}
  BY DispatchReady, Zenon DEF ScopeInv, Yield
<1>2. QED
  BY <1>1, Constants, Zenon DEF ScopeInv, Yield, at, goto

(* resume, which is called inside a scope only,                            *)
LEMMA ScopeResume ==
    ASSUME ScopeInv, NEW t \in Both, NEW from \in Places, NEW to \in Places,
           from \in InScope, to \in InScope,
           NEW u \in Threads \cup {None}, Resume(t, u, from, to)
    PROVE  ScopeInv'
BY Constants, Zenon DEF ScopeInv, Resume, at, goto, dispatchVars, None

(* SysTick, which may switch threads,                                      *)
LEMMA ScopePreempt ==
    ASSUME ScopeInv, Preempt
    PROVE  ScopeInv'
<1>1. currentThread' \in ready \cup {idle}
  BY DispatchReady, Zenon DEF ScopeInv, Preempt
<1>2. QED
  BY <1>1, Constants, Zenon DEF ScopeInv, Preempt

(* and the end of the time of a suspension.                                *)
LEMMA ScopeWakeUp ==
    ASSUME ScopeInv, NEW t \in Threads, WakeUp(t)
    PROVE  ScopeInv'
BY Constants, Zenon DEF ScopeInv, WakeUp, dispatchVars

(* Which of the places lie in a scope.                                     *)
LEMMA Labels ==
    /\ FifoScope \subseteq InScope \cap Places /\ FifoPlaces \ FifoScope \subseteq Places \ InScope
    /\ WriterBufferScope \subseteq InScope \cap Places
    /\ WriterBufferPlaces \ WriterBufferScope \subseteq Places \ InScope
    /\ ReaderBufferScope \subseteq InScope \cap Places
    /\ ReaderBufferPlaces \ ReaderBufferScope \subseteq Places \ InScope
    /\ WriterBarrierScope \subseteq InScope \cap Places
    /\ WriterBarrierPlaces \ WriterBarrierScope \subseteq Places \ InScope
    /\ ReaderBarrierScope \subseteq InScope \cap Places
    /\ ReaderBarrierPlaces \ ReaderBarrierScope \subseteq Places \ InScope
BY DEF InScope, Places, FifoScope, FifoPlaces, WriterBufferScope, WriterBufferPlaces,
       ReaderBufferScope, ReaderBufferPlaces, WriterBarrierScope, WriterBarrierPlaces,
       ReaderBarrierScope, ReaderBarrierPlaces

(* Which places of syncPut and syncGet are inside the ceiling scope        *)
(* (fifo.h:195, 216),                                                      *)
LEMMA FifoScopes ==
    /\ {"try", "register", "suspend", "clear", "close", "load", "resume", "leave"}
            \subseteq InScope \cap Places
    /\ {"run", "yield", "again", "open"} \subseteq Places \ InScope
BY Labels, Zenon DEF FifoScope, FifoPlaces

(* which places of SyncCommBuffer (synccommbuffer.h:41, 69),               *)
LEMMA BufferScopes ==
    /\ {"bufferLoad", "bufferResume", "bufferLeave", "bufferTest", "bufferRegister",
        "bufferSuspend", "bufferClear", "bufferClose"} \subseteq InScope \cap Places
    /\ {"run", "bufferFlag", "bufferOpen", "bufferAsk", "bufferTake", "bufferCopy"}
            \subseteq Places \ InScope
BY Labels, Zenon DEF WriterBufferScope, WriterBufferPlaces, ReaderBufferScope, ReaderBufferPlaces

(* and which places of Barrier (barrier.cpp:28, 47).                       *)
LEMMA BarrierScopes ==
    /\ {"unblockTest", "unblockLoad", "unblockResume", "unblockAsk", "unblockClear", "unblockClose",
        "waitOwn", "waitSuspend", "waitTest", "waitClose"} \subseteq InScope \cap Places
    /\ {"run", "unblockOpen", "waitOpen", "passOpen", "waitClear"} \subseteq Places \ InScope
BY Labels, Zenon DEF WriterBarrierScope, WriterBarrierPlaces, ReaderBarrierScope, ReaderBarrierPlaces

(* Every step of a thread in a SyncFifo keeps the scopes.                  *)
LEMMA FifoKeepsScopes ==
    ASSUME ScopeInv, FifoLocals, NEW t \in Both, FifoStep(t)
    PROVE  ScopeInv'
<1> USE FifoScopes
<1>1. CASE fifoCall(t)
  BY <1>1, ScopeOpen, Zenon DEF fifoCall
<1>2. CASE putGeneric(t)
  <2> DEFINE to == IF ok(t)' THEN "open" ELSE "run"
  <2>1. Moves(t, "run", to)
    BY <1>2, Zenon DEF putGeneric, Moves
  <2>2. to \in Places \ InScope
    OBVIOUS
  <2> HIDE DEF to
  <2>3. QED
    BY <2>1, <2>2, ScopeMove, Zenon
<1>3. CASE fifoTry(t)
  <2> DEFINE to == IF ok(t)' THEN "close" ELSE "register"
  <2>1. Step(t, "try", to)
    BY <1>3, Zenon DEF fifoTry
  <2>2. to \in Places \cap InScope
    OBVIOUS
  <2> HIDE DEF to
  <2>3. QED
    BY <2>1, <2>2, ScopeStep, Zenon
<1>4. CASE fifoRegister(t)
  <2> DEFINE to == IF timeout[t] = "none" THEN "clear" ELSE "suspend"
  <2>1. Step(t, "register", to)
    BY <1>4, Zenon DEF fifoRegister
  <2>2. to \in Places \cap InScope
    OBVIOUS
  <2> HIDE DEF to
  <2>3. QED
    BY <2>1, <2>2, ScopeStep, Zenon
<1>5. CASE fifoSuspend(t)
  BY <1>5, ScopeSuspend, Constants, Zenon DEF fifoSuspend, Sleeps
<1>6. CASE fifoClear(t)
  BY <1>6, ScopeStep, Zenon DEF fifoClear
<1>7. CASE fifoClose(t)
  BY <1>7, ScopeClose, Zenon DEF fifoClose
<1>8. CASE fifoYield(t)
  BY <1>8, ScopeYield, Zenon DEF fifoYield
<1>9. CASE fifoAgain(t)
  <2> DEFINE to == IF ok(t)' THEN "open" ELSE "run"
  <2>1. Step(t, "again", to)
    BY <1>9, Zenon DEF fifoAgain
  <2>2. to \in Places \ InScope
    OBVIOUS
  <2> HIDE DEF to
  <2>3. QED
    BY <2>1, <2>2, ScopeStep, Zenon
<1>10. CASE fifoOpen(t)
  BY <1>10, ScopeOpen, Zenon DEF fifoOpen
<1>11. CASE fifoLoad(t)
  BY <1>11, ScopeStep, Zenon DEF fifoLoad
<1>12. CASE fifoResume(t)
  <2>1. peer[t] \in Threads \cup {None}
    BY Constants, Zenon DEF FifoLocals
  <2>2. QED
    BY <1>12, <2>1, ScopeResume, Zenon DEF fifoResume
<1>13. CASE fifoLeave(t)
  BY <1>13, ScopeClose, Zenon DEF fifoLeave
<1>14. QED
  BY <1>1, <1>2, <1>3, <1>4, <1>5, <1>6, <1>7, <1>8, <1>9, <1>10, <1>11, <1>12, <1>13, Zenon
  DEF FifoStep

(* Every step of a thread in a SyncCommBuffer keeps the scopes.            *)
LEMMA BufferKeepsScopes ==
    ASSUME ScopeInv, target \in {reader, None}, NEW t \in Both, BufferStep(t)
    PROVE  ScopeInv'
<1> USE BufferScopes
<1>1. CASE bufferPut(t)
  BY <1>1, ScopeStep, Zenon DEF bufferPut
<1>2. CASE bufferFlag(t)
  BY <1>2, ScopeStep, Zenon DEF bufferFlag
<1>3. CASE bufferOpen(t)
  BY <1>3, ScopeOpen, Zenon DEF bufferOpen
<1>4. CASE bufferLoad(t)
  BY <1>4, ScopeStep, Zenon DEF bufferLoad
<1>5. CASE bufferResume(t)
  BY <1>5, ScopeResume, Constants, Zenon DEF bufferResume
<1>6. CASE bufferLeave(t)
  BY <1>6, ScopeClose, Zenon DEF bufferLeave
<1>7. CASE bufferCall(t)
  BY <1>7, ScopeOpen, Zenon DEF bufferCall
<1>8. CASE bufferTest(t)
  <2> DEFINE to == IF newDataAvailable THEN "bufferClose" ELSE "bufferRegister"
  <2>1. Step(t, "bufferTest", to)
    BY <1>8, Zenon DEF bufferTest
  <2>2. to \in Places \cap InScope
    OBVIOUS
  <2> HIDE DEF to
  <2>3. QED
    BY <2>1, <2>2, ScopeStep, Zenon
<1>9. CASE bufferRegister(t)
  <2> DEFINE to == IF timeout[t] = "none" THEN "bufferClear" ELSE "bufferSuspend"
  <2>1. Step(t, "bufferRegister", to)
    BY <1>9, Zenon DEF bufferRegister
  <2>2. to \in Places \cap InScope
    OBVIOUS
  <2> HIDE DEF to
  <2>3. QED
    BY <2>1, <2>2, ScopeStep, Zenon
<1>10. CASE bufferSuspend(t)
  BY <1>10, ScopeSuspend, Constants, Zenon DEF bufferSuspend, Sleeps
<1>11. CASE bufferClear(t)
  BY <1>11, ScopeStep, Zenon DEF bufferClear
<1>12. CASE bufferClose(t)
  BY <1>12, ScopeClose, Zenon DEF bufferClose
<1>13. CASE bufferAsk(t)
  BY <1>13, ScopeStep, Zenon DEF bufferAsk
<1>14. CASE bufferTake(t)
  BY <1>14, ScopeStep, Zenon DEF bufferTake
<1>15. CASE bufferCopy(t)
  BY <1>15, ScopeStep, Zenon DEF bufferCopy
<1>16. CASE clearDataState(t)
  BY <1>16, ScopeStep, Zenon DEF clearDataState
<1>17. QED
  BY Zenon, <1>1, <1>2, <1>3, <1>4, <1>5, <1>6, <1>7, <1>8, <1>9, <1>10, <1>11, <1>12, <1>13,
     <1>14, <1>15, <1>16 DEF BufferStep

(* Every step of a thread in a Barrier keeps the scopes.                   *)
LEMMA BarrierKeepsScopes ==
    ASSUME ScopeInv, waiter \in {reader, None}, NEW t \in Both, BarrierStep(t)
    PROVE  ScopeInv'
<1> USE BarrierScopes
<1>1. CASE waitForSignal(t)
  <2>1. \E to \in {"run", "waitOpen", "passOpen"} : Moves(t, "run", to)
    <3>1. CASE owner # None
      <4>1. pc' = [pc EXCEPT ![t] = "run"]
        BY <1>1, <3>1, Zenon DEF waitForSignal, at, ScopeInv
      <4>2. QED
        BY <1>1, <3>1, <4>1, Zenon DEF waitForSignal, Moves, goto
    <3>2. CASE owner = None
      BY <1>1, <3>2, Zenon DEF waitForSignal, Moves
    <3>3. QED
      BY <3>1, <3>2, Zenon
  <2>2. QED
    BY <2>1, ScopeMove, Zenon
<1>2. CASE waitOpen(t)
  BY <1>2, ScopeOpen, Zenon DEF waitOpen
<1>3. CASE waitOwn(t)
  BY <1>3, ScopeStep, Zenon DEF waitOwn
<1>4. CASE waitSuspend(t)
  BY <1>4, ScopeSuspend, Constants, Zenon DEF waitSuspend, Sleeps
<1>5. CASE waitTest(t)
  BY <1>5, ScopeStep, Zenon DEF waitTest
<1>6. CASE waitClose(t)
  BY <1>6, ScopeClose, Zenon DEF waitClose
<1>7. CASE waitClear(t)
  BY <1>7, ScopeStep, Zenon DEF waitClear
<1>8. CASE unblock(t)
  <2> DEFINE to == IF owner = None THEN "run" ELSE "unblockOpen"
  <2>1. Moves(t, "run", to)
    <3>1. CASE owner # None
      BY <1>8, <3>1, Zenon DEF unblock, Moves
    <3>2. CASE owner = None
      <4>1. pc' = [pc EXCEPT ![t] = "run"]
        BY <1>8, <3>2, Zenon DEF unblock, at, ScopeInv
      <4>2. QED
        BY <1>8, <3>2, <4>1, Zenon DEF unblock, Moves, goto
    <3>3. QED
      BY <3>1, <3>2, Zenon
  <2>2. to \in Places \ InScope
    OBVIOUS
  <2> HIDE DEF to
  <2>3. QED
    BY <2>1, <2>2, ScopeMove, Zenon
<1>9. CASE unblockOpen(t)
  BY <1>9, ScopeOpen, Zenon DEF unblockOpen
<1>10. CASE unblockTest(t)
  <2> DEFINE to == IF owner # None THEN "unblockLoad" ELSE "unblockAsk"
  <2>1. Step(t, "unblockTest", to)
    BY <1>10, Zenon DEF unblockTest
  <2>2. to \in Places \cap InScope
    OBVIOUS
  <2> HIDE DEF to
  <2>3. QED
    BY <2>1, <2>2, ScopeStep, Zenon
<1>11. CASE unblockLoad(t)
  BY <1>11, ScopeStep, Zenon DEF unblockLoad
<1>12. CASE unblockResume(t)
  BY <1>12, ScopeResume, Constants, Zenon DEF unblockResume
<1>13. CASE unblockAsk(t)
  BY <1>13, ScopeStep, Zenon DEF unblockAsk
<1>14. CASE unblockClear(t)
  BY <1>14, ScopeStep, Zenon DEF unblockClear
<1>15. CASE unblockClose(t)
  BY <1>15, ScopeClose, Zenon DEF unblockClose
<1>16. QED
  BY <1>1, <1>2, <1>3, <1>4, <1>5, <1>6, <1>7, <1>8, <1>9, <1>10, <1>11, <1>12, <1>13, <1>14,
     <1>15, Zenon
  DEF BarrierStep

-----------------------------------------------------------------------------
(* SysTick, a rest and the end of a suspension leave the places alone, and *)
(* take nobody out of ready who is in a call.                              *)
Around ==
    /\ pc' = pc /\ (switched => switched') /\ switched' \in BOOLEAN
    /\ \A t \in Threads : t \in ready /\ pc[t] # "run" => t \in ready'

(* SysTick, a rest of user code and the end of a time-out happen around    *)
(* the objects: they change nothing that belongs to them.                  *)
LEMMA OthersAround ==
    ASSUME ScopeInv,
           \/ Preempt
           \/ \E t \in Threads : Rest(t) \/ WakeUp(t)
    PROVE  Around /\ ScopeInv'
<1>1. CASE Preempt
  BY <1>1, ScopePreempt, Zenon DEF Around, Preempt, ScopeInv
<1>2. ASSUME NEW t \in Threads, Rest(t)
      PROVE  Around /\ ScopeInv'
  <2>1. ScopeInv'
    BY <1>2, ScopeSuspend, FifoScopes, Zenon DEF Rest
  <2>2. pc' = pc
    BY <1>2, Zenon DEF Rest, Suspend, at, goto, ScopeInv
  <2>3. QED
    BY <1>2, <2>1, <2>2, Zenon DEF Rest, Suspend, at, Around, ScopeInv
<1>3. ASSUME NEW t \in Threads, WakeUp(t)
      PROVE  Around /\ ScopeInv'
  BY <1>3, ScopeWakeUp, Zenon DEF Around, WakeUp, ScopeInv
<1>4. QED
  BY <1>1, <1>2, <1>3, Zenon

(* While nobody is switched inside a scope, the thread that runs finds the *)
(* other one outside, or asleep.                                           *)
LEMMA KeptOut ==
    ASSUME ScopeInv, NEW t \in Both, currentThread = t, ~switched
    PROVE  pc[other(t)] \notin InScope \ Sleeps
BY Constants, Zenon DEF ScopeInv

-----------------------------------------------------------------------------
(* What happens around a SyncCommBuffer keeps its invariant.               *)
LEMMA BufferAround ==
    ASSUME BufferInv, Around, UNCHANGED bufferVars
    PROVE  BufferInv'
BY Constants, Zenon DEF BufferInv, Around, bufferVars, LatestSeen, BufferAsleep

(* What the writer does keeps the invariant of the SyncCommBuffer.         *)
LEMMA WriterKeepsBuffer ==
    ASSUME ScopeInv, BufferInv, BufferStep(writer)
    PROVE  BufferInv'
<1>1. pc \in [Threads -> Places] /\ writer \in Threads /\ reader \in Threads /\ writer # reader
      /\ reader # None
  BY Constants, Zenon DEF ScopeInv, None
<1>2. currentThread = writer /\ ~switched => pc[reader] \notin {"bufferRegister", "bufferSuspend"}
  BY KeptOut, BufferScopes, Constants, Zenon DEF Both, other, Sleeps
<1> USE <1>1, <1>2 DEF BufferInv, LatestSeen, BufferAsleep, at, goto, WriterBufferPlaces,
        WriterBufferScope
<1>3. CASE bufferPut(writer)
  BY <1>3, Zenon DEF bufferPut, Step, bufferVars
<1>4. CASE bufferFlag(writer)
  BY <1>4, Zenon DEF bufferFlag, Step, bufferVars
<1>5. CASE bufferOpen(writer)
  BY <1>5, Zenon DEF bufferOpen, OpenScope, bufferVars
<1>6. CASE bufferLoad(writer)
  BY <1>6, Zenon DEF bufferLoad, Step, bufferVars
<1>7. CASE bufferResume(writer)
  BY <1>7, Zenon DEF bufferResume, Resume, bufferVars, dispatchVars
<1>8. CASE bufferLeave(writer)
  BY <1>8, Zenon DEF bufferLeave, CloseScope, bufferVars
<1>9. ASSUME pc[writer] \in ReaderBufferPlaces \ {"run"}
      PROVE  FALSE
  BY <1>9, Zenon DEF ReaderBufferPlaces, ReaderBufferScope
<1>10. ~(bufferCall(writer)
        \/ bufferTest(writer)
        \/ bufferRegister(writer)
        \/ bufferSuspend(writer)
        \/ bufferClear(writer)
        \/ bufferClose(writer)
        \/ bufferAsk(writer)
        \/ bufferTake(writer)
        \/ bufferCopy(writer)
        \/ clearDataState(writer))
  BY <1>9 DEF bufferCall, bufferTest, bufferRegister, bufferSuspend, bufferClear, bufferClose, bufferAsk, bufferTake, bufferCopy, clearDataState,
         Step, OpenScope, CloseScope, Suspend, ReaderBufferPlaces, ReaderBufferScope
<1>11. QED
  BY <1>3, <1>4, <1>5, <1>6, <1>7, <1>8, <1>10, Zenon DEF BufferStep

(* What the reader does keeps the invariant of the SyncCommBuffer.         *)
LEMMA ReaderKeepsBuffer ==
    ASSUME ScopeInv, BufferInv, BufferStep(reader)
    PROVE  BufferInv'
<1>1. pc \in [Threads -> Places] /\ writer \in Threads /\ reader \in Threads /\ writer # reader
      /\ reader # None
  BY Constants, Zenon DEF ScopeInv, None
<1> USE <1>1 DEF BufferInv, LatestSeen, BufferAsleep, at, goto, ReaderBufferPlaces,
        ReaderBufferScope
<1>2. CASE bufferCall(reader)
  BY <1>2, Zenon DEF bufferCall, OpenScope, bufferVars
<1>3. CASE bufferTest(reader)
  BY <1>3, Zenon DEF bufferTest, Step, bufferVars
<1>4. CASE bufferRegister(reader)
  BY <1>4, Zenon DEF bufferRegister, Step, bufferVars
<1>5. CASE bufferSuspend(reader)
  BY <1>5, Zenon DEF bufferSuspend, Suspend, bufferVars
<1>6. CASE bufferClear(reader)
  BY <1>6, Zenon DEF bufferClear, Step, bufferVars
<1>7. CASE bufferClose(reader)
  BY <1>7, Zenon DEF bufferClose, CloseScope, bufferVars
<1>8. CASE bufferAsk(reader)
  BY <1>8, Zenon DEF bufferAsk, Step, bufferVars
<1>9. CASE bufferTake(reader)
  BY <1>9, Zenon DEF bufferTake, Step, bufferVars
<1>10. CASE bufferCopy(reader)
  BY <1>10, Zenon DEF bufferCopy, Step, bufferVars
<1>11. CASE clearDataState(reader)
  BY <1>11, Zenon DEF clearDataState, Step, bufferVars
<1>12. ~(bufferPut(reader)
        \/ bufferFlag(reader)
        \/ bufferOpen(reader)
        \/ bufferLoad(reader)
        \/ bufferResume(reader)
        \/ bufferLeave(reader))
  BY Zenon DEF bufferPut, bufferFlag, bufferOpen, bufferLoad, bufferResume, bufferLeave,
         Step, OpenScope, CloseScope, Resume
<1>13. QED
  BY <1>2, <1>3, <1>4, <1>5, <1>6, <1>7, <1>8, <1>9, <1>10, <1>11, <1>12, Zenon DEF BufferStep
-----------------------------------------------------------------------------
(* SysTick and rests of user code keep the invariant of a Barrier.         *)
LEMMA TickKeepsBarrier ==
    ASSUME ScopeInv, BarrierInv, UNCHANGED barrierVars,
           Preempt \/ \E t \in Threads : Rest(t)
    PROVE  BarrierInv'
<1>1. Around
  BY OthersAround, Zenon
<1>2. pc[reader] = "waitTest" => (reader \in ready <=> reader \in ready')
  BY Constants, Zenon DEF Preempt, Rest, Suspend, at, ScopeInv
<1>3. QED
  BY <1>1, <1>2, Constants, Zenon DEF BarrierInv, Agreed, WaitAgrees, UnblockAgrees, InWait, Around, barrierVars

(* The end of a suspension in time is recorded in wakenBy.                 *)
LEMMA TimeKeepsBarrier ==
    ASSUME ScopeInv, BarrierInv, NEW t \in Threads, BarrierTimeOut(t)
    PROVE  BarrierInv'
<1>1. pc[t] = "waitTest" => t = reader
  BY Constants, Zenon DEF ScopeInv, BarrierInv, WriterBarrierPlaces, WriterBarrierScope, Both
<1>2. QED
  BY <1>1, Constants, Zenon DEF BarrierInv, Agreed, WaitAgrees, UnblockAgrees, InWait,
     BarrierTimeOut, WakeUp, None, dispatchVars

(* What the writer does keeps the invariant of the Barrier.                *)
LEMMA WriterKeepsBarrier ==
    ASSUME ScopeInv, BarrierInv, BarrierStep(writer)
    PROVE  BarrierInv'
<1>1. pc \in [Threads -> Places] /\ writer \in Threads /\ reader \in Threads /\ writer # reader
      /\ reader # None
  BY Constants, Zenon DEF ScopeInv, None
<1>2. currentThread = writer /\ ~switched => pc[reader] \notin {"waitOwn", "waitSuspend", "waitClose"}
  BY KeptOut, BarrierScopes, Constants, Zenon DEF Both, other, Sleeps
<1> USE <1>1, <1>2 DEF BarrierInv, Agreed, WaitAgrees, UnblockAgrees, InWait, at, goto,
        WriterBarrierPlaces, WriterBarrierScope
<1>3. CASE unblock(writer)
  BY <1>3, Zenon DEF unblock, barrierVars
<1>4. CASE unblockOpen(writer)
  BY <1>4, Zenon DEF unblockOpen, OpenScope, barrierVars
<1>5. CASE unblockTest(writer)
  BY <1>5, Zenon DEF unblockTest, Step, barrierVars
<1>6. CASE unblockLoad(writer)
  BY <1>6, Zenon DEF unblockLoad, Step, barrierVars
<1>7. CASE unblockResume(writer)
  <2>1. /\ pc[writer] = "unblockResume" /\ currentThread = writer /\ switched' = switched
        /\ pc'[writer] = "unblockAsk" /\ pc'[reader] = pc[reader]
        /\ UNCHANGED <<owner, waitOk, unblockOk, waiter>>
    BY <1>7, Zenon DEF unblockResume, Resume
  <2>2. wakenBy' \in {"nothing", "time", "signal"}
    BY <1>7, Zenon DEF unblockResume
  <2>3. ~switched => /\ owner = reader /\ waiter = reader /\ reader \in ready'
                     /\ wakenBy' = IF pc[reader] = "waitTest" THEN "signal" ELSE wakenBy
    BY <1>7, <2>1, Zenon DEF unblockResume, Resume
  <2>4. ASSUME ~switched
        PROVE  WaitAgrees'
    <3>1. pc[reader] \in {"waitTest", "waitClear"}
      BY <2>1, <2>3, <2>4, Zenon
    <3>2. CASE pc[reader] = "waitTest"
      BY <2>1, <2>3, <2>4, <3>2, Zenon
    <3>3. CASE pc[reader] = "waitClear"
      BY <2>1, <2>3, <2>4, <3>3, Zenon
    <3>4. QED
      BY <3>1, <3>2, <3>3, Zenon
  <2>5. ~switched => UnblockAgrees'
    BY ONLY <2>1, <2>3, Zenon DEF UnblockAgrees
  <2>6. QED
    BY <2>1, <2>2, <2>4, <2>5, Zenon
<1>8. CASE unblockAsk(writer)
  BY <1>8, Zenon DEF unblockAsk, Step, barrierVars
<1>9. CASE unblockClear(writer)
  BY <1>9, Zenon DEF unblockClear, Step, barrierVars
<1>10. CASE unblockClose(writer)
  BY <1>10, Zenon DEF unblockClose, CloseScope, barrierVars
<1>11. ~(waitForSignal(writer)
        \/ waitOpen(writer)
        \/ waitOwn(writer)
        \/ waitSuspend(writer)
        \/ waitTest(writer)
        \/ waitClose(writer)
        \/ waitClear(writer))
  BY Zenon DEF waitForSignal, waitOpen, waitOwn, waitSuspend, waitTest, waitClose, waitClear,
         Step, OpenScope, CloseScope, Suspend
<1>12. QED
  BY <1>3, <1>4, <1>5, <1>6, <1>7, <1>8, <1>9, <1>10, <1>11, Zenon DEF BarrierStep

(* What the reader does keeps the invariant of the Barrier.                *)
LEMMA ReaderKeepsBarrier ==
    ASSUME ScopeInv, BarrierInv, BarrierStep(reader)
    PROVE  BarrierInv'
<1>1. pc \in [Threads -> Places] /\ writer \in Threads /\ reader \in Threads /\ writer # reader
      /\ reader # None /\ ready \subseteq Threads /\ currentThread \in ready \cup {idle}
      /\ idle \notin Threads
  BY Constants, Zenon DEF ScopeInv, None
<1>2. currentThread = reader /\ ~switched =>
        pc[writer] \notin {"unblockTest", "unblockLoad", "unblockResume", "unblockAsk",
                           "unblockClear", "unblockClose"}
  BY KeptOut, BarrierScopes, Constants, Zenon DEF Both, other, Sleeps
<1> USE <1>1, <1>2 DEF BarrierInv, Agreed, WaitAgrees, UnblockAgrees, InWait, at, goto,
        ReaderBarrierPlaces, ReaderBarrierScope
<1>3. CASE waitForSignal(reader)
  BY <1>3, Zenon DEF waitForSignal, barrierVars
<1>4. CASE waitOpen(reader)
  BY <1>4, Zenon DEF waitOpen, OpenScope, barrierVars
<1>5. CASE waitOwn(reader)
  BY <1>5, Zenon DEF waitOwn, Step, barrierVars
<1>6. CASE waitSuspend(reader)
  BY <1>6, Zenon DEF waitSuspend, Suspend, barrierVars
<1>7. CASE waitTest(reader)
  BY <1>7, Zenon DEF waitTest, Step, barrierVars
<1>8. CASE waitClose(reader)
  BY <1>8, Zenon DEF waitClose, CloseScope, barrierVars
<1>9. CASE waitClear(reader)
  BY <1>9, Zenon DEF waitClear, Step, barrierVars
<1>10. ~(unblock(reader)
        \/ unblockOpen(reader)
        \/ unblockTest(reader)
        \/ unblockLoad(reader)
        \/ unblockResume(reader)
        \/ unblockAsk(reader)
        \/ unblockClear(reader)
        \/ unblockClose(reader))
  BY Zenon DEF unblock, unblockOpen, unblockTest, unblockLoad, unblockResume, unblockAsk,
         unblockClear, unblockClose, Step, OpenScope, CloseScope, Resume
<1>11. QED
  BY <1>3, <1>4, <1>5, <1>6, <1>7, <1>8, <1>9, <1>10, Zenon DEF BarrierStep
-----------------------------------------------------------------------------
(* The number after a number of a value is one, too.                       *)
LEMMA NextValue ==
    ASSUME NEW v \in Values
    PROVE  next(v) \in Values
<1>1. SeqMod \in Nat /\ SeqMod > 0 /\ v + 1 \in Nat
  BY SyncFifoAssumption DEF Values
<1>2. QED
  BY <1>1 DEF next, Values

(* A put appends the value the writer is at, which follows the newest one. *)
LEMMA PutNumbered ==
    ASSUME Numbered, ~done, Q!Put(sending), sending' = sending, done'
    PROVE  Numbered'
<1> DEFINE n == Len(queue)
<1>1. queue \in Seq(Values) /\ n \in Nat /\ sending \in Values /\ got' = got /\ n < Capacity
      /\ Capacity \in Nat /\ queue' = Append(queue, sending)
  BY SyncFifoAssumption DEF Numbered, Q!Put
<1>2. queue' \in Seq(Values) /\ Len(queue') = n + 1 /\ queue'[n + 1] = sending
      /\ \A i \in 1 .. n : queue'[i] = queue[i]
  BY <1>1
<1>3. queue = << >> <=> n = 0
  BY <1>1
<1>4. sending = next(newest)
  BY Zenon DEF Numbered
<1>5. queue' # << >> => queue'[1] = next(got')
  <2>1. CASE n = 0
    BY <2>1, <1>1, <1>2, <1>3, <1>4 DEF newest
  <2>2. CASE n # 0
    BY <2>2, <1>1, <1>2, <1>3 DEF Numbered
  <2>3. QED
    BY <2>1, <2>2, Zenon
<1>6. ASSUME NEW i \in 1 .. Len(queue') - 1
      PROVE  queue'[i + 1] = next(queue'[i])
  <2>1. CASE i = n
    BY <2>1, <1>1, <1>2, <1>3, <1>4, <1>6 DEF newest
  <2>2. CASE i # n
    <3>1. i \in 1 .. n - 1 /\ i \in 1 .. n /\ i + 1 \in 1 .. n
      BY <2>2, <1>1, <1>2, <1>6
    <3>2. QED
      BY <3>1, <1>2, Zenon DEF Numbered
  <2>3. QED
    BY <2>1, <2>2, Zenon
<1>7. newest' = sending
  BY <1>1, <1>2 DEF newest
<1>8. QED
  BY <1>1, <1>2, <1>5, <1>6, <1>7 DEF Numbered

(* A get takes the value that follows the one got last.                    *)
LEMMA GetNumbered ==
    ASSUME Numbered, Q!Get, sending' = sending, done' <=> done
    PROVE  Numbered'
<1> DEFINE n == Len(queue)
<1>1. queue \in Seq(Values) /\ n \in Nat /\ n > 0 /\ got' = queue[1] /\ n <= Capacity
      /\ Capacity \in Nat /\ queue' = Tail(queue)
  BY SyncFifoAssumption DEF Numbered, Q!Get
<1>2. queue' \in Seq(Values) /\ Len(queue') = n - 1
      /\ \A i \in 1 .. n - 1 : queue'[i] = queue[i + 1]
  BY <1>1
<1>3. queue' = << >> <=> n = 1
  BY <1>1, <1>2
<1>4. queue' # << >> => queue'[1] = next(got')
  BY <1>1, <1>2, <1>3 DEF Numbered
<1>5. ASSUME NEW i \in 1 .. Len(queue') - 1
      PROVE  queue'[i + 1] = next(queue'[i])
  <2>1. i \in 1 .. n - 1 /\ i + 1 \in 1 .. n - 1
    BY <1>1, <1>2, <1>5
  <2>2. QED
    BY <2>1, <1>2, Zenon DEF Numbered
<1>6. newest' = newest
  <2>1. newest = queue[n]
    BY <1>1 DEF newest
  <2>2. CASE n = 1
    BY <2>1, <2>2, <1>1, <1>3, Zenon DEF newest
  <2>3. CASE n # 1
    <3>1. n - 1 \in 1 .. n - 1 /\ (n - 1) + 1 = n
      <4>1. ASSUME NEW m \in Nat, m > 0, m # 1
            PROVE  m - 1 \in 1 .. m - 1 /\ (m - 1) + 1 = m
        BY ONLY <4>1
      <4>2. QED
        BY <4>1, <2>3, <1>1, Zenon
    <3>2. queue'[n - 1] = queue[n]
      BY <3>1, <1>2, Zenon
    <3>3. QED
      BY <2>1, <2>3, <3>2, <1>2, <1>3, Zenon DEF newest
  <2>4. QED
    BY <2>2, <2>3, Zenon
<1>7. got' \in Values
  BY <1>1
<1>8. QED
  BY <1>1, <1>2, <1>4, <1>5, <1>6, <1>7 DEF Numbered

(* A step that touches neither the queue nor the values of the callers     *)
(* keeps the values numbered.                                              *)
LEMMA SameNumbered ==
    ASSUME Numbered, UNCHANGED <<queue, got, sending>>, done' <=> done
    PROVE  Numbered'
BY Zenon DEF Numbered, newest

(* The writer goes on to the next value.                                   *)
LEMMA NextNumbered ==
    ASSUME Numbered, UNCHANGED <<queue, got>>, done, ~done', sending' = next(sending)
    PROVE  Numbered'
BY NextValue, Zenon DEF Numbered, newest

-----------------------------------------------------------------------------
(* The thread that runs, unless it leaves a scope or yields, keeps the     *)
(* other one out of what must not be interrupted.                          *)
LEMMA OtherNotHot ==
    ASSUME Exclusive, NEW t \in Both, currentThread = t, pc[t] \notin {"clear", "close", "yield"}
    PROVE  ~Hot(other(t))
BY Constants, Zenon DEF Exclusive, Both, other

(* What a step of the running thread may do without letting the other side *)
(* in between its test and its suspension, or its load and its resume.     *)
LEMMA ExclusiveKept ==
    ASSUME ScopeInv, Exclusive, NEW t \in Both, NEW to, currentThread = t, goto(t, to),
           \/ pc[t] \notin {"clear", "close", "yield"} /\ currentThread' = t
           \/ pc[t] \notin {"clear", "close", "yield"} /\ to \in {"clear", "close", "yield"}
           \/ to \in {"close", "yield"} /\ currentThread' = t
    PROVE  Exclusive'
<1>1. /\ t \in Threads /\ other(t) \in Both /\ other(t) \in Threads /\ other(t) # t
      /\ other(other(t)) = t /\ \A u \in Both : u = t \/ u = other(t)
  BY Constants, Zenon DEF Both, other
<1>2. pc'[t] = to /\ pc'[other(t)] = pc[other(t)]
  BY <1>1, Zenon DEF ScopeInv, goto
<1>3. pc[t] \notin {"clear", "close", "yield"} => ~Hot(other(t))
  BY OtherNotHot, Zenon
<1>4. to \in {"clear", "close", "yield"} => ~Hot(t)'
  BY <1>2, Zenon DEF Hot, FifoScope
<1>5. Hot(other(t))' <=> Hot(other(t))
  BY <1>2, Zenon DEF Hot, other
<1>6. SUFFICES ASSUME NEW u \in Both, Hot(u)'
               PROVE  /\ ~Hot(other(u))'
                      /\ currentThread' = other(u) => pc'[other(u)] \in {"clear", "close", "yield"}
  BY Zenon DEF Exclusive, Hot, other
<1>7. CASE u = t
  BY <1>1, <1>2, <1>3, <1>4, <1>5, <1>6, <1>7, Zenon DEF Hot
<1>8. CASE u = other(t)
  BY <1>1, <1>2, <1>3, <1>4, <1>5, <1>6, <1>8, Zenon DEF Hot
<1>9. QED
  BY <1>1, <1>7, <1>8, Zenon

(* Nobody is scheduled in the middle of what the other one must not        *)
(* interrupt.                                                              *)
LEMMA ExclusiveDispatched ==
    ASSUME ScopeInv, \A t \in Both : pc[t] \in FifoPlaces, Exclusive,
           NEW rdy \in SUBSET Threads, Dispatched(rdy),
           \A t \in Both : pc'[t] = pc[t] \/ (pc[t] = "yield" /\ pc'[t] = "again"),
           \A t \in Both : Hot(t) => t \in rdy
    PROVE  Exclusive'
<1>1. SUFFICES ASSUME NEW u \in Both, Hot(u)'
               PROVE  /\ ~Hot(other(u))'
                      /\ currentThread' = other(u) => pc'[other(u)] \in {"clear", "close", "yield"}
  BY Zenon DEF Exclusive, Hot, other
<1>2. \A t \in Both : Hot(t)' => Hot(t)
  BY Zenon DEF Hot, FifoScope
<1>3. Hot(u) /\ ~Hot(other(u)) /\ other(u) \in Both /\ u \in rdy
  BY <1>1, <1>2, Constants, Zenon DEF Exclusive
<1>4. ~Hot(other(u))'
  BY <1>2, <1>3, Zenon DEF Hot, other
<1>5. pc[u] \in InScope
  BY <1>3, Labels, Zenon DEF Hot
<1>6. pc[currentThread'] \in InScope
  BY <1>3, <1>5, DispatchScope, Zenon
<1>7. ASSUME currentThread' = other(u)
      PROVE  pc'[other(u)] \in {"clear", "close", "yield"}
  <2>1. pc[other(u)] \in FifoScope
    BY <1>3, <1>6, <1>7, Labels, Zenon
  <2>2. pc[other(u)] \in {"clear", "close"}
    BY <2>1, <1>3, Zenon DEF Hot
  <2>3. QED
    BY <2>2, <1>3, Zenon
<1>8. QED
  BY <1>4, <1>7, Zenon
-----------------------------------------------------------------------------
(* The two threads, seen from the one that steps.                          *)
LEMMA Pair ==
    ASSUME NEW t \in Both
    PROVE  /\ t \in Threads /\ other(t) \in Both /\ other(t) \in Threads /\ other(t) # t
           /\ other(other(t)) = t /\ \A v \in Both : v = t \/ v = other(t)
BY Constants, Zenon DEF Both, other

(* put and get report what they did, and fail only when the fifo is full,  *)
(* or empty.                                                               *)
LEMMA Transferred ==
    ASSUME Numbered, NEW t \in Both, Transfer(t)
    PROVE  /\ ok(t)' \in BOOLEAN /\ ok(other(t))' = ok(other(t))
           /\ ~ok(t)' => UNCHANGED <<queue, got>> /\ ~Possible(t)
<1>1. Len(queue) \in Nat /\ Capacity \in Nat /\ writer # reader
  BY SyncFifoAssumption, Constants DEF Numbered
<1>2. CASE t = writer
  <2>1. Q!Put(sending) \/ Q!PutFull
    BY <1>2, Zenon DEF Transfer
  <2>2. ok(t) = putOk /\ ok(t)' = putOk' /\ ok(other(t)) = getOk /\ ok(other(t))' = getOk'
    BY <1>1, <1>2, Zenon DEF ok, other
  <2>3. CASE Q!Put(sending)
    BY <2>2, <2>3, Zenon DEF Q!Put
  <2>4. CASE Q!PutFull
    <3>1. UNCHANGED <<queue, got, getOk>> /\ putOk' = FALSE /\ Len(queue) = Capacity
      BY <2>4, Zenon DEF Q!PutFull
    <3>2. ~Possible(t)
      BY <1>1, <1>2, <3>1 DEF Possible
    <3>3. QED
      BY <2>2, <3>1, <3>2, Zenon
  <2>5. QED
    BY <2>1, <2>3, <2>4, Zenon
<1>3. CASE t = reader
  BY <1>1, <1>3, Zenon DEF Transfer, ok, other, Possible, Q!Get, Q!GetEmpty
<1>4. QED
  BY <1>2, <1>3, Zenon DEF Both

(* Every step in a SyncFifo keeps the two sides apart.                     *)
LEMMA ExclusiveStep ==
    ASSUME ScopeInv, FifoInv, NEW t \in Both, FifoStep(t)
    PROVE  Exclusive'
<1>1. Exclusive /\ \A v \in Both : pc[v] \in FifoPlaces
  BY Zenon DEF FifoInv
<1> USE <1>1, ExclusiveKept, Pair DEF at, dispatchVars
<1>2. CASE fifoCall(t)
  BY <1>2, Zenon DEF fifoCall, OpenScope
<1>3. CASE putGeneric(t)
  BY <1>3, Zenon DEF putGeneric
<1>4. CASE fifoTry(t)
  BY <1>4, Zenon DEF fifoTry, Step
<1>5. CASE fifoRegister(t)
  BY <1>5, Zenon DEF fifoRegister, Step
<1>6. CASE fifoSuspend(t)
  BY <1>6, Zenon DEF fifoSuspend, Suspend
<1>7. CASE fifoClear(t)
  BY <1>7, Zenon DEF fifoClear, Step
<1>8. CASE fifoClose(t)
  BY <1>8, Zenon DEF fifoClose, CloseScope
<1>9. CASE fifoYield(t)
  <2>1. Dispatched(ready) /\ ready \in SUBSET Threads /\ goto(t, "again") /\ pc[t] = "yield"
    BY <1>9, Zenon DEF fifoYield, Yield, ScopeInv
  <2>2. \A v \in Both : pc'[v] = pc[v] \/ (pc[v] = "yield" /\ pc'[v] = "again")
    BY <2>1, Zenon DEF goto, ScopeInv
  <2>3. \A v \in Both : Hot(v) => v \in ready
    BY Pair, Zenon DEF Hot, FifoScope, ScopeInv, Sleeps
  <2>4. QED
    BY <2>1, <2>2, <2>3, ExclusiveDispatched, Zenon
<1>10. CASE fifoAgain(t)
  BY <1>10, Zenon DEF fifoAgain, Step
<1>11. CASE fifoOpen(t)
  BY <1>11, Zenon DEF fifoOpen, OpenScope
<1>12. CASE fifoLoad(t)
  BY <1>12, Zenon DEF fifoLoad, Step
<1>13. CASE fifoResume(t)
  BY <1>13, Zenon DEF fifoResume, Resume
<1>14. CASE fifoLeave(t)
  BY <1>14, Zenon DEF fifoLeave, CloseScope
<1>15. QED
  BY <1>2, <1>3, <1>4, <1>5, <1>6, <1>7, <1>8, <1>9, <1>10, <1>11, <1>12, <1>13, <1>14, Zenon DEF FifoStep

(* Every step in a SyncFifo keeps the locals and the pointers.             *)
LEMMA LocalsStep ==
    ASSUME ScopeInv, FifoInv, NEW t \in Both, FifoStep(t)
    PROVE  FifoLocals' /\ \A v \in Both : pc'[v] \in FifoPlaces
<1>1. /\ FifoLocals /\ Numbered /\ pc \in [Threads -> Places]
      /\ \A v \in Both : pc[v] \in FifoPlaces
  BY Zenon DEF FifoInv, ScopeInv
<1>2. /\ t \in Threads /\ other(t) \in Both /\ other(t) \in Threads /\ other(t) # t
      /\ \A v \in Both : v = t \/ v = other(t)
  BY Pair, Zenon
<1> USE <1>1, <1>2 DEF FifoLocals, at, goto, fifoVars, FifoPlaces, FifoScope, ok
<1>3. CASE fifoCall(t)
  BY <1>3 DEF fifoCall, OpenScope
<1>4. CASE putGeneric(t)
  BY <1>4, Transferred DEF putGeneric
<1>5. CASE fifoTry(t)
  <2>1. CASE t = writer
    BY <1>5, <2>1, Constants, Zenon DEF fifoTry, Step, Transfer, Q!Put, Q!PutFull
  <2>2. CASE t = reader
    <3>1. UNCHANGED putOk /\ getOk' \in BOOLEAN
      BY <1>5, <2>2, Constants, Zenon DEF fifoTry, Transfer, Q!Get, Q!GetEmpty
    <3>2. pc' = [pc EXCEPT ![t] = IF getOk' THEN "close" ELSE "register"] /\ UNCHANGED <<suspended, peer>>
          /\ pc[t] = "try"
      BY <1>5, <2>2, Constants, Zenon DEF fifoTry, Step
    <3>3. QED
      BY <2>2, <3>1, <3>2, Constants DEF other
  <2>3. QED
    BY <2>1, <2>2, Zenon DEF Both
<1>6. CASE fifoRegister(t)
  BY <1>6 DEF fifoRegister, Step
<1>7. CASE fifoSuspend(t)
  BY <1>7 DEF fifoSuspend, Suspend
<1>8. CASE fifoClear(t)
  BY <1>8 DEF fifoClear, Step
<1>9. CASE fifoClose(t)
  BY <1>9 DEF fifoClose, CloseScope
<1>10. CASE fifoYield(t)
  BY <1>10 DEF fifoYield, Yield
<1>11. CASE fifoAgain(t)
  <2>1. CASE t = writer
    BY <1>11, <2>1, Constants, Zenon DEF fifoAgain, Step, Transfer, Q!Put, Q!PutFull
  <2>2. CASE t = reader
    <3>1. UNCHANGED putOk /\ getOk' \in BOOLEAN
      BY <1>11, <2>2, Constants, Zenon DEF fifoAgain, Transfer, Q!Get, Q!GetEmpty
    <3>2. pc' = [pc EXCEPT ![t] = IF getOk' THEN "open" ELSE "run"] /\ UNCHANGED <<suspended, peer>>
          /\ pc[t] = "again"
      BY <1>11, <2>2, Constants, Zenon DEF fifoAgain, Step
    <3>3. QED
      BY <2>2, <3>1, <3>2, Constants, Zenon DEF other
  <2>3. QED
    BY <2>1, <2>2, Zenon DEF Both
<1>12. CASE fifoOpen(t)
  BY <1>12 DEF fifoOpen, OpenScope
<1>13. CASE fifoLoad(t)
  BY <1>13 DEF fifoLoad, Step
<1>14. CASE fifoResume(t)
  BY <1>14 DEF fifoResume, Resume
<1>15. CASE fifoLeave(t)
  BY <1>15 DEF fifoLeave, CloseScope
<1>16. QED
  BY <1>3, <1>4, <1>5, <1>6, <1>7, <1>8, <1>9, <1>10, <1>11, <1>12, <1>13, <1>14, <1>15, Zenon DEF FifoStep

(* Every step in a SyncFifo keeps what the sleeper relies on.              *)
LEMMA WakesStep ==
    ASSUME ScopeInv, FifoInv, NEW t \in Both, FifoStep(t)
    PROVE  Wakes'
<1> DEFINE u == other(t)
<1>1. /\ FifoLocals /\ Numbered /\ Wakes /\ pc \in [Threads -> Places] /\ peer \in [Both -> Both \cup {None}]
  BY Zenon DEF FifoInv, ScopeInv, FifoLocals
<1>2. /\ t \in Threads /\ u \in Both /\ u \in Threads /\ u # t
      /\ other(u) = t /\ \A v \in Both : v = t \/ v = u
  BY Pair, Zenon
<1>3. currentThread = t /\ pc[t] \notin {"clear", "close", "yield"} => pc[u] \notin {"register", "suspend"}
  BY OtherNotHot, Zenon DEF FifoInv, Hot, FifoScope
<1>4. currentThread = t => t \in ready
  BY <1>2, Constants, Zenon DEF ScopeInv
<1>5. CASE fifoCall(t)
  BY <1>5, <1>1, <1>2, <1>3, <1>4
  DEF fifoCall, OpenScope, Wakes, FifoLocals, GoingToSleep, Asleep, Possible, AboutToResume, at, goto, fifoVars, dispatchVars, ok
<1>6. CASE putGeneric(t)
  BY <1>6, <1>1, <1>2, <1>3, <1>4, Transferred
  DEF putGeneric, Wakes, FifoLocals, GoingToSleep, Asleep, Possible, AboutToResume, at, goto, fifoVars, dispatchVars, ok
<1>7. CASE fifoTry(t)
  BY <1>7, <1>1, <1>2, <1>3, <1>4, Transferred
  DEF fifoTry, Step, Wakes, FifoLocals, GoingToSleep, Asleep, Possible, AboutToResume, at, goto, fifoVars, dispatchVars, ok
<1>8. CASE fifoRegister(t)
  BY <1>8, <1>1, <1>2, <1>3, <1>4
  DEF fifoRegister, Step, Wakes, FifoLocals, GoingToSleep, Asleep, Possible, AboutToResume, at, goto, fifoVars, dispatchVars, ok
<1>9. CASE fifoSuspend(t)
  BY <1>9, <1>1, <1>2, <1>3, <1>4
  DEF fifoSuspend, Suspend, Wakes, FifoLocals, GoingToSleep, Asleep, Possible, AboutToResume, at, goto, fifoVars, dispatchVars, ok
<1>10. CASE fifoClear(t)
  BY <1>10, <1>1, <1>2, <1>3, <1>4
  DEF fifoClear, Step, Wakes, FifoLocals, GoingToSleep, Asleep, Possible, AboutToResume, at, goto, fifoVars, dispatchVars, ok
<1>11. CASE fifoClose(t)
  BY <1>11, <1>1, <1>2, <1>3, <1>4
  DEF fifoClose, CloseScope, Wakes, FifoLocals, GoingToSleep, Asleep, Possible, AboutToResume, at, goto, fifoVars, dispatchVars, ok
<1>12. CASE fifoYield(t)
  BY <1>12, <1>1, <1>2, <1>3, <1>4
  DEF fifoYield, Yield, Wakes, FifoLocals, GoingToSleep, Asleep, Possible, AboutToResume, at, goto, fifoVars, dispatchVars, ok
<1>13. CASE fifoAgain(t)
  BY <1>13, <1>1, <1>2, <1>3, <1>4, Transferred
  DEF fifoAgain, Step, Wakes, FifoLocals, GoingToSleep, Asleep, Possible, AboutToResume, at, goto, fifoVars, dispatchVars, ok
<1>14. CASE fifoOpen(t)
  BY <1>14, <1>1, <1>2, <1>3, <1>4
  DEF fifoOpen, OpenScope, Wakes, FifoLocals, GoingToSleep, Asleep, Possible, AboutToResume, at, goto, fifoVars, dispatchVars, ok
<1>15. CASE fifoLoad(t)
  BY <1>15, <1>1, <1>2, <1>3, <1>4
  DEF fifoLoad, Step, Wakes, FifoLocals, GoingToSleep, Asleep, Possible, AboutToResume, at, goto, fifoVars, dispatchVars, ok
<1>16. CASE fifoResume(t)
  <2>1. pc' = [pc EXCEPT ![t] = "leave"] /\ pc[t] = "resume" /\ currentThread = t
        /\ ready' = ready \cup ({peer[t]} \ {None}) /\ queue' = queue
    BY <1>16, Zenon DEF fifoResume, Resume, at, goto
  <2>2. ~GoingToSleep(t)'
    BY <2>1, <1>2, <1>1, Zenon DEF GoingToSleep, Asleep
  <2>3. ASSUME GoingToSleep(u)', Possible(u)'
        PROVE  FALSE
    <3>1. pc'[u] = pc[u] /\ pc[u] \notin {"register", "suspend"}
      BY <2>1, <1>1, <1>2, <1>3, Zenon
    <3>2. Asleep(u) /\ u \notin ready' /\ Possible(u)
      BY <3>1, <2>1, <2>3, Zenon DEF GoingToSleep, Asleep, Possible, other
    <3>3. AboutToResume(t)
      BY <3>2, <1>1, <1>2, Zenon DEF Wakes, GoingToSleep
    <3>4. peer[t] = u /\ u # None
      BY <3>3, <2>1, <1>2, Constants, Zenon DEF AboutToResume, None
    <3>5. QED
      BY <3>2, <3>4, <2>1, Zenon
  <2>4. QED
    BY <2>2, <2>3, <1>2, Zenon DEF Wakes, GoingToSleep, Asleep, Possible, other
<1>17. CASE fifoLeave(t)
  BY <1>17, <1>1, <1>2, <1>3, <1>4
  DEF fifoLeave, CloseScope, Wakes, FifoLocals, GoingToSleep, Asleep, Possible, AboutToResume, at, goto, fifoVars, dispatchVars, ok
<1>18. QED
  BY <1>5, <1>6, <1>7, <1>8, <1>9, <1>10, <1>11, <1>12, <1>13, <1>14, <1>15, <1>16, <1>17, Zenon DEF FifoStep

(* Every step in a SyncFifo keeps the order of the values.                 *)
LEMMA NumberedStep ==
    ASSUME ScopeInv, FifoInv, NEW t \in Both, FifoStep(t)
    PROVE  Numbered'
<1>1. /\ FifoLocals /\ Numbered /\ pc \in [Threads -> Places]
  BY Zenon DEF FifoInv, ScopeInv
<1>2. t \in Threads /\ writer \in Threads /\ reader \in Threads /\ writer # reader /\ t \in {writer, reader}
  BY Pair, Constants, Zenon DEF Both
<1>3. CASE fifoCall(t)
  BY <1>3, <1>1, <1>2, SameNumbered, PutNumbered, GetNumbered, NextNumbered, Zenon
  DEF fifoCall, OpenScope, FifoLocals, Transfer, Q!PutFull, Q!GetEmpty, Q!Put, Q!Get, done, at, goto, fifoVars, ok, Both
<1>4. CASE putGeneric(t)
  BY <1>4, <1>1, <1>2, SameNumbered, PutNumbered, GetNumbered, NextNumbered, Zenon
  DEF putGeneric, FifoLocals, Transfer, Q!PutFull, Q!GetEmpty, Q!Put, Q!Get, done, at, goto, fifoVars, ok, Both
<1>5. CASE fifoTry(t)
  BY <1>5, <1>1, <1>2, SameNumbered, PutNumbered, GetNumbered, NextNumbered, Zenon
  DEF fifoTry, Step, FifoLocals, Transfer, Q!PutFull, Q!GetEmpty, Q!Put, Q!Get, done, at, goto, fifoVars, ok, Both
<1>6. CASE fifoRegister(t)
  BY <1>6, <1>1, <1>2, SameNumbered, PutNumbered, GetNumbered, NextNumbered, Zenon
  DEF fifoRegister, Step, FifoLocals, Transfer, Q!PutFull, Q!GetEmpty, Q!Put, Q!Get, done, at, goto, fifoVars, ok, Both
<1>7. CASE fifoSuspend(t)
  BY <1>7, <1>1, <1>2, SameNumbered, PutNumbered, GetNumbered, NextNumbered, Zenon
  DEF fifoSuspend, Suspend, FifoLocals, Transfer, Q!PutFull, Q!GetEmpty, Q!Put, Q!Get, done, at, goto, fifoVars, ok, Both
<1>8. CASE fifoClear(t)
  BY <1>8, <1>1, <1>2, SameNumbered, PutNumbered, GetNumbered, NextNumbered, Zenon
  DEF fifoClear, Step, FifoLocals, Transfer, Q!PutFull, Q!GetEmpty, Q!Put, Q!Get, done, at, goto, fifoVars, ok, Both
<1>9. CASE fifoClose(t)
  BY <1>9, <1>1, <1>2, SameNumbered, PutNumbered, GetNumbered, NextNumbered, Zenon
  DEF fifoClose, CloseScope, FifoLocals, Transfer, Q!PutFull, Q!GetEmpty, Q!Put, Q!Get, done, at, goto, fifoVars, ok, Both
<1>10. CASE fifoYield(t)
  BY <1>10, <1>1, <1>2, SameNumbered, PutNumbered, GetNumbered, NextNumbered, Zenon
  DEF fifoYield, Yield, FifoLocals, Transfer, Q!PutFull, Q!GetEmpty, Q!Put, Q!Get, done, at, goto, fifoVars, ok, Both
<1>11. CASE fifoAgain(t)
  BY <1>11, <1>1, <1>2, SameNumbered, PutNumbered, GetNumbered, NextNumbered, Zenon
  DEF fifoAgain, Step, FifoLocals, Transfer, Q!PutFull, Q!GetEmpty, Q!Put, Q!Get, done, at, goto, fifoVars, ok, Both
<1>12. CASE fifoOpen(t)
  BY <1>12, <1>1, <1>2, SameNumbered, PutNumbered, GetNumbered, NextNumbered, Zenon
  DEF fifoOpen, OpenScope, FifoLocals, Transfer, Q!PutFull, Q!GetEmpty, Q!Put, Q!Get, done, at, goto, fifoVars, ok, Both
<1>13. CASE fifoLoad(t)
  BY <1>13, <1>1, <1>2, SameNumbered, PutNumbered, GetNumbered, NextNumbered, Zenon
  DEF fifoLoad, Step, FifoLocals, Transfer, Q!PutFull, Q!GetEmpty, Q!Put, Q!Get, done, at, goto, fifoVars, ok, Both
<1>14. CASE fifoResume(t)
  BY <1>14, <1>1, <1>2, SameNumbered, PutNumbered, GetNumbered, NextNumbered, Zenon
  DEF fifoResume, Resume, FifoLocals, Transfer, Q!PutFull, Q!GetEmpty, Q!Put, Q!Get, done, at, goto, fifoVars, ok, Both
<1>15. CASE fifoLeave(t)
  BY <1>15, <1>1, <1>2, SameNumbered, PutNumbered, GetNumbered, NextNumbered, Zenon
  DEF fifoLeave, CloseScope, FifoLocals, Transfer, Q!PutFull, Q!GetEmpty, Q!Put, Q!Get, done, at, goto, fifoVars, ok, Both
<1>16. QED
  BY <1>3, <1>4, <1>5, <1>6, <1>7, <1>8, <1>9, <1>10, <1>11, <1>12, <1>13, <1>14, <1>15, Zenon DEF FifoStep
(* SysTick, a rest and the end of a suspension keep the invariant of the   *)
(* SyncFifo.                                                               *)
LEMMA OthersKeepFifo ==
    ASSUME ScopeInv, FifoInv, UNCHANGED fifoVars,
           \/ Preempt
           \/ \E t \in Threads : Rest(t) \/ WakeUp(t)
    PROVE  FifoInv'
<1>1. Around /\ Both \subseteq Threads
  BY OthersAround, Constants, Zenon
<1>2. FifoLocals' /\ Numbered' /\ \A t \in Both : pc'[t] \in FifoPlaces
  BY <1>1, SameNumbered, Zenon DEF FifoInv, FifoLocals, Around, fifoVars, ok, done
<1>3. \A t \in Both : GoingToSleep(t)' => GoingToSleep(t)
  BY <1>1, Zenon DEF GoingToSleep, Asleep, Around
<1>4. Wakes'
  BY <1>1, <1>3, Zenon DEF FifoInv, Wakes, Possible, AboutToResume, Around, fifoVars, ok, other
<1>5. Exclusive'
  <2>1. \A t \in Both : Hot(t) => t \in ready /\ pc[t] # "run"
    BY <1>1, Zenon DEF Hot, FifoScope, ScopeInv, Sleeps
  <2>2. pc' = pc
    BY <1>1, Zenon DEF Around
  <2>3. CASE Preempt
    BY <2>1, <2>2, <2>3, ExclusiveDispatched, Zenon DEF Preempt, FifoInv, ScopeInv
  <2>4. ASSUME NEW t \in Threads, Rest(t)
        PROVE  Exclusive'
    <3>1. Dispatched(ready \ {t}) /\ pc[t] = "run" /\ ready \ {t} \in SUBSET Threads
      BY <2>4, Zenon DEF Rest, Suspend, at, ScopeInv
    <3>2. \A v \in Both : Hot(v) => v \in ready \ {t}
      BY <3>1, <2>1, Zenon
    <3>3. QED
      BY <3>1, <3>2, <2>2, ExclusiveDispatched, Zenon DEF FifoInv
  <2>5. ASSUME NEW t \in Threads, WakeUp(t)
        PROVE  Exclusive'
    BY <2>2, <2>5, Zenon DEF WakeUp, dispatchVars, FifoInv, Exclusive, Hot, other
  <2>6. QED
    BY <2>3, <2>4, <2>5, Zenon
<1>6. QED
  BY <1>2, <1>4, <1>5, Zenon DEF FifoInv

-----------------------------------------------------------------------------
(* The constructors establish the invariant.                               *)
LEMMA Starts ==
    ASSUME Init
    PROVE  Inv
<1>1. /\ pc = [t \in Threads |-> "run"] /\ ready = Threads /\ currentThread = idle
      /\ priority \in [Threads -> Priorities] /\ previous = [t \in Threads |-> 0]
      /\ switched = FALSE
  BY Zenon DEF Init, ScopeInit
<1>2. ScopeInv
  BY <1>1, CeilingScopeAssumption, FifoScopes, Zenon DEF ScopeInv
<1>3. writer \in Threads /\ reader \in Threads /\ writer # reader /\ reader # None
      /\ pc[writer] = "run" /\ pc[reader] = "run" /\ \A t \in Both : t \in {writer, reader}
  BY <1>1, Constants, Zenon DEF None, Both
<1>4. FifoInv
  <2>1. Numbered
    <3>1. SeqMod - 1 \in Values /\ 0 \in Values /\ Capacity \in Nat /\ next(SeqMod - 1) = 0
      BY SyncFifoAssumption DEF Values, next
    <3>2. queue = << >> /\ got = SeqMod - 1 /\ sending = 0 /\ ~done
      BY <1>3, Zenon DEF Init, FifoInit, done
    <3>3. QED
      BY <3>1, <3>2 DEF Numbered, newest
  <2>2. Exclusive /\ Wakes
    BY <1>3, Zenon DEF Exclusive, Wakes, Hot, FifoScope, GoingToSleep, Asleep
  <2>3. FifoLocals
    BY <1>3, Zenon DEF Init, FifoInit, FifoLocals, Both, ok
  <2>4. QED
    BY <1>3, <2>1, <2>2, <2>3, Zenon DEF FifoInv, FifoPlaces
<1>5. BufferInv
  BY <1>3, Zenon DEF Init, BufferInit, BufferInv, WriterBufferPlaces, ReaderBufferPlaces, BufferAsleep
<1>6. BarrierInv
  BY <1>3, Zenon DEF Init, BarrierInit, BarrierInv, Agreed, WaitAgrees, UnblockAgrees,
     WriterBarrierPlaces, ReaderBarrierPlaces
<1>7. QED
  BY <1>2, <1>4, <1>5, <1>6, ProgramsAssumption, Zenon DEF Init, Inv

(* Every step of the composition keeps the invariant.                      *)
LEMMA StepKeeps ==
    ASSUME Inv, [Next]_vars
    PROVE  Inv'
<1>1. ScopeInv /\ uses \in {{"fifo"}, {"buffer"}, {"barrier"}}
  BY Zenon DEF Inv
<1>2. CASE Tick \/ \E t \in Threads : Pause(t) \/ TimeReached(t)
  <2>1. /\ Preempt \/ \E t \in Threads : Rest(t) \/ WakeUp(t)
        /\ UNCHANGED <<fifoVars, bufferVars, uses>>
    BY <1>2, Zenon DEF Tick, Pause, TimeReached, BarrierTimeOut, objectVars
  <2>2. Around /\ ScopeInv'
    BY <1>1, <2>1, OthersAround, Zenon
  <2>3. IF uses' = {"fifo"} THEN FifoInv' ELSE FifoInit'
    BY <1>1, <2>1, OthersKeepFifo, Zenon DEF Inv, FifoInit, fifoVars
  <2>4. IF uses' = {"buffer"} THEN BufferInv' ELSE BufferInit'
    BY <1>1, <2>1, <2>2, BufferAround, Zenon DEF Inv, BufferInit, bufferVars
  <2>5. IF uses' = {"barrier"} THEN BarrierInv' ELSE BarrierInit'
    <3>1. CASE uses = {"barrier"}
      <4>1. BarrierInv
        BY <3>1, Zenon DEF Inv
      <4>2. CASE Tick \/ \E t \in Threads : Pause(t)
        BY <3>1, <4>1, <4>2, <1>1, TickKeepsBarrier, Zenon DEF Tick, Pause, objectVars
      <4>3. CASE \E t \in Threads : TimeReached(t)
        BY <3>1, <4>1, <4>3, <1>1, TimeKeepsBarrier, Zenon DEF TimeReached
      <4>4. QED
        BY <1>2, <4>2, <4>3, Zenon
    <3>2. CASE uses # {"barrier"}
      <4>1. UNCHANGED barrierVars
        <5>1. \A t \in Threads : pc[t] # "waitTest"
          BY <1>1, <3>2, Constants, Zenon DEF Inv, FifoInv, BufferInv, ScopeInv, Both, FifoPlaces,
             FifoScope, WriterBufferPlaces, WriterBufferScope, ReaderBufferPlaces, ReaderBufferScope
        <5>2. QED
          BY <5>1, <1>2, Zenon DEF Tick, Pause, TimeReached, BarrierTimeOut, objectVars, barrierVars
      <4>2. QED
        BY <3>2, <4>1, <2>1, Zenon DEF Inv, BarrierInit, barrierVars
    <3>3. QED
      BY <3>1, <3>2, Zenon
  <2>6. QED
    BY <1>1, <2>1, <2>2, <2>3, <2>4, <2>5, Zenon DEF Inv
<1>3. ASSUME NEW t \in Both, Run(t)
      PROVE  Inv'
  <2>1. uses' = uses
    BY <1>3, Zenon DEF Run
  <2>2. CASE uses = {"fifo"}
    <3>1. FifoInv /\ BufferInit /\ BarrierInit
      BY <2>2, Zenon DEF Inv
    <3>2. FifoStep(t) /\ UNCHANGED <<bufferVars, barrierVars>>
      BY <1>3, <2>2, Zenon DEF Run
    <3>3. BufferInit' /\ BarrierInit'
      BY <3>1, <3>2, Zenon DEF BufferInit, BarrierInit, bufferVars, barrierVars
    <3>4. ScopeInv'
      BY <1>1, <3>1, <3>2, FifoKeepsScopes, Zenon DEF FifoInv
    <3>5. FifoInv'
      BY <1>1, <3>1, <3>2, ExclusiveStep, LocalsStep, WakesStep, NumberedStep, Zenon DEF FifoInv
    <3>6. QED
      BY <1>1, <2>1, <2>2, <3>3, <3>4, <3>5, Zenon DEF Inv
  <2>3. CASE uses = {"buffer"}
    <3>1. BufferInv /\ FifoInit /\ BarrierInit
      BY <2>3, Zenon DEF Inv
    <3>2. BufferStep(t) /\ UNCHANGED <<fifoVars, barrierVars>>
      BY <1>3, <2>3, Zenon DEF Run
    <3>3. FifoInit' /\ BarrierInit'
      BY <3>1, <3>2, Zenon DEF FifoInit, BarrierInit, fifoVars, barrierVars
    <3>4. ScopeInv'
      BY <1>1, <3>1, <3>2, BufferKeepsScopes, Zenon DEF BufferInv
    <3>5. BufferInv'
      BY <1>1, <3>1, <3>2, WriterKeepsBuffer, ReaderKeepsBuffer, Zenon DEF Both
    <3>6. QED
      BY <1>1, <2>1, <2>3, <3>3, <3>4, <3>5, Zenon DEF Inv
  <2>4. CASE uses = {"barrier"}
    <3>1. BarrierInv /\ FifoInit /\ BufferInit
      BY <2>4, Zenon DEF Inv
    <3>2. BarrierStep(t) /\ UNCHANGED <<fifoVars, bufferVars>>
      BY <1>3, <2>4, Zenon DEF Run
    <3>3. FifoInit' /\ BufferInit'
      BY <3>1, <3>2, Zenon DEF FifoInit, BufferInit, fifoVars, bufferVars
    <3>4. ScopeInv'
      BY <1>1, <3>1, <3>2, BarrierKeepsScopes, Zenon DEF BarrierInv
    <3>5. BarrierInv'
      BY <1>1, <3>1, <3>2, WriterKeepsBarrier, ReaderKeepsBarrier, Zenon DEF Both
    <3>6. QED
      BY <1>1, <2>1, <2>4, <3>3, <3>4, <3>5, Zenon DEF Inv
  <2>5. QED
    BY <1>1, <2>2, <2>3, <2>4, Zenon
<1>4. CASE UNCHANGED vars
  <2>1. UNCHANGED <<scopeVars, fifoVars, bufferVars, barrierVars, uses>>
    BY <1>4, Zenon DEF vars, objectVars
  <2>2. ScopeInv' /\ (FifoInit => FifoInit') /\ (BufferInit => BufferInit') /\ (BarrierInit => BarrierInit')
    BY <1>1, <2>1, Zenon DEF ScopeInv, FifoInit, BufferInit, BarrierInit, scopeVars, dispatchVars,
       fifoVars, bufferVars, barrierVars
  <2>3. FifoInv => FifoInv'
    BY <2>1 DEF FifoInv, Exclusive, Hot, FifoLocals, Wakes, GoingToSleep, Asleep, Possible,
       AboutToResume, Numbered, done, newest, ok, other, scopeVars, dispatchVars, fifoVars
  <2>4. BufferInv => BufferInv'
    BY <2>1, Zenon DEF BufferInv, LatestSeen, BufferAsleep, scopeVars, dispatchVars, bufferVars
  <2>5. BarrierInv => BarrierInv'
    BY <2>1, Zenon DEF BarrierInv, Agreed, WaitAgrees, UnblockAgrees, InWait, scopeVars, dispatchVars, barrierVars
  <2>6. QED
    BY <2>1, <2>2, <2>3, <2>4, <2>5, Zenon DEF Inv
<1>5. QED
  BY <1>2, <1>3, <1>4, Zenon DEF Next, Both

(* The invariant holds in every behaviour.                                 *)
LEMMA Invariance == Spec => []Inv
BY Starts, StepKeeps, PTL DEF Spec

-----------------------------------------------------------------------------
(* A thread never sleeps in syncPut or syncGet while the fifo has what it  *)
(* waits for, unless the other side is about to resume it.                 *)
THEOREM FifoWakesUp == Spec => []NoMissedWakeUp
<1>1. Inv => NoMissedWakeUp
  <2>1. CASE Inv /\ uses = {"fifo"}
    BY <2>1, Zenon DEF Inv, FifoInv, Wakes, NoMissedWakeUp, GoingToSleep, Both
  <2>2. CASE Inv /\ uses # {"fifo"}
    <3>1. pc[writer] # "clear" /\ pc[reader] # "clear"
      BY <2>2, Zenon DEF Inv, BufferInv, BarrierInv, WriterBufferPlaces, WriterBufferScope,
         ReaderBufferPlaces, ReaderBufferScope, WriterBarrierPlaces, WriterBarrierScope,
         ReaderBarrierPlaces, ReaderBarrierScope
    <3>2. QED
      BY <3>1, Zenon DEF NoMissedWakeUp, Asleep
  <2>3. QED
    BY <2>1, <2>2, Zenon
<1>2. QED
  BY <1>1, Invariance, PTL

(* Every value for which syncPut or putGeneric returned true is in the     *)
(* fifo once and in order; one for which it returned false is not.         *)
THEOREM FifoStoresOnce == Spec => []StoredOnce
<1> DEFINE all == <<got>> \o queue
<1>1. Inv => Numbered
  <2>1. CASE Inv /\ uses = {"fifo"}
    BY <2>1, Zenon DEF Inv, FifoInv
  <2>2. CASE Inv /\ uses # {"fifo"}
    <3>1. ~done
      BY <2>2, Zenon DEF Inv, BufferInv, BarrierInv, WriterBufferPlaces, WriterBufferScope,
         WriterBarrierPlaces, WriterBarrierScope, done
    <3>2. SeqMod - 1 \in Values /\ 0 \in Values /\ Capacity \in Nat /\ next(SeqMod - 1) = 0
      BY SyncFifoAssumption DEF Values, next
    <3>3. QED
      BY <2>2, <3>1, <3>2 DEF Inv, FifoInit, Numbered, newest
  <2>3. QED
    BY <2>1, <2>2, Zenon
<1>2. ASSUME Numbered
      PROVE  StoredOnce
  <2>1. queue \in Seq(Values) /\ Len(queue) \in Nat /\ got \in Values
    BY <1>2 DEF Numbered
  <2>2. Len(all) = Len(queue) + 1 /\ all[1] = got /\ \A i \in 1 .. Len(queue) : all[i + 1] = queue[i]
    BY <2>1
  <2>3. ASSUME NEW i \in 1 .. Len(all) - 1
        PROVE  all[i + 1] = next(all[i])
    <3>1. CASE i = 1
      BY <3>1, <1>2, <2>1, <2>2, <2>3 DEF Numbered
    <3>2. CASE i # 1
      <4>1. i - 1 \in 1 .. Len(queue) - 1 /\ i \in 1 .. Len(queue) /\ i - 1 \in 1 .. Len(queue)
            /\ (i - 1) + 1 = i
        BY <3>2, <2>1, <2>2, <2>3
      <4>2. all[i + 1] = queue[i] /\ all[i] = queue[i - 1]
        BY <4>1, <2>2, Zenon
      <4>3. QED
        BY <4>1, <4>2, <1>2, Zenon DEF Numbered
    <3>3. QED
      BY <3>1, <3>2, Zenon
  <2>4. all[Len(all)] = newest
    BY <2>1, <2>2 DEF newest
  <2>5. QED
    BY <1>2, <2>3, <2>4, Zenon DEF StoredOnce, Numbered, done
<1>3. QED
  BY <1>1, <1>2, Invariance, PTL

(* The reader never sleeps in syncGet while there is new data, unless the  *)
(* writer is about to resume it.                                           *)
THEOREM ReaderWakesUp == Spec => []BufferWakesUp
<1>1. Inv => BufferWakesUp
  <2>1. CASE Inv /\ uses = {"buffer"}
    BY <2>1, Zenon DEF Inv, BufferInv, BufferWakesUp
  <2>2. CASE Inv /\ uses # {"buffer"}
    BY <2>2, Zenon DEF Inv, BufferInit, BufferWakesUp
  <2>3. QED
    BY <2>1, <2>2, Zenon
<1>2. QED
  BY <1>1, Invariance, PTL

(* When the flag is down and nobody is between the value and the flag, the *)
(* reader has been given the latest value with true, unless this value was *)
(* announced just before the flag was cleared (synccommbuffer.h:84-85).    *)
THEOREM ReaderSeesLatest == Spec => []LatestSeen
<1>1. Inv => LatestSeen
  <2>1. CASE Inv /\ uses = {"buffer"}
    BY <2>1, Zenon DEF Inv, BufferInv, LatestSeen
  <2>2. CASE Inv /\ uses # {"buffer"}
    BY <2>2, Zenon DEF Inv, BufferInit, LatestSeen
  <2>3. QED
    BY <2>1, <2>2, Zenon
<1>2. QED
  BY <1>1, Invariance, PTL

(* The owner of a Barrier is in waitForSignal, and so is the thread that   *)
(* unblock resumes as long as SysTick switches nobody inside a ceiling     *)
(* scope (barrier.cpp:48).                                                 *)
THEOREM UnblocksOnlyWaiters == Spec => []OwnerWaits
<1>1. Inv => OwnerWaits
  <2>1. CASE Inv /\ uses = {"barrier"}
    BY <2>1, Constants, Zenon DEF Inv, BarrierInv, Agreed, UnblockAgrees, OwnerWaits, None
  <2>2. CASE Inv /\ uses # {"barrier"}
    <3>1. pc[writer] # "unblockResume"
      BY <2>2, Constants, Zenon DEF Inv, FifoInv, BufferInv, Both, FifoPlaces, FifoScope,
         WriterBufferPlaces, WriterBufferScope
    <3>2. QED
      BY <2>2, <3>1, Zenon DEF Inv, BarrierInit, OwnerWaits
  <2>3. QED
    BY <2>1, <2>2, Zenon
<1>2. QED
  BY <1>1, Invariance, PTL

(* waitForSignal returns false exactly after a timeout, a waiter is known  *)
(* to unblock, and unblock returns true exactly if it has resumed one,     *)
(* which then returns true or has timed out, as long as SysTick switches   *)
(* nobody inside a ceiling scope.                                          *)
THEOREM BarrierAgrees == Spec => []SignalsAgree
<1>1. Inv => SignalsAgree
  <2>1. CASE Inv /\ uses = {"barrier"}
    BY <2>1, Zenon DEF Inv, BarrierInv, Agreed, WaitAgrees, UnblockAgrees, SignalsAgree
  <2>2. CASE Inv /\ uses # {"barrier"}
    <3>1. pc[reader] # "waitTest" /\ pc[writer] # "unblockClose"
      BY <2>2, Constants, Zenon DEF Inv, FifoInv, BufferInv, Both, FifoPlaces, FifoScope,
         WriterBufferPlaces, WriterBufferScope, ReaderBufferPlaces, ReaderBufferScope
    <3>2. QED
      BY <2>2, <3>1, Zenon DEF Inv, BarrierInit, SignalsAgree
  <2>3. QED
    BY <2>1, <2>2, Zenon
<1>2. QED
  BY <1>1, Invariance, PTL
=============================================================================
