-------------------------------- MODULE Sync --------------------------------
(***************************************************************************)
(* One writer and one reader that share a SyncFifo, a SyncCommBuffer or a  *)
(* Barrier; "uses" says which.  Other threads only run and rest.           *)
(***************************************************************************)
EXTENDS SyncFifo, SyncCommBuffer, Barrier

CONSTANT Programs   \* the sets of objects that are looked at

ASSUME ProgramsAssumption == Programs \subseteq {{"fifo"}, {"buffer"}, {"barrier"}}

VARIABLE uses

objectVars == <<fifoVars, bufferVars, barrierVars, uses>>
vars == <<scopeVars, objectVars>>

Init == ScopeInit /\ FifoInit /\ BufferInit /\ BarrierInit /\ uses \in Programs

Run(t) ==
    /\ \/ "fifo" \in uses /\ FifoStep(t) /\ UNCHANGED <<bufferVars, barrierVars>>
       \/ "buffer" \in uses /\ BufferStep(t) /\ UNCHANGED <<fifoVars, barrierVars>>
       \/ "barrier" \in uses /\ BarrierStep(t) /\ UNCHANGED <<fifoVars, bufferVars>>
    /\ UNCHANGED uses

Tick == Preempt /\ UNCHANGED objectVars
Pause(t) == Rest(t) /\ UNCHANGED objectVars
TimeReached(t) == BarrierTimeOut(t) /\ UNCHANGED <<fifoVars, bufferVars, uses>>

Next ==
    \/ Tick
    \/ \E t \in {writer, reader} : Run(t)
    \/ \E t \in Threads : Pause(t) \/ TimeReached(t)

(* The processor executes the running thread, SysTick comes again and      *)
(* again, and time passes.                                                 *)
Spec ==
    /\ Init /\ [][Next]_vars
    /\ WF_vars(Tick) /\ WF_vars(\E t \in {writer, reader} : Run(t))
    /\ \A t \in Threads : WF_vars(TimeReached(t))

-----------------------------------------------------------------------------
(* A thread that sleeps in syncPut or syncGet of a SyncFifo is resumed     *)
(* when the fifo has room, or an element (fifo.h:218, 255).                *)
EventuallyServed ==
    \A t \in {writer, reader} : Asleep(t) /\ Possible(t) ~> ~Asleep(t)
=============================================================================
