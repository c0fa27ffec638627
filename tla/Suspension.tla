----------------------------- MODULE Suspension -----------------------------
(***************************************************************************)
(* How threads wait: for their next beat (src/independent/thread.cpp) and  *)
(* for an I/O interface with a time-out (src/independent/genericIO.cpp).   *)
(* Interrupts resume them at any moment: the device's up-calls, and the    *)
(* handler of a time event.  The threads' steps come in any order, as the  *)
(* scheduler pleases, and time passes between any two of them.             *)
(***************************************************************************)
EXTENDS TimeEvent

CONSTANTS Threads, none,
          Readers,          \* the threads that use the I/O interface
          Events,           \* what they wait for: read or write finished, data ready
          Resumed,          \* the thread that the time event's handler resumes
          Begins, Periods,  \* the arguments of setPeriodicBeat
          Timeouts,         \* reactivationTime - NOW()
          MaxTime           \* bound

ASSUME SuspensionAssumption ==
    /\ none \notin Threads \cup Events /\ Readers \subseteq Threads /\ Resumed \in Threads
    /\ MaxTime \in Nat \ {0} /\ MaxTime < EndOfTime
    /\ Begins \subseteq Nat /\ Periods \subseteq Nat \ {0} /\ Timeouts \subseteq Nat

VARIABLES suspendedUntil, pc,
          nextBeat, beatPeriod,   \* Thread::nextBeat and Thread::period
          waitsFor,               \* the event a thread waits for in suspendUntil...
          caller,                 \* callerReadFinished, callerWriteFinished, callerDataReady
          finished,               \* isReadFinished, isWriteFinished, isDataReady
          begin, returnedAt       \* history: of setPeriodicBeat and suspendUntilNextBeat

beatVars == <<nextBeat, beatPeriod, begin, returnedAt>>
ioVars == <<waitsFor, caller, finished>>
suspensionVars == <<now, eventVars, suspendedUntil, pc, beatVars, ioVars>>

SuspensionInit ==
    /\ now = 1 /\ EventInit
    /\ suspendedUntil = [t \in Threads |-> 0] /\ pc = [t \in Threads |-> "run"]
    /\ nextBeat = [t \in Threads |-> 0] /\ beatPeriod = [t \in Threads |-> 0]
    /\ waitsFor = [t \in Threads |-> none] /\ caller = [e \in Events |-> none]
    /\ finished = [e \in Events |-> FALSE]
    /\ begin = [t \in Threads |-> 0] /\ returnedAt = [t \in Threads |-> 0]

Ready(t) == suspendedUntil[t] < now

(* suspendCallerUntil: the stores; the thread goes on when it is ready.    *)
Suspend(t, time, label) ==
    /\ suspendedUntil' = [suspendedUntil EXCEPT ![t] = time]
    /\ pc' = [pc EXCEPT ![t] = label]

resume(t) == suspendedUntil' = [suspendedUntil EXCEPT ![t] = 0]

-----------------------------------------------------------------------------
(* Beats.                                                                  *)
setPeriodicBeat(t, b, p) ==
    /\ pc[t] = "run"
    /\ nextBeat' = [nextBeat EXCEPT ![t] = b] /\ begin' = [begin EXCEPT ![t] = b]
    /\ beatPeriod' = [beatPeriod EXCEPT ![t] = p]
    /\ returnedAt' = [returnedAt EXCEPT ![t] = 0]
    /\ UNCHANGED <<now, eventVars, suspendedUntil, pc, ioVars>>

suspendUntilNextBeat(t) ==
    /\ pc[t] = "run"
    /\ IF beatPeriod[t] = 0 THEN Suspend(t, EndOfTime, "noPeriod") ELSE Suspend(t, nextBeat[t], "beat")
    /\ UNCHANGED <<now, eventVars, beatVars, ioVars>>

(* while (period == 0): suspended again, whoever resumes the thread.       *)
NoPeriod(t) ==
    /\ pc[t] = "noPeriod" /\ Ready(t)
    /\ Suspend(t, EndOfTime, "noPeriod")
    /\ UNCHANGED <<now, eventVars, beatVars, ioVars>>

BeatReturnOnTime(t) ==
    /\ pc[t] = "beat" /\ Ready(t)
    /\ nextBeat' = [nextBeat EXCEPT ![t] = nextBeat[t] + beatPeriod[t]]
    /\ returnedAt' = [returnedAt EXCEPT ![t] = now]
    /\ pc' = [pc EXCEPT ![t] = "run"]
    /\ UNCHANGED <<now, eventVars, suspendedUntil, beatPeriod, begin, ioVars>>

BeatReturn(t) ==
    /\ pc[t] = "beat" /\ Ready(t)
    /\ nextBeat' = [nextBeat EXCEPT ![t] = computeNextBeat(nextBeat[t], beatPeriod[t], now)]
    /\ returnedAt' = [returnedAt EXCEPT ![t] = now]
    /\ pc' = [pc EXCEPT ![t] = "run"]
    /\ UNCHANGED <<now, eventVars, suspendedUntil, beatPeriod, begin, ioVars>>

-----------------------------------------------------------------------------
(* The I/O interface.  suspendUntil... runs with interrupts disabled.      *)
suspendUntilUnchecked(t, e, timeout) ==
    /\ pc[t] = "run" /\ t \in Readers
    /\ caller' = [caller EXCEPT ![e] = t]
    /\ waitsFor' = [waitsFor EXCEPT ![t] = e]
    /\ Suspend(t, now + timeout, "io")
    /\ UNCHANGED <<now, eventVars, beatVars, finished>>

suspendUntil(t, e, timeout) ==
    /\ pc[t] = "run" /\ t \in Readers
    /\ ~finished[e]
    /\ caller' = [caller EXCEPT ![e] = t]
    /\ waitsFor' = [waitsFor EXCEPT ![t] = e]
    /\ Suspend(t, now + timeout, "io")
    /\ UNCHANGED <<now, eventVars, beatVars, finished>>

IoReturn(t) ==
    /\ pc[t] = "io" /\ Ready(t)
    /\ waitsFor' = [waitsFor EXCEPT ![t] = none]
    /\ pc' = [pc EXCEPT ![t] = "run"]
    /\ UNCHANGED <<now, eventVars, suspendedUntil, beatVars, caller, finished>>

(* The driver: a read or write takes the data or starts the transfer.      *)
Request(t, e) ==
    /\ pc[t] = "run" /\ t \in Readers /\ finished[e]
    /\ finished' = [finished EXCEPT ![e] = FALSE]
    /\ UNCHANGED <<now, eventVars, suspendedUntil, pc, beatVars, waitsFor, caller>>

(* The driver's interrupt, and upCallReadFinished, upCallWriteFinished or  *)
(* upCallDataReady.                                                        *)
upCall(e) ==
    /\ finished' = [finished EXCEPT ![e] = TRUE]
    /\ IF caller[e] # none THEN resume(caller[e]) ELSE UNCHANGED suspendedUntil
    /\ caller' = [caller EXCEPT ![e] = none]
    /\ UNCHANGED <<now, eventVars, pc, beatVars, waitsFor>>

-----------------------------------------------------------------------------
(* Time passes; SysTick calls propagate; a thread arms the time event.     *)
Tick ==
    /\ now < MaxTime
    /\ now' = now + 1
    /\ UNCHANGED <<eventVars, suspendedUntil, pc, beatVars, ioVars>>

SysTick ==
    /\ propagate
    /\ IF Due THEN resume(Resumed) ELSE UNCHANGED suspendedUntil
    /\ UNCHANGED <<now, pc, beatVars, ioVars>>

ArmEvent == Arm /\ UNCHANGED <<now, suspendedUntil, pc, beatVars, ioVars>>

Beat(t) ==
    \/ \E b \in Begins, p \in Periods : setPeriodicBeat(t, b, p)
    \/ suspendUntilNextBeat(t) \/ NoPeriod(t) \/ BeatReturn(t)

Io(t) == IoReturn(t) \/ \E e \in Events : Request(t, e) \/ \E d \in Timeouts : suspendUntil(t, e, d)

SuspensionNext ==
    \/ Tick \/ SysTick \/ ArmEvent
    \/ \E t \in Threads : Beat(t) \/ Io(t)
    \/ \E e \in Events : upCall(e)

SuspensionSpec == SuspensionInit /\ [][SuspensionNext]_suspensionVars

-----------------------------------------------------------------------------
(* Every variable holds a value of its type.                               *)
SuspensionTypeOK ==
    /\ now \in Nat /\ eventAt \in Nat /\ eventPeriod \in EventPeriods \cup {0}
    /\ arming \in {"none", "period", "at"} /\ startAt \in Nat
    /\ asked \in [at : Nat, period : Nat, before : Nat] /\ calls \in Nat
    /\ suspendedUntil \in [Threads -> Nat]
    /\ pc \in [Threads -> {"run", "beat", "noPeriod", "io"}]
    /\ nextBeat \in [Threads -> Nat] /\ beatPeriod \in [Threads -> Periods \cup {0}]
    /\ waitsFor \in [Threads -> Events \cup {none}] /\ caller \in [Events -> Readers \cup {none}]
    /\ finished \in [Events -> BOOLEAN]
    /\ begin \in [Threads -> Nat] /\ returnedAt \in [Threads -> Nat]

(* The beats of a thread never drift, however early it is resumed or late  *)
(* it comes to run (thread.cpp:35).                                        *)
BeatsOnGrid ==
    \A t \in Threads : beatPeriod[t] # 0 =>
        nextBeat[t] = EndOfTime \/ OnGrid(begin[t], beatPeriod[t], nextBeat[t])

(* suspendUntilNextBeat never waits for a beat that was over when the last *)
(* call returned, and never leaves one out that was still to come          *)
(* (thread.cpp:33-35): the next beat is the first one after the return.    *)
NextBeatIsNext ==
    \A t \in Threads : beatPeriod[t] # 0 /\ returnedAt[t] # 0 =>
        /\ nextBeat[t] > returnedAt[t]
        /\ \/ nextBeat[t] \in {begin[t], EndOfTime}
           \/ nextBeat[t] - beatPeriod[t] <= returnedAt[t]

(* An interrupt between the test of the interface and the suspension is    *)
(* not lost (genericIO.cpp:23-30): a thread that waits for what has        *)
(* happened already is resumed.                                            *)
NoLostWakeUp ==
    \A t \in Threads : pc[t] = "io" /\ finished[waitsFor[t]] => suspendedUntil[t] = 0
=============================================================================
