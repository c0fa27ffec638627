--------------------------- MODULE SyncCommBuffer ---------------------------
(***************************************************************************)
(* The SyncCommBuffer of support-libs between one writer and one reader.   *)
(* The CommBuffer it extends is represented by its abstract specification  *)
(* (LatestValue) and its flag newDataAvailable, which put sets after the   *)
(* value has changed and get clears before it picks the value.             *)
(***************************************************************************)
EXTENDS CeilingScope

CONSTANT BufferMod    \* bound: how many values are told apart

VARIABLES latest,            \* the value put last
          newDataAvailable,
          suspendedReader,
          target,            \* the pointer put has loaded from suspendedReader
          bufferOk,          \* the local "ok" of syncGet
          data,              \* history: the last value that syncGet returned as new, or
                             \* clearDataState dropped; and a syncGet that saw no new data has
          mistaken           \* cleared the flag of the latest value all the same

bufferVars == <<latest, newDataAvailable, suspendedReader, target, bufferOk, data, mistaken>>

BufferInit ==
    /\ latest = 0 /\ data = 0
    /\ newDataAvailable = FALSE /\ bufferOk = FALSE /\ mistaken = FALSE
    /\ suspendedReader = None /\ target = None

(* put (and putZero) of the writer.                                        *)
bufferPut(t) ==
    /\ t = writer
    /\ Step(t, "run", "bufferFlag")
    /\ latest' = (latest + 1) % BufferMod
    /\ UNCHANGED <<newDataAvailable, suspendedReader, target, bufferOk, data, mistaken>>

bufferFlagForWaiter(t) ==
    /\ Step(t, "bufferFlag", "bufferOpen")
    /\ newDataAvailable' = (suspendedReader # None)
    /\ mistaken' = FALSE
    /\ UNCHANGED <<latest, suspendedReader, target, bufferOk, data>>

bufferFlag(t) ==
    /\ Step(t, "bufferFlag", "bufferOpen")
    /\ newDataAvailable' = TRUE
    /\ mistaken' = FALSE
    /\ UNCHANGED <<latest, suspendedReader, target, bufferOk, data>>

bufferOpen(t) == OpenScope(t, "bufferOpen", "bufferLoad") /\ UNCHANGED <<bufferVars, timeout>>

bufferLoad(t) ==
    /\ Step(t, "bufferLoad", "bufferResume")
    /\ target' = suspendedReader
    /\ UNCHANGED <<latest, newDataAvailable, suspendedReader, bufferOk, data, mistaken>>

bufferResume(t) ==
    /\ Resume(t, target, "bufferResume", "bufferLeave")
    /\ target' = None
    /\ UNCHANGED <<latest, newDataAvailable, suspendedReader, bufferOk, data, mistaken>>

bufferLeave(t) == CloseScope(t, "bufferLeave", "run") /\ UNCHANGED bufferVars

(* syncGet of the reader.                                                  *)
bufferCallLow(t) ==
    /\ t = reader
    /\ OpenScopeLow(t, "run", "bufferTest")
    /\ \E to \in {"none", "some", "ever"} : timeout' = [timeout EXCEPT ![t] = to]
    /\ UNCHANGED bufferVars

bufferCall(t) ==
    /\ t = reader
    /\ OpenScope(t, "run", "bufferTest")
    /\ \E to \in {"none", "some", "ever"} : timeout' = [timeout EXCEPT ![t] = to]
    /\ UNCHANGED bufferVars

bufferTest(t) ==
    /\ Step(t, "bufferTest", IF newDataAvailable THEN "bufferClose" ELSE "bufferRegister")
    /\ UNCHANGED bufferVars

bufferRegister(t) ==
    /\ Step(t, "bufferRegister", IF timeout[t] = "none" THEN "bufferClear" ELSE "bufferSuspend")
    /\ suspendedReader' = t
    /\ UNCHANGED <<latest, newDataAvailable, target, bufferOk, data, mistaken>>

bufferSuspend(t) == Suspend(t, "bufferSuspend", "bufferClear") /\ UNCHANGED bufferVars

bufferClear(t) ==
    /\ Step(t, "bufferClear", "bufferClose")
    /\ suspendedReader' = None
    /\ UNCHANGED <<latest, newDataAvailable, target, bufferOk, data, mistaken>>

bufferClose(t) == CloseScope(t, "bufferClose", "bufferAsk") /\ UNCHANGED bufferVars

(* ok = newDataAvailable; get(data).                                       *)
bufferAsk(t) ==
    /\ Step(t, "bufferAsk", "bufferTake")
    /\ bufferOk' = newDataAvailable
    /\ UNCHANGED <<latest, newDataAvailable, suspendedReader, target, data, mistaken>>

bufferTake(t) ==
    /\ Step(t, "bufferTake", "bufferCopy")
    /\ newDataAvailable' = FALSE
    /\ mistaken' = (~bufferOk /\ (newDataAvailable \/ mistaken))
    /\ UNCHANGED <<latest, suspendedReader, target, bufferOk, data>>

bufferCopy(t) ==
    /\ Step(t, "bufferCopy", "run")
    /\ data' = IF bufferOk THEN latest ELSE data
    /\ UNCHANGED <<latest, newDataAvailable, suspendedReader, target, bufferOk, mistaken>>

(* The reader drops what is there.                                         *)
clearDataState(t) ==
    /\ t = reader
    /\ Step(t, "run", "run")
    /\ newDataAvailable' = FALSE
    /\ data' = latest /\ mistaken' = FALSE
    /\ UNCHANGED <<latest, suspendedReader, target, bufferOk>>

BufferStep(t) ==
    \/ bufferPut(t) \/ bufferFlag(t) \/ bufferOpen(t) \/ bufferLoad(t) \/ bufferResume(t)
    \/ bufferLeave(t)
    \/ bufferCall(t) \/ bufferTest(t) \/ bufferRegister(t) \/ bufferSuspend(t)
    \/ bufferClear(t) \/ bufferClose(t) \/ bufferAsk(t) \/ bufferTake(t) \/ bufferCopy(t)
    \/ clearDataState(t)

-----------------------------------------------------------------------------
BufferAsleep == pc[reader] = "bufferClear" /\ reader \notin ready

(* No wake-up is lost: the reader does not sleep in syncGet while there is *)
(* new data, unless the writer is about to resume it                       *)
(* (synccommbuffer.h:42), as long as SysTick never switches threads inside *)
(* a ceiling scope.                                                        *)
BufferWakesUp ==
    ~switched /\ BufferAsleep /\ newDataAvailable =>
        \/ pc[writer] \in {"bufferOpen", "bufferLoad"}
        \/ pc[writer] = "bufferResume" /\ target = reader

(* No data is overlooked: when the flag is down and neither side is at     *)
(* work, syncGet has returned the latest value with true (or               *)
(* clearDataState has dropped it), unless that value was announced between *)
(* "ok = newDataAvailable" and the clearing of the flag in get             *)
(* (synccommbuffer.h:84-85).                                               *)
LatestSeen ==
    ~newDataAvailable /\ pc[writer] # "bufferFlag" /\ pc[reader] # "bufferCopy" =>
        data = latest \/ mistaken

(* "true if there was new data" (synccommbuffer.h:64): syncGet never       *)
(* returns data that was new with false.                                   *)
TrueIfNew == pc[reader] = "run" => ~mistaken
=============================================================================
