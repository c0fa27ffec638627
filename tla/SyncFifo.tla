------------------------------ MODULE SyncFifo ------------------------------
(***************************************************************************)
(* The SyncFifo of api/fifo.h between one writer and one reader.  The Fifo *)
(* it extends is represented by its abstract specification BoundedQueue,   *)
(* which it is proved to implement; put and get outside the ceiling        *)
(* scopes are therefore single steps.                                      *)
(*                                                                         *)
(* syncPut and syncGet are mirror images of each other, and so are the     *)
(* steps of the two threads: the pointer suspendedWriter is the writer's,  *)
(* suspendedReader the reader's.  The values are numbered modulo SeqMod;   *)
(* the writer goes on to the next one when a call reported success, and    *)
(* repeats the value otherwise.                                            *)
(***************************************************************************)
EXTENDS CeilingScope

CONSTANTS Capacity,   \* len - 1
          SeqMod      \* bound: how many values are told apart

ASSUME SyncFifoAssumption == Capacity \in Nat \ {0} /\ SeqMod \in Nat /\ SeqMod > Capacity + 1

VARIABLES queue, putOk, getOk, got,  \* the Fifo, and the locals "ok" and "val"
          suspended,   \* the threads whose suspendedWriter or suspendedReader is set
          peer,        \* the local "reader" of syncPut, "writer" of syncGet
          sending      \* the value the writer is at

fifoVars == <<queue, putOk, getOk, got, suspended, peer, sending>>

Q == INSTANCE BoundedQueue WITH Val <- 0 .. SeqMod - 1

next(v) == (v + 1) % SeqMod

FifoInit ==
    /\ queue = << >> /\ putOk = TRUE /\ getOk = TRUE /\ got = SeqMod - 1
    /\ suspended = {}
    /\ peer = [t \in {writer, reader} |-> None]
    /\ sending = 0

other(t) == IF t = writer THEN reader ELSE writer
ok(t) == IF t = writer THEN putOk ELSE getOk

(* this->put(val), this->get(val).                                         *)
Transfer(t) ==
    IF t = writer THEN Q!Put(sending) \/ Q!PutFull ELSE Q!Get \/ Q!GetEmpty

(* The call, up to the beginning of the ceiling scope.                     *)
fifoCall(t) ==
    /\ OpenScope(t, "run", "try")
    /\ \E to \in {"none", "some", "ever"} : timeout' = [timeout EXCEPT ![t] = to]
    /\ UNCHANGED fifoVars

fifoTry(t) ==
    /\ Transfer(t)
    /\ Step(t, "try", IF ok(t)' THEN "close" ELSE "register")
    /\ UNCHANGED <<suspended, peer, sending>>

fifoRegisterNot(t) ==
    /\ Step(t, "register", IF timeout[t] = "none" THEN "clear" ELSE "suspend")
    /\ UNCHANGED fifoVars

fifoRegister(t) ==
    /\ Step(t, "register", IF timeout[t] = "none" THEN "clear" ELSE "suspend")
    /\ suspended' = suspended \cup {t}
    /\ UNCHANGED <<queue, putOk, getOk, got, peer, sending>>

fifoSuspend(t) == Suspend(t, "suspend", "clear") /\ UNCHANGED fifoVars

fifoClear(t) ==
    /\ Step(t, "clear", "close")
    /\ suspended' = suspended \ {t}
    /\ UNCHANGED <<queue, putOk, getOk, got, peer, sending>>

fifoClose(t) == CloseScope(t, "close", "yield") /\ UNCHANGED fifoVars

fifoYield(t) == Yield(t, "yield", "again") /\ UNCHANGED fifoVars

fifoAgainAlways(t) ==
    /\ Transfer(t)
    /\ Step(t, "again", IF ok(t)' THEN "open" ELSE "run")
    /\ UNCHANGED <<suspended, peer, sending>>

(* if(!ok && timeout > 0) { ok = this->put(val); }                         *)
fifoAgain(t) ==
    /\ IF ~ok(t) /\ timeout[t] # "none" THEN Transfer(t)
                                        ELSE UNCHANGED <<queue, putOk, getOk, got>>
    /\ Step(t, "again", IF ok(t)' THEN "open" ELSE "run")
    /\ UNCHANGED <<suspended, peer, sending>>

(* putGeneric, which a publisher calls: it does not wait.                  *)
putGeneric(t) ==
    /\ t = writer /\ at(t, "run")
    /\ Transfer(t)
    /\ timeout' = [timeout EXCEPT ![t] = "none"]
    /\ goto(t, IF ok(t)' THEN "open" ELSE "run")
    /\ UNCHANGED <<dispatchVars, priority, ready, previous, switched, suspended, peer, sending>>

fifoOpen(t) == OpenScope(t, "open", "load") /\ UNCHANGED <<fifoVars, timeout>>

fifoLoad(t) ==
    /\ Step(t, "load", "resume")
    /\ peer' = [peer EXCEPT ![t] = IF other(t) \in suspended THEN other(t) ELSE None]
    /\ UNCHANGED <<queue, putOk, getOk, got, suspended, sending>>

fifoResumeNot(t) ==
    /\ Step(t, "resume", "leave")
    /\ peer' = [peer EXCEPT ![t] = None]
    /\ UNCHANGED <<queue, putOk, getOk, got, suspended, sending>>

fifoResume(t) ==
    /\ Resume(t, peer[t], "resume", "leave")
    /\ peer' = [peer EXCEPT ![t] = None]
    /\ UNCHANGED <<queue, putOk, getOk, got, suspended, sending>>

(* The call returns ok.                                                    *)
fifoLeave(t) ==
    /\ CloseScope(t, "leave", "run")
    /\ sending' = IF t = writer THEN next(sending) ELSE sending
    /\ UNCHANGED <<queue, putOk, getOk, got, suspended, peer>>

FifoStep(t) ==
    \/ fifoCall(t) \/ putGeneric(t)
    \/ fifoTry(t) \/ fifoRegister(t) \/ fifoSuspend(t) \/ fifoClear(t) \/ fifoClose(t)
    \/ fifoYield(t) \/ fifoAgain(t)
    \/ fifoOpen(t) \/ fifoLoad(t) \/ fifoResume(t) \/ fifoLeave(t)

-----------------------------------------------------------------------------
Asleep(t) == pc[t] = "clear" /\ t \notin ready

(* The side can go on: there is room, there is an element.                 *)
Possible(t) == IF t = writer THEN Len(queue) < Capacity ELSE queue # << >>

(* A thread that has transferred an element and has not yet resumed its    *)
(* peer.                                                                   *)
AboutToResume(t) ==
    \/ ok(t) /\ pc[t] \in {"close", "yield", "again", "open", "load"}
    \/ pc[t] = "resume" /\ peer[t] = other(t)

(* No wake-up is lost: a thread does not sleep in syncPut or syncGet while *)
(* the fifo has what it waits for, unless the other side is about to       *)
(* resume it (fifo.h:218, 255), wherever SysTick strikes and whoever times *)
(* out.                                                                    *)
NoMissedWakeUp ==
    \A t \in {writer, reader} : Asleep(t) /\ Possible(t) => AboutToResume(other(t))

(* What the writer believes to have stored is what was stored: every value *)
(* for which syncPut or putGeneric returned true is in the fifo once, in   *)
(* the order of the calls, and a value for which it returned false is not  *)
(* in it (fifo.h:190: "false if the fifo is full, true otherwise").        *)
StoredOnce ==
    LET all == <<got>> \o queue
        done == putOk /\ pc[writer] \in {"close", "yield", "again", "open", "load", "resume", "leave"}
    IN  /\ \A i \in 1 .. Len(all) - 1 : all[i + 1] = next(all[i])
        /\ sending = IF done THEN all[Len(all)] ELSE next(all[Len(all)])
=============================================================================
