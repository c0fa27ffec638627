---------------------------- MODULE BoundedQueue ----------------------------
(***************************************************************************)
(* What a fifo of api/fifo.h promises its two sides: a queue of at most    *)
(* Capacity values.  put reports FALSE only when the queue is full, get    *)
(* reports FALSE only when it is empty, and otherwise get hands out the    *)
(* oldest value.  Every operation happens in one indivisible step.         *)
(***************************************************************************)
EXTENDS Naturals, Sequences

CONSTANTS Val,      \* the values that are put
          Capacity  \* how many of them fit

VARIABLES queue,    \* the stored values, oldest first
          putOk,    \* result of the last put
          getOk,    \* result of the last get
          got       \* the value the last successful get delivered

vars == <<queue, putOk, getOk, got>>

Init ==
    /\ queue = << >>
    /\ putOk = TRUE
    /\ getOk = TRUE
    /\ got \in Val

Put(v) ==
    /\ Len(queue) < Capacity
    /\ queue' = Append(queue, v)
    /\ putOk' = TRUE
    /\ UNCHANGED <<getOk, got>>

PutFull ==
    /\ Len(queue) = Capacity
    /\ putOk' = FALSE
    /\ UNCHANGED <<queue, getOk, got>>

Get ==
    /\ queue # << >>
    /\ got' = Head(queue)
    /\ queue' = Tail(queue)
    /\ getOk' = TRUE
    /\ UNCHANGED putOk

GetEmpty ==
    /\ queue = << >>
    /\ getOk' = FALSE
    /\ UNCHANGED <<queue, putOk, got>>

Clear ==
    /\ queue' = << >>
    /\ UNCHANGED <<putOk, getOk, got>>

Next ==
    \/ \E v \in Val : Put(v)
    \/ PutFull
    \/ Get
    \/ GetEmpty
    \/ Clear

Spec == Init /\ [][Next]_vars
=============================================================================
