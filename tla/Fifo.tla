-------------------------------- MODULE Fifo --------------------------------
(***************************************************************************)
(* The ring buffer Fifo<Type, len> of api/fifo.h with its two sides, the   *)
(* writer (put) and the reader (get), running asynchronously.              *)
(*                                                                         *)
(* One step is one access to memory both sides share: the volatile indices *)
(* writeX and readX, and the elements.  An element takes two words, so     *)
(* that copying it in or out is two steps the other side can fall between. *)
(* The steps of one side happen in program order.                          *)
(***************************************************************************)
EXTENDS Naturals, Sequences

CONSTANTS Val,      \* the values that are put
          FifoLen,  \* the template parameter len
          UInt32    \* 2^32 in the code: where putErrors and getErrors wrap

ASSUME LenAssumption == FifoLen \in Nat /\ FifoLen >= 2
ASSUME UInt32Assumption == UInt32 \in Nat \ {0}

VARIABLES buffer,     \* the elements, two words each
          writeX, readX,
          putErrors, getErrors,
          wpc,        \* where the writer is in put
          wIndex,     \* its local "index"
          wVal,       \* its parameter "val"
          rpc,        \* where the reader is in get
          rVal,       \* the reader's copy of the element, word by word
          putOk, getOk,  \* what put and get last returned
          got            \* the element get last delivered

writerVars == <<wpc, wIndex, wVal, putErrors, putOk>>
readerVars == <<rpc, rVal, getErrors, getOk, got>>
vars == <<buffer, writeX, readX, writerVars, readerVars>>

Index == 0 .. FifoLen - 1
Element == [1 .. 2 -> Val]
Whole == {[k \in 1 .. 2 |-> v] : v \in Val}  \* the elements both words of which belong together

advanceIndex(index) == IF index < FifoLen - 1 THEN index + 1 ELSE 0

getElementCount == IF readX <= writeX THEN writeX - readX
                                      ELSE FifoLen - readX + writeX

isFull == advanceIndex(writeX) = readX

isEmpty == readX = writeX

-----------------------------------------------------------------------------
(* The constructor leaves the elements uninitialized.                      *)
Init ==
    /\ buffer \in [Index -> Element]
    /\ writeX = 0 /\ readX = 0
    /\ putErrors = 0 /\ getErrors = 0
    /\ wpc = "idle" /\ wIndex = 0 /\ wVal \in Val
    /\ rpc = "idle" /\ rVal \in Whole /\ got \in Whole
    /\ putOk = TRUE /\ getOk = TRUE

-----------------------------------------------------------------------------
(* put: fifo.h:72.                                                         *)
PutFull ==
    /\ wpc = "idle"
    /\ isFull
    /\ putErrors' = (putErrors + 1) % UInt32
    /\ putOk' = FALSE
    /\ UNCHANGED <<buffer, writeX, readX, wpc, wIndex, wVal, readerVars>>

PutAcceptUnchecked(v) ==
    /\ wpc = "idle"
    /\ wIndex' = advanceIndex(writeX)
    /\ wVal' = v
    /\ wpc' = "word1"
    /\ UNCHANGED <<buffer, writeX, readX, putErrors, putOk, readerVars>>

PutAccept(v) ==
    /\ wpc = "idle"
    /\ ~isFull
    /\ wIndex' = advanceIndex(writeX)
    /\ wVal' = v
    /\ wpc' = "word1"
    /\ UNCHANGED <<buffer, writeX, readX, putErrors, putOk, readerVars>>

PutWord1AfterIndex ==
    /\ wpc = "word1"
    /\ writeX' = wIndex
    /\ buffer' = [buffer EXCEPT ![writeX][1] = wVal]
    /\ wpc' = "word2"
    /\ UNCHANGED <<readX, wIndex, wVal, putErrors, putOk, readerVars>>

PutWord1 ==
    /\ wpc = "word1"
    /\ buffer' = [buffer EXCEPT ![writeX][1] = wVal]
    /\ wpc' = "word2"
    /\ UNCHANGED <<writeX, readX, wIndex, wVal, putErrors, putOk, readerVars>>

PutWord2 ==
    /\ wpc = "word2"
    /\ buffer' = [buffer EXCEPT ![writeX][2] = wVal]
    /\ wpc' = "publish"
    /\ UNCHANGED <<writeX, readX, wIndex, wVal, putErrors, putOk, readerVars>>

PutPublish ==
    /\ wpc = "publish"
    /\ writeX' = wIndex
    /\ putOk' = TRUE
    /\ wpc' = "idle"
    /\ UNCHANGED <<buffer, readX, wIndex, wVal, putErrors, readerVars>>

-----------------------------------------------------------------------------
(* get: fifo.h:89.                                                         *)
GetEmpty ==
    /\ rpc = "idle"
    /\ isEmpty
    /\ getErrors' = (getErrors + 1) % UInt32
    /\ getOk' = FALSE
    /\ UNCHANGED <<buffer, writeX, readX, writerVars, rpc, rVal, got>>

GetAccept ==
    /\ rpc = "idle"
    /\ ~isEmpty
    /\ rpc' = "word1"
    /\ UNCHANGED <<buffer, writeX, readX, writerVars, rVal, getErrors, getOk, got>>

GetWord1 ==
    /\ rpc = "word1"
    /\ rVal' = [rVal EXCEPT ![1] = buffer[readX][1]]
    /\ rpc' = "word2"
    /\ UNCHANGED <<buffer, writeX, readX, writerVars, getErrors, getOk, got>>

GetWord2 ==
    /\ rpc = "word2"
    /\ rVal' = [rVal EXCEPT ![2] = buffer[readX][2]]
    /\ rpc' = "advance"
    /\ UNCHANGED <<buffer, writeX, readX, writerVars, getErrors, getOk, got>>

GetAdvance ==
    /\ rpc = "advance"
    /\ readX' = advanceIndex(readX)
    /\ getOk' = TRUE
    /\ got' = rVal
    /\ rpc' = "idle"
    /\ UNCHANGED <<buffer, writeX, writerVars, rVal, getErrors>>

(* clear: fifo.h:139 writes both indices and belongs to neither side; its  *)
(* caller has to keep put and get out meanwhile.                           *)
clear ==
    /\ wpc = "idle" /\ rpc = "idle"
    /\ readX' = 0 /\ writeX' = 0
    /\ UNCHANGED <<buffer, writerVars, readerVars>>

-----------------------------------------------------------------------------
Writer == PutFull \/ (\E v \in Val : PutAccept(v)) \/ PutWord1 \/ PutWord2 \/ PutPublish
Reader == GetEmpty \/ GetAccept \/ GetWord1 \/ GetWord2 \/ GetAdvance
Next == Writer \/ Reader \/ clear

Spec == Init /\ [][Next]_vars

-----------------------------------------------------------------------------
(* Every variable holds a value of its type; the indices stay inside the   *)
(* ring (fifo.h:46).                                                       *)
TypeOK ==
    /\ buffer \in [Index -> Element]
    /\ writeX \in Index /\ readX \in Index
    /\ putErrors \in 0 .. UInt32 - 1 /\ getErrors \in 0 .. UInt32 - 1
    /\ wpc \in {"idle", "word1", "word2", "publish"}
    /\ wIndex \in Index /\ wVal \in Val
    /\ rpc \in {"idle", "word1", "word2", "advance"}
    /\ rVal \in Element /\ got \in Element
    /\ putOk \in BOOLEAN /\ getOk \in BOOLEAN

(* "both sides (reader & writer) can work asynchronously" (fifo.h:26): the *)
(* writer never fills the element the reader is copying out, although each *)
(* side tests the other's index only once, before it starts copying.       *)
NoSlotRace ==
    ~ /\ wpc \in {"word1", "word2", "publish"}
      /\ rpc \in {"word1", "word2", "advance"}
      /\ writeX = readX

(* The stored elements, oldest first: slots readX up to writeX - 1.        *)
Stored ==
    [i \in 1 .. getElementCount |->
        buffer[IF readX + i - 1 < FifoLen THEN readX + i - 1 ELSE readX + i - 1 - FifoLen]]

Queue == INSTANCE BoundedQueue
         WITH Val <- Whole, Capacity <- FifoLen - 1, queue <- Stored

(* The fifo implements a queue of len - 1 elements (fifo.h:31): put fails  *)
(* only when the queue is full, get fails only when it is empty, and get   *)
(* delivers the oldest element whole, however the two sides interleave.    *)
ImplementsQueue == Queue!Spec
=============================================================================
