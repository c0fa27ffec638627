------------------------- MODULE MultipleReaderFifo -------------------------
(***************************************************************************)
(* MultipleReaderFifo<Type, len, numOfreaders> of api/fifo.h: one writer,  *)
(* which never waits, and several readers.  put moves the index of a       *)
(* reader that is too slow, while that reader may be in the middle of get  *)
(* and moves the same index.                                               *)
(*                                                                         *)
(* As in Fifo, a step is one access to shared memory, and an element takes *)
(* two words.  The value of an element is the number of its put.           *)
(***************************************************************************)
EXTENDS Naturals

CONSTANTS FifoLen, NumReaders,  \* the template parameters len, numOfreaders
          MaxPuts,              \* bound: number of puts
          PutsInGet, GetsInPut  \* how many calls of the other side a call may overlap

VARIABLES buffer, writeX, readX, overflowCnt, readerCnt,
          wpc, i, wLoaded, val,  \* put: where it is, its i, the index it has loaded, its parameter
          rpc, rLoaded, rVal,    \* the same of each get, and its copy of the element
          putsMet, getsMet,      \* puts a get, and gets of a reader the put has overlapped
          last, skipped          \* the value a reader got last, how many it did not get

shared == <<buffer, writeX, readX, overflowCnt>>
writerVars == <<wpc, i, wLoaded, val>>
readerVars == <<rpc, rLoaded, rVal, last, skipped>>
vars == <<shared, readerCnt, writerVars, readerVars, putsMet, getsMet>>

Index == 0 .. FifoLen - 1
ReaderIds == 0 .. NumReaders - 1

advanceIndex(index) == IF index < FifoLen - 1 THEN index + 1 ELSE 0

Init ==
    /\ buffer = [x \in Index |-> [k \in 1 .. 2 |-> 0]]
    /\ writeX = 0 /\ readX = [r \in ReaderIds |-> 0]
    /\ overflowCnt = [r \in ReaderIds |-> 0] /\ readerCnt = 0
    /\ wpc = "idle" /\ i = 0 /\ wLoaded = 0 /\ val = 0
    /\ rpc = [r \in ReaderIds |-> "idle"] /\ rLoaded = [r \in ReaderIds |-> 0]
    /\ rVal = [r \in ReaderIds |-> [k \in 1 .. 2 |-> 0]]
    /\ putsMet = [r \in ReaderIds |-> 0] /\ getsMet = [r \in ReaderIds |-> 0]
    /\ last = [r \in ReaderIds |-> 0] /\ skipped = [r \in ReaderIds |-> 0]

(* The call after the last one returns -1, with which get does nothing.    *)
getReaderId ==
    /\ readerCnt <= NumReaders /\ readerCnt' = readerCnt + 1
    /\ UNCHANGED <<shared, writerVars, readerVars, putsMet, getsMet>>

-----------------------------------------------------------------------------
writer(l, m) == wpc = l /\ wpc' = m

put ==
    /\ writer("idle", "test") /\ val < MaxPuts
    /\ \A r \in ReaderIds : rpc[r] # "idle" => putsMet[r] < PutsInGet
    /\ val' = val + 1 /\ i' = 0
    /\ putsMet' = [r \in ReaderIds |-> putsMet[r] + IF rpc[r] = "idle" THEN 0 ELSE 1]
    /\ getsMet' = [r \in ReaderIds |-> IF rpc[r] = "idle" THEN 0 ELSE 1]
    /\ UNCHANGED <<shared, readerCnt, wLoaded, readerVars>>

(* The loop: "one reader is to slow -> shift him!"                         *)
NextReader == IF i + 1 < NumReaders THEN wpc' = "test" /\ i' = i + 1
                                    ELSE wpc' = "word1" /\ i' = 0

ShiftTestFull ==
    /\ wpc = "test"
    /\ IF writeX = readX[i] THEN wpc' = "load" /\ UNCHANGED i ELSE NextReader
    /\ UNCHANGED <<shared, readerCnt, wLoaded, val, readerVars, putsMet, getsMet>>

ShiftTest ==
    /\ wpc = "test"
    /\ IF advanceIndex(writeX) = readX[i] THEN wpc' = "load" /\ UNCHANGED i ELSE NextReader
    /\ UNCHANGED <<shared, readerCnt, wLoaded, val, readerVars, putsMet, getsMet>>

ShiftLoad ==
    /\ writer("load", "store")
    /\ wLoaded' = readX[i]
    /\ UNCHANGED <<shared, readerCnt, i, val, readerVars, putsMet, getsMet>>

ShiftStore ==
    /\ writer("store", "count")
    /\ readX' = [readX EXCEPT ![i] = advanceIndex(wLoaded)]
    /\ UNCHANGED <<buffer, writeX, overflowCnt, readerCnt, i, wLoaded, val, readerVars,
                   putsMet, getsMet>>

ShiftCount ==
    /\ wpc = "count"
    /\ overflowCnt' = [overflowCnt EXCEPT ![i] = @ + 1]
    /\ NextReader
    /\ UNCHANGED <<buffer, writeX, readX, readerCnt, wLoaded, val, readerVars, putsMet, getsMet>>

PutWord(k, l, m) ==
    /\ writer(l, m)
    /\ buffer' = [buffer EXCEPT ![writeX][k] = val]
    /\ UNCHANGED <<writeX, readX, overflowCnt, readerCnt, i, wLoaded, val, readerVars,
                   putsMet, getsMet>>

PutPublish ==
    /\ writer("publish", "idle")
    /\ writeX' = advanceIndex(writeX)
    /\ UNCHANGED <<buffer, readX, overflowCnt, readerCnt, i, wLoaded, val, readerVars,
                   putsMet, getsMet>>

-----------------------------------------------------------------------------
reader(r, l, m) == rpc[r] = l /\ rpc' = [rpc EXCEPT ![r] = m]
Load(r, x) == rLoaded' = [rLoaded EXCEPT ![r] = x]

(* The two operands of "readX[readerId] == writeX" are loaded in any order. *)
get(r, other) ==
    /\ reader(r, "idle", other) /\ r < readerCnt
    /\ wpc # "idle" => getsMet[r] < GetsInPut
    /\ Load(r, IF other = "writeX" THEN readX[r] ELSE writeX)
    /\ putsMet' = [putsMet EXCEPT ![r] = IF wpc = "idle" THEN 0 ELSE 1]
    /\ getsMet' = [getsMet EXCEPT ![r] = @ + IF wpc = "idle" THEN 0 ELSE 1]
    /\ UNCHANGED <<shared, readerCnt, writerVars, rVal, last, skipped>>

GetTest(r, other) ==
    LET x == IF other = "writeX" THEN writeX ELSE readX[r] IN
    /\ reader(r, other, IF rLoaded[r] = x THEN "idle" ELSE "index")
    /\ UNCHANGED <<shared, readerCnt, writerVars, rLoaded, rVal, last, skipped, putsMet, getsMet>>

GetIndex(r, l, m) ==
    /\ reader(r, l, m) /\ Load(r, readX[r])
    /\ UNCHANGED <<shared, readerCnt, writerVars, rVal, last, skipped, putsMet, getsMet>>

GetWord(r, k, l, m) ==
    /\ reader(r, l, m)
    /\ rVal' = [rVal EXCEPT ![r][k] = buffer[rLoaded[r]][k]]
    /\ UNCHANGED <<shared, readerCnt, writerVars, rLoaded, last, skipped, putsMet, getsMet>>

GetStore(r) ==
    /\ reader(r, "store", "idle")
    /\ readX' = [readX EXCEPT ![r] = advanceIndex(rLoaded[r])]
    /\ last' = [last EXCEPT ![r] = rVal[r][2]]
    /\ skipped' = [skipped EXCEPT ![r] = @ + (rVal[r][2] - last[r]) - 1]
    /\ UNCHANGED <<buffer, writeX, overflowCnt, readerCnt, writerVars, rLoaded, rVal,
                   putsMet, getsMet>>

-----------------------------------------------------------------------------
Put == \/ put \/ ShiftTest \/ ShiftLoad \/ ShiftStore \/ ShiftCount
       \/ PutWord(1, "word1", "word2") \/ PutWord(2, "word2", "publish") \/ PutPublish

Get(r) == \/ \E other \in {"writeX", "readX"} : get(r, other) \/ GetTest(r, other)
          \/ GetIndex(r, "index", "word1") \/ GetIndex(r, "advance", "store")
          \/ GetWord(r, 1, "word1", "word2") \/ GetWord(r, 2, "word2", "advance") \/ GetStore(r)

Next == getReaderId \/ Put \/ \E r \in ReaderIds : Get(r)

Spec == Init /\ [][Next]_vars

-----------------------------------------------------------------------------
(* Each value a reader gets is whole and newer than those it got before,   *)
(* and the ones it did not get are counted in overflowCnt (fifo.h:307),    *)
(* although put and get move the same index without a lock: as long as a   *)
(* put and the gets of a reader overlap one by one.                        *)
NewerOrCounted ==
    \A r \in ReaderIds : rpc[r] = "store" =>
        LET counted == overflowCnt[r] + IF wpc = "count" /\ i = r THEN 1 ELSE 0 IN
        /\ rVal[r][1] = rVal[r][2]
        /\ last[r] < rVal[r][2] /\ skipped[r] + (rVal[r][2] - last[r]) - 1 <= counted
=============================================================================
