----------------------------- MODULE CommBuffer -----------------------------
(***************************************************************************)
(* The triple buffer CommBuffer<Type> of api/commbuffer.h: one writer      *)
(* (put, putZero) and one reader (get, getOnlyIfNewData) that run          *)
(* asynchronously.                                                         *)
(*                                                                         *)
(* One step is one access to memory both sides share: the slots, the       *)
(* pointer "reader" and the two flags.  The pointers "writer" and          *)
(* "intermediate" and the local "swap" are the writer's own.  A value      *)
(* takes two words, and stands for the number of the put that wrote it.    *)
(***************************************************************************)
EXTENDS Naturals

CONSTANTS MaxPuts,    \* bound: the puts of a behaviour
          MaxOverlap  \* how many puts may overlap the copying of one get

ASSUME BoundsAssumption == MaxPuts \in Nat /\ MaxOverlap \in Nat

VARIABLES buffer,                        \* the three slots
          writer, reader, intermediate,  \* the pointers, as slot numbers
          readingNow, newDataAvailable, writeCnt,
          wpc,         \* where the writer is in put
          rpc,         \* where the reader is in get
          readerTmp,   \* get's local copy of "reader"
          data,        \* get's out parameter
          ifNew,       \* the get in progress was called by getOnlyIfNewData
          got, gotNew, \* what the last call delivered, and returned
          overlap      \* history: puts that overlapped the current copying

writerVars == <<buffer, writer, reader, intermediate, writeCnt, wpc>>
readerVars == <<readingNow, rpc, readerTmp, data, ifNew, got, gotNew>>
vars == <<writerVars, readerVars, newDataAvailable, overlap>>

Slot == 0 .. 2
Version == 0 .. MaxPuts
Value == [1 .. 2 -> Version]
Whole(n) == [k \in 1 .. 2 |-> n]

copying == rpc \in {"word1", "word2", "end"}

(* Slots that were never written hold value 0.                             *)
Init ==
    /\ buffer = [s \in Slot |-> Whole(0)]
    /\ writer = 0 /\ reader = 1 /\ intermediate = 2
    /\ readingNow = FALSE /\ newDataAvailable = FALSE
    /\ writeCnt = 0
    /\ wpc = "idle" /\ rpc = "idle"
    /\ readerTmp = 1 /\ data = Whole(0) /\ ifNew = FALSE
    /\ got = Whole(0) /\ gotNew = FALSE
    /\ overlap = 0

-----------------------------------------------------------------------------
(* put: commbuffer.h:84.  putZero first zeroes *writer, which put then     *)
(* copies onto itself.                                                     *)
Begin(first) ==
    /\ wpc = "idle"
    /\ writeCnt < MaxPuts
    /\ copying => overlap < MaxOverlap
    /\ overlap' = IF copying THEN overlap + 1 ELSE overlap
    /\ wpc' = first
    /\ UNCHANGED <<buffer, writer, reader, intermediate, writeCnt, readerVars, newDataAvailable>>

put == Begin("word1")
putZero == Begin("zero1")

Store(pc, word, next) ==
    /\ wpc = pc
    /\ buffer' = [buffer EXCEPT ![writer][word] = writeCnt + 1]
    /\ wpc' = next
    /\ UNCHANGED <<writer, reader, intermediate, writeCnt, readerVars, newDataAvailable, overlap>>

PutWords ==
    \/ Store("zero1", 1, "zero2")
    \/ Store("zero2", 2, "word1")
    \/ Store("word1", 1, "word2")
    \/ Store("word2", 2, "swap")

(* reader <-> writer; the store to "reader" makes the value readable.      *)
PutSwap ==
    /\ wpc = "swap"
    /\ reader' = writer
    /\ writer' = reader
    /\ wpc' = "test"
    /\ UNCHANGED <<buffer, intermediate, writeCnt, readerVars, newDataAvailable, overlap>>

PutTestIgnored ==
    /\ wpc = "test"
    /\ wpc' = "flag"
    /\ UNCHANGED <<buffer, reader, writeCnt, writer, intermediate, readerVars, newDataAvailable, overlap>>

(* The reader may be in the slot just taken over: step aside.              *)
PutTest ==
    /\ wpc = "test"
    /\ IF readingNow THEN writer' = intermediate /\ intermediate' = writer
                     ELSE UNCHANGED <<writer, intermediate>>
    /\ wpc' = "flag"
    /\ UNCHANGED <<buffer, reader, writeCnt, readerVars, newDataAvailable, overlap>>

PutFlag ==
    /\ wpc = "flag"
    /\ writeCnt' = writeCnt + 1
    /\ newDataAvailable' = TRUE
    /\ wpc' = "idle"
    /\ UNCHANGED <<buffer, writer, reader, intermediate, readerVars, overlap>>

-----------------------------------------------------------------------------
(* get: commbuffer.h:115; getOnlyIfNewData: commbuffer.h:130.              *)
get ==
    /\ rpc = "idle"
    /\ ifNew' = FALSE
    /\ rpc' = "clear"
    /\ UNCHANGED <<writerVars, readingNow, readerTmp, data, got, gotNew, newDataAvailable, overlap>>

getOnlyIfNewData ==
    /\ rpc = "idle"
    /\ ifNew' = TRUE
    /\ IF newDataAvailable THEN rpc' = "clear" /\ UNCHANGED gotNew
                           ELSE gotNew' = FALSE /\ UNCHANGED rpc
    /\ UNCHANGED <<writerVars, readingNow, readerTmp, data, got, newDataAvailable, overlap>>

GetClear ==
    /\ rpc = "clear"
    /\ newDataAvailable' = FALSE
    /\ rpc' = "mark"
    /\ UNCHANGED <<writerVars, readingNow, readerTmp, data, ifNew, got, gotNew, overlap>>

GetMark ==
    /\ rpc = "mark"
    /\ readingNow' = TRUE
    /\ rpc' = "load"
    /\ UNCHANGED <<writerVars, readerTmp, data, ifNew, got, gotNew, newDataAvailable, overlap>>

GetLoadWriter ==
    /\ rpc = "load"
    /\ readerTmp' = writer
    /\ overlap' = IF wpc = "idle" THEN 0 ELSE 1
    /\ rpc' = "word1"
    /\ UNCHANGED <<writerVars, readingNow, data, ifNew, got, gotNew, newDataAvailable>>

GetLoad ==
    /\ rpc = "load"
    /\ readerTmp' = reader
    /\ overlap' = IF wpc = "idle" THEN 0 ELSE 1
    /\ rpc' = "word1"
    /\ UNCHANGED <<writerVars, readingNow, data, ifNew, got, gotNew, newDataAvailable>>

Fetch(pc, word, next) ==
    /\ rpc = pc
    /\ data' = [data EXCEPT ![word] = buffer[readerTmp][word]]
    /\ rpc' = next
    /\ UNCHANGED <<writerVars, readingNow, readerTmp, ifNew, got, gotNew, newDataAvailable, overlap>>

GetWords == Fetch("word1", 1, "word2") \/ Fetch("word2", 2, "end")

GetEndClearing ==
    /\ rpc = "end"
    /\ readingNow' = FALSE
    /\ got' = data
    /\ gotNew' = ifNew
    /\ newDataAvailable' = FALSE
    /\ rpc' = "idle"
    /\ UNCHANGED <<writerVars, readerTmp, data, ifNew, overlap>>

GetEnd ==
    /\ rpc = "end"
    /\ readingNow' = FALSE
    /\ got' = data
    /\ gotNew' = ifNew
    /\ rpc' = "idle"
    /\ UNCHANGED <<writerVars, readerTmp, data, ifNew, newDataAvailable, overlap>>

-----------------------------------------------------------------------------
Writer == put \/ putZero \/ PutWords \/ PutSwap \/ PutTest \/ PutFlag
Reader == get \/ getOnlyIfNewData \/ GetClear \/ GetMark \/ GetLoad \/ GetWords \/ GetEnd
Next == Writer \/ Reader

Spec == Init /\ [][Next]_vars

-----------------------------------------------------------------------------
(* Every variable holds a value of its type, and the pointers name three   *)
(* different slots (commbuffer.h:36).                                      *)
TypeOK ==
    /\ buffer \in [Slot -> Value]
    /\ writer \in Slot /\ reader \in Slot /\ intermediate \in Slot
    /\ writer # reader /\ reader # intermediate /\ intermediate # writer
    /\ readingNow \in BOOLEAN /\ newDataAvailable \in BOOLEAN
    /\ writeCnt \in Version
    /\ wpc \in {"idle", "zero1", "zero2", "word1", "word2", "swap", "test", "flag"}
    /\ rpc \in {"idle", "clear", "mark", "load", "word1", "word2", "end"}
    /\ readerTmp \in Slot /\ data \in Value /\ ifNew \in BOOLEAN
    /\ got \in Value /\ gotNew \in BOOLEAN
    /\ overlap \in Nat

(* "both sides (reader/writer) can work simultaneously and the data will   *)
(* be always consistent" (commbuffer.h:24): get never returns words of two *)
(* different puts.                                                         *)
Consistent == got[1] = got[2]

(* A put is never overlooked by a reader that asks for new data only       *)
(* (commbuffer.h:131): when the flag is down and nobody is at work, the    *)
(* reader already holds the latest value.                                  *)
NewDataNotLost ==
    (wpc = "idle" /\ rpc = "idle" /\ ~newDataAvailable) => got[1] = writeCnt

(* The reader's place in the abstract get, and the value it settled on.    *)
getPhase == IF rpc = "idle" THEN "idle" ELSE IF copying THEN "picked" ELSE "begun"
getHeld == IF copying THEN buffer[readerTmp][1] ELSE data[1]

Latest == INSTANCE LatestValue
          WITH latest <- buffer[reader][1],
               phase <- getPhase,
               held <- getHeld,
               got <- got[1]

(* As long as at most two puts overlap the copying of a get, get delivers  *)
(* the latest value of some moment between its call and its return         *)
(* ("it gets the latest data written", commbuffer.h:27), and so never goes *)
(* back to an older one.                                                   *)
ImplementsLatestValue == Latest!Spec
=============================================================================
