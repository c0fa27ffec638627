-------------------------- MODULE CommBufferProofs --------------------------
(***************************************************************************)
(* Proofs about CommBuffer for any number of puts, provided that at most   *)
(* two of them overlap the copying of one get.                             *)
(***************************************************************************)
EXTENDS CommBuffer, TLAPS

storing == wpc \in {"zero1", "zero2", "word1", "word2"}

(* Where the slot being copied out is among the three pointers.  It starts *)
(* as "reader"; the first put to overlap moves it to "intermediate"; the   *)
(* second hands it back to the writer, who could fill it with a third.     *)
Placed ==
    \/ readerTmp = reader
    \/ readerTmp = writer /\ wpc = "test" /\ overlap >= 1
    \/ readerTmp = intermediate /\ overlap >= 1
       /\ (storing \/ wpc \in {"swap", "test"} => overlap = 2)
    \/ readerTmp = writer /\ wpc \in {"flag", "idle"} /\ overlap = 2

(* The words in the slots: the one being written apart, all are whole, and *)
(* "reader" names the value of the last put that swapped.                  *)
Contents ==
    /\ \A s \in Slot : (s = writer /\ storing) \/ buffer[s][1] = buffer[s][2]
    /\ wpc \in {"word2", "swap"} => buffer[writer][1] = writeCnt + 1
    /\ buffer[reader][1] = IF wpc \in {"test", "flag"} THEN writeCnt + 1 ELSE writeCnt
    /\ wpc # "idle" => writeCnt < MaxPuts

(* What the reader has copied so far.                                      *)
Copied ==
    /\ rpc \in {"word2", "end"} => data[1] = buffer[readerTmp][1]
    /\ rpc = "end" => data[2] = buffer[readerTmp][2]
    /\ got[1] = got[2]

(* The flag is down: the latest value is delivered, held or still to load. *)
FlagDown ==
    (wpc = "idle" /\ ~newDataAvailable) =>
        \/ rpc \in {"idle", "clear"} /\ got[1] = writeCnt
        \/ rpc \in {"mark", "load"}
        \/ copying /\ buffer[readerTmp][1] = writeCnt

IInv ==
    /\ TypeOK
    /\ readingNow = (rpc = "load" \/ copying)
    /\ copying => overlap <= 2 /\ Placed /\ (wpc # "idle" => overlap >= 1)
    /\ Contents
    /\ Copied
    /\ FlagDown

(* The constructor establishes the invariant.                              *)
LEMMA InitIInv == Init => IInv
  <1> SUFFICES ASSUME Init PROVE IInv
    OBVIOUS
  <1>1. Whole(0) \in Value /\ Whole(0)[1] = 0 /\ Whole(0)[2] = 0
    <2>1. 0 \in Version
      BY BoundsAssumption DEF Version
    <2> QED
      BY <2>1 DEF Whole, Value
  <1>2. buffer \in [Slot -> Value] /\ \A s \in Slot : buffer[s] = Whole(0)
    BY <1>1 DEF Init
  <1>3. 0 \in Version /\ 0 \in Slot /\ 1 \in Slot /\ 2 \in Slot
    BY BoundsAssumption DEF Version, Slot
  <1>4. TypeOK
    <2>1. readingNow \in BOOLEAN /\ newDataAvailable \in BOOLEAN /\ ifNew \in BOOLEAN /\ gotNew \in BOOLEAN
      BY Zenon DEF Init
    <2>2. writer # reader /\ reader # intermediate /\ intermediate # writer /\ overlap \in Nat
      BY DEF Init
    <2>3. /\ wpc \in {"idle", "zero1", "zero2", "word1", "word2", "swap", "test", "flag"}
          /\ rpc \in {"idle", "clear", "mark", "load", "word1", "word2", "end"}
      BY DEF Init
    <2> QED
      BY <1>1, <1>2, <1>3, <2>1, <2>2, <2>3, Zenon DEF Init, TypeOK
  <1>5. Contents /\ Copied /\ FlagDown
    BY <1>1, <1>2, <1>3 DEF Init, Contents, Copied, FlagDown
  <1> QED
    BY <1>4, <1>5 DEF Init, IInv, copying

(* Filling *writer, in put or putZero, keeps the invariant: the slot is    *)
(* not the one being copied out.                                           *)
LEMMA StoreIInv ==
    ASSUME IInv, PutWords PROVE IInv'
  <1> USE BoundsAssumption
  <1>1. PICK w \in 1 .. 2, next \in {"zero2", "word1", "word2", "swap"} :
            /\ Store(wpc, w, next)
            /\ \/ wpc = "zero1" /\ w = 1 /\ next = "zero2"
               \/ wpc = "zero2" /\ w = 2 /\ next = "word1"
               \/ wpc = "word1" /\ w = 1 /\ next = "word2"
               \/ wpc = "word2" /\ w = 2 /\ next = "swap"
    BY DEF PutWords, Store
  <1>2. writeCnt + 1 \in Version
    BY <1>1 DEF IInv, TypeOK, Contents, Version, Store
  <1>3. /\ buffer' \in [Slot -> Value]
        /\ buffer'[writer][w] = writeCnt + 1
        /\ \A t \in Slot, k \in 1 .. 2 : (t # writer \/ k # w) => buffer'[t][k] = buffer[t][k]
    <2>1. buffer \in [Slot -> Value] /\ writer \in Slot
      BY DEF IInv, TypeOK
    <2>2. buffer' = [buffer EXCEPT ![writer][w] = writeCnt + 1]
      BY <1>1 DEF Store
    <2> QED
      BY <1>2, <2>1, <2>2 DEF Slot, Value
  <1>4. TypeOK'
    BY <1>1, <1>3 DEF IInv, TypeOK, Store, readerVars
  <1>5. copying => readerTmp # writer
    BY <1>1 DEF IInv, TypeOK, Placed, storing
  <1>6. (copying => overlap <= 2 /\ Placed /\ (wpc # "idle" => overlap >= 1))'
    BY <1>1 DEF IInv, TypeOK, Placed, Store, readerVars, storing, copying
  <1>7. Contents'
    BY <1>1, <1>3 DEF IInv, TypeOK, Contents, Store, readerVars, storing
  <1>8. Copied'
    BY <1>1, <1>3, <1>5 DEF IInv, TypeOK, Copied, Store, readerVars, copying
  <1>9. FlagDown'
    BY <1>1 DEF FlagDown, Store
  <1> QED
    BY <1>1, <1>4, <1>6, <1>7, <1>8, <1>9 DEF IInv, Store, readerVars, copying

(* The other steps of put keep the invariant.                              *)
LEMMA WriterIInv ==
    ASSUME MaxOverlap <= 2, IInv, Writer PROVE IInv'
  <1> USE BoundsAssumption
  <1>1. CASE put \/ putZero
    <2>1. PICK first \in {"word1", "zero1"} : Begin(first)
      BY <1>1 DEF put, putZero
    <2> QED
      BY <2>1 DEF Begin, IInv, TypeOK, Placed, Contents, Copied, FlagDown, copying,
         storing, readerVars, Version
  <1>2. CASE PutWords
    BY <1>2, StoreIInv
  <1>3. CASE PutSwap
    <2>1. TypeOK' /\ Copied' /\ FlagDown'
      BY <1>3 DEF PutSwap, IInv, TypeOK, Copied, FlagDown, copying, readerVars
    <2>2. (copying => overlap <= 2 /\ Placed /\ (wpc # "idle" => overlap >= 1))'
      BY <1>3 DEF PutSwap, IInv, TypeOK, Placed, copying, storing, readerVars
    <2>3. Contents'
      BY <1>3 DEF PutSwap, IInv, TypeOK, Contents, storing
    <2> QED
      BY <1>3, <2>1, <2>2, <2>3 DEF PutSwap, IInv, copying, readerVars
  <1>4. CASE PutTest
    <2>1. TypeOK' /\ Copied' /\ FlagDown'
      BY <1>4 DEF PutTest, IInv, TypeOK, Copied, FlagDown, copying, readerVars
    <2>2. (copying => overlap <= 2 /\ Placed /\ (wpc # "idle" => overlap >= 1))'
      BY <1>4 DEF PutTest, IInv, TypeOK, Placed, copying, storing, readerVars
    <2>3. Contents'
      BY <1>4 DEF PutTest, IInv, TypeOK, Contents, storing
    <2> QED
      BY <1>4, <2>1, <2>2, <2>3 DEF PutTest, IInv, copying, readerVars
  <1>5. CASE PutFlag
    BY <1>5 DEF PutFlag, IInv, TypeOK, Placed, Contents, Copied, FlagDown, copying,
       storing, readerVars, Version
  <1> QED
    BY <1>1, <1>2, <1>3, <1>4, <1>5 DEF Writer

(* Every step of get and getOnlyIfNewData keeps the invariant.             *)
LEMMA ReaderIInv ==
    ASSUME IInv, Reader PROVE IInv'
  <1> USE DEF IInv, TypeOK, Placed, Contents, Copied, FlagDown, copying, storing,
              writerVars, Version
  <1>1. CASE get
    BY <1>1 DEF get
  <1>2. CASE getOnlyIfNewData
    BY <1>2 DEF getOnlyIfNewData
  <1>3. CASE GetClear
    BY <1>3 DEF GetClear
  <1>4. CASE GetMark
    BY <1>4 DEF GetMark
  <1>5. CASE GetLoad
    BY <1>5 DEF GetLoad
  <1>6. CASE GetWords
    <2>1. data' \in Value
      BY <1>6 DEF GetWords, Fetch, Value, Slot
    <2>2. CASE Fetch("word1", 1, "word2")
      <3>1. data'[1] = buffer[readerTmp][1]
        BY <2>2 DEF Fetch, Value
      <3> QED
        BY <2>1, <2>2, <3>1 DEF Fetch
    <2>3. CASE Fetch("word2", 2, "end")
      <3>1. data'[1] = data[1] /\ data'[2] = buffer[readerTmp][2]
        BY <2>3 DEF Fetch, Value
      <3> QED
        BY <2>1, <2>3, <3>1 DEF Fetch
    <2> QED
      BY <1>6, <2>2, <2>3 DEF GetWords
  <1>7. CASE GetEnd
    BY <1>7 DEF GetEnd
  <1> QED
    BY <1>1, <1>2, <1>3, <1>4, <1>5, <1>6, <1>7 DEF Reader

(* The inductive invariant holds in every state of every behaviour in      *)
(* which at most two puts overlap the copying of a get.                    *)
THEOREM Invariance == ASSUME MaxOverlap <= 2 PROVE Spec => []IInv
  <1>1. IInv /\ [Next]_vars => IInv'
    <2> SUFFICES ASSUME IInv, [Next]_vars PROVE IInv'
      OBVIOUS
    <2>1. CASE UNCHANGED vars
      BY <2>1 DEF IInv, TypeOK, Placed, Contents, Copied, FlagDown, copying, storing,
         vars, writerVars, readerVars
    <2> QED
      BY <2>1, WriterIInv, ReaderIInv DEF Next
  <1> QED
    BY <1>1, InitIInv, PTL DEF Spec

(* get returns the words of one put only, for any number of puts, as long  *)
(* as at most two of them overlap its copying (commbuffer.h:24).           *)
THEOREM ConsistentData == ASSUME MaxOverlap <= 2 PROVE Spec => []Consistent
  <1>1. IInv => Consistent
    BY DEF IInv, Copied, Consistent
  <1> QED
    BY <1>1, Invariance, PTL

(* A put never goes unnoticed: when newDataAvailable is down and both      *)
(* sides are outside, the reader has the latest value (commbuffer.h:131).  *)
THEOREM NoLostData == ASSUME MaxOverlap <= 2 PROVE Spec => []NewDataNotLost
  <1>1. IInv => NewDataNotLost
    BY DEF IInv, FlagDown, NewDataNotLost, copying
  <1> QED
    BY <1>1, Invariance, PTL

(* Every step of put or get is a step of the abstract register or leaves   *)
(* it unchanged: put takes effect when it swaps "reader", get when it      *)
(* loads "reader".                                                         *)
LEMMA StepSimulation ==
    ASSUME MaxOverlap <= 2, IInv, [Next]_vars PROVE [Latest!Next]_Latest!vars
  <1> USE DEF getPhase, getHeld, copying
  <1>1. CASE put \/ putZero
    BY <1>1 DEF put, putZero, Begin, Latest!vars, readerVars
  <1>2. CASE PutWords
    <2>1. \A s \in Slot : s # writer => buffer'[s] = buffer[s]
      BY <1>2 DEF PutWords, Store, IInv, TypeOK
    <2>2. copying => readerTmp # writer
      BY <1>2 DEF PutWords, Store, IInv, TypeOK, Placed, storing
    <2> QED
      BY <1>2, <2>1, <2>2 DEF PutWords, Store, Latest!vars, readerVars, IInv, TypeOK
  <1>3. CASE PutSwap
    <2>1. buffer[writer][1] = buffer[reader][1] + 1
      BY <1>3 DEF PutSwap, IInv, Contents
    <2>2. Latest!Put
      BY <1>3, <2>1 DEF PutSwap, Latest!Put, readerVars
    <2> QED
      BY <2>2 DEF Latest!Next
  <1>4. CASE PutTest \/ PutFlag
    BY <1>4 DEF PutTest, PutFlag, Latest!vars, readerVars
  <1>5. CASE get
    <2>1. Latest!BeginGet
      BY <1>5 DEF get, Latest!BeginGet, writerVars
    <2> QED
      BY <2>1 DEF Latest!Next
  <1>6. CASE getOnlyIfNewData
    <2>1. Latest!BeginGet \/ UNCHANGED Latest!vars
      BY <1>6 DEF getOnlyIfNewData, Latest!BeginGet, Latest!vars, writerVars
    <2> QED
      BY <2>1 DEF Latest!Next
  <1>7. CASE GetClear \/ GetMark
    BY <1>7 DEF GetClear, GetMark, Latest!vars, writerVars
  <1>8. CASE GetLoad
    <2>1. Latest!Pick
      BY <1>8 DEF GetLoad, Latest!Pick, writerVars
    <2> QED
      BY <2>1 DEF Latest!Next
  <1>9. CASE GetWords
    BY <1>9 DEF GetWords, Fetch, Latest!vars, writerVars
  <1>10. CASE GetEnd
    <2>1. data[1] = buffer[readerTmp][1]
      BY <1>10 DEF GetEnd, IInv, Copied
    <2>2. Latest!EndGet
      BY <1>10, <2>1 DEF GetEnd, Latest!EndGet, writerVars
    <2> QED
      BY <2>2 DEF Latest!Next
  <1>11. CASE UNCHANGED vars
    BY <1>11 DEF vars, writerVars, readerVars, Latest!vars
  <1> QED
    BY <1>1, <1>2, <1>3, <1>4, <1>5, <1>6, <1>7, <1>8, <1>9, <1>10, <1>11 DEF Next, Writer, Reader

(* The triple buffer implements a register whose get returns the latest    *)
(* value, as long as at most two puts overlap the copying of a get.        *)
THEOREM Refinement == ASSUME MaxOverlap <= 2 PROVE Spec => ImplementsLatestValue
  <1>1. Init => Latest!Init
    BY DEF Init, Latest!Init, getPhase, getHeld, copying, Whole, Slot
  <1>2. IInv /\ [Next]_vars => [Latest!Next]_Latest!vars
    BY StepSimulation
  <1> QED
    BY <1>1, <1>2, Invariance, PTL DEF Spec, Latest!Spec, ImplementsLatestValue

(* The indices of the triple buffer stay inside it, and the flags and      *)
(* copies of put and get have their types (commbuffer.h:36).               *)
THEOREM TypeCorrect == ASSUME MaxOverlap <= 2 PROVE Spec => []TypeOK
  <1>1. IInv => TypeOK
    BY DEF IInv
  <1> QED
    BY <1>1, Invariance, PTL
=============================================================================
