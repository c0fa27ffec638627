----------------------------- MODULE UartProofs -----------------------------
(***************************************************************************)
(* The bytes that go through the two rings of the UART driver are sent and *)
(* received in order, for rings, blocks and calls of every size.           *)
(***************************************************************************)
EXTENDS Uart, SequenceTheorems, TLAPS

USE SMTT(20)

-----------------------------------------------------------------------------
(* The ring.  Slot(i, k) is k slots after slot i, Count(f, t) the number   *)
(* of slots from f up to t.                                                *)
Slot(i, k) == IF i + k < FifoLen THEN i + k ELSE i + k - FifoLen

Count(f, t) == IF f <= t THEN t - f ELSE t + FifoLen - f

(* What the loop of advanceIndexEx computes for an index and a size that   *)
(* do not exceed the ring (fifo.h:346).                                    *)
LEMMA SmallModulo ==
    ASSUME NEW a \in Nat, a < 2 * FifoLen
    PROVE  a % FifoLen = IF a < FifoLen THEN a ELSE a - FifoLen
  BY BlockFifoAssumption

(* Moving an index of the ring on by less than its length (fifo.h:46, 346). *)
LEMMA Advance ==
    ASSUME NEW i \in Index, NEW k \in 0 .. FifoLen - 1
    PROVE  /\ Slot(i, k) \in Index
           /\ (i + k) % FifoLen = Slot(i, k)
           /\ advanceIndexEx(i, k) = Slot(i, k)
           /\ Count(i, Slot(i, k)) = k
           /\ advanceIndex(i) = Slot(i, 1)
  <1> USE BlockFifoAssumption DEF Index
  <1>1. i + k \in Nat /\ i + k < 2 * FifoLen
    OBVIOUS
  <1>2. (i + k) % FifoLen = Slot(i, k)
    BY <1>1, SmallModulo DEF Slot
  <1> QED
    BY <1>2 DEF Slot, Count, advanceIndex, advanceIndexEx

(* How many slots a block may have (fifo.h:360, 384).                      *)
LEMMA Blocks ==
    ASSUME NEW r \in Index, NEW w \in Index
    PROVE  /\ Count(r, w) \in 0 .. FifoLen - 1
           /\ Slot(r, Count(r, w)) = w
           /\ blockToWrite(r, w) \in 0 .. FifoLen - 1 - Count(r, w)
           /\ w + blockToWrite(r, w) <= FifoLen
           /\ blockToRead(r, w) \in 0 .. Count(r, w)
           /\ r + blockToRead(r, w) <= FifoLen
           /\ blockToRead(r, w) = 0 <=> r = w
           /\ blockToWrite(r, w) = 0 <=> r = advanceIndex(w)
  BY BlockFifoAssumption
     DEF Index, Count, Slot, blockToWrite, blockToRead, advanceIndex

(* A block that was handed out stays free while the other side moves its   *)
(* index.                                                                  *)
LEMMA BlocksGrow ==
    ASSUME NEW r \in Index, NEW w \in Index, NEW n \in Nat
    PROVE  /\ n <= Count(r, w) => /\ blockToWrite(Slot(r, n), w) >= blockToWrite(r, w)
                                  /\ Count(Slot(r, n), w) = Count(r, w) - n
           /\ n <= FifoLen - 1 - Count(r, w) =>
                  /\ blockToRead(r, Slot(w, n)) >= blockToRead(r, w)
                  /\ Count(r, Slot(w, n)) = Count(r, w) + n
  BY BlockFifoAssumption
     DEF Index, Count, Slot, blockToWrite, blockToRead, advanceIndex

-----------------------------------------------------------------------------
(* The bytes in the ring as a sequence.                                    *)
LEMMA Elements ==
    ASSUME NEW ring \in [Index -> Byte], NEW f \in Index, NEW t \in Index
    PROVE  /\ elements(ring, f, t) \in Seq(Byte)
           /\ Len(elements(ring, f, t)) = Count(f, t)
           /\ \A k \in 1 .. Count(f, t) :
                  Slot(f, k - 1) \in Index /\ elements(ring, f, t)[k] = ring[Slot(f, k - 1)]
  <1> DEFINE n == Count(f, t)
             e == elements(ring, f, t)
  <1>1. n \in 0 .. FifoLen - 1
    BY Blocks, Zenon
  <1>2. (t + FifoLen - f) % FifoLen = n
    <2> DEFINE x == t + FifoLen - f
    <2>1. x \in Nat /\ x < 2 * FifoLen /\ n = IF x < FifoLen THEN x ELSE x - FifoLen
      BY BlockFifoAssumption DEF Index, Count
    <2> HIDE DEF x
    <2>2. x % FifoLen = n
      BY <2>1, SmallModulo, Zenon
    <2> QED
      BY <2>2, Zenon DEF x
  <1>3. \A k \in 1 .. n : k - 1 \in 0 .. FifoLen - 1 /\ (f + k - 1) % FifoLen = Slot(f, k - 1)
    <2> TAKE k \in 1 .. n
    <2>1. k - 1 \in 0 .. FifoLen - 1
      BY <1>1, BlockFifoAssumption
    <2>2. f + k - 1 = f + (k - 1)
      BY <1>1, Zenon DEF Index
    <2> QED
      BY <2>1, <2>2, Advance, Zenon
  <1>4. \A k \in 1 .. n : Slot(f, k - 1) \in Index
    BY <1>3, Advance, Zenon
  <1>5. e = [k \in 1 .. n |-> ring[(f + k - 1) % FifoLen]]
    BY <1>2, Zenon DEF elements
  <1> HIDE DEF e, n
  <1>6. \A k \in 1 .. n : e[k] = ring[Slot(f, k - 1)]
    BY <1>3, <1>5, Zenon
  <1>7. e \in [1 .. n -> Byte]
    BY <1>3, <1>4, <1>5, Zenon
  <1>8. e \in Seq(Byte) /\ Len(e) = n
    BY <1>1, <1>7, SeqDef, LenProperties
  <1> QED
    BY <1>4, <1>6, <1>8, Zenon DEF e, n

(* The contents of a ring up to some slot, followed by those from there.   *)
LEMMA Split ==
    ASSUME NEW ring \in [Index -> Byte], NEW f \in Index, NEW t \in Index,
           NEW n \in 0 .. Count(f, t)
    PROVE  elements(ring, f, t) = elements(ring, f, Slot(f, n)) \o elements(ring, Slot(f, n), t)
  <1> DEFINE m == Slot(f, n)
             a == elements(ring, f, m)
             b == elements(ring, m, t)
             e == elements(ring, f, t)
  <1>1. n \in 0 .. FifoLen - 1 /\ Count(f, t) \in 0 .. FifoLen - 1
    BY Blocks, BlockFifoAssumption
  <1>2. m \in Index /\ Count(f, m) = n
    BY <1>1, Advance, Zenon
  <1>3. Count(m, t) = Count(f, t) - n
    BY <1>1, BlocksGrow
  <1>7. \A j \in 1 .. Count(f, t) - n : Slot(m, j - 1) = Slot(f, n + j - 1)
    BY <1>1, BlockFifoAssumption DEF Slot, Index, Count
  <1> HIDE DEF m
  <1>4. /\ a \in Seq(Byte) /\ Len(a) = n
        /\ \A k \in 1 .. n : a[k] = ring[Slot(f, k - 1)]
    BY <1>2, Elements, ZenonT(30)
  <1>5. /\ b \in Seq(Byte) /\ Len(b) = Count(f, t) - n
        /\ \A k \in 1 .. Count(f, t) - n : b[k] = ring[Slot(m, k - 1)]
    BY <1>2, <1>3, Elements
  <1>6. /\ e \in Seq(Byte) /\ Len(e) = Count(f, t)
        /\ \A k \in 1 .. Count(f, t) : e[k] = ring[Slot(f, k - 1)]
    BY Elements, Zenon
  <1> HIDE DEF a, b, e
  <1>8. a \o b \in Seq(Byte) /\ Len(a \o b) = Count(f, t)
    <2>1. a \o b \in Seq(Byte) /\ Len(a \o b) = Len(a) + Len(b)
      BY ONLY <1>4, <1>5, ConcatProperties, Zenon
    <2> QED
      BY ONLY <1>1, <1>4, <1>5, <2>1, BlockFifoAssumption
  <1>9. \A k \in 1 .. Count(f, t) : (a \o b)[k] = e[k]
    <2> SUFFICES ASSUME NEW k \in 1 .. Count(f, t) PROVE (a \o b)[k] = e[k]
      BY Zenon
    <2>1. CASE k <= n
      <3>1. (a \o b)[k] = a[k]
        BY <2>1, <1>1, <1>4, <1>5, ConcatProperties
      <3> QED
        BY <2>1, <3>1, <1>1, <1>4, <1>6
    <2>2. CASE k > n
      <3> DEFINE j == k - n
      <3>1. j \in 1 .. Count(f, t) - n /\ k = n + j
        BY <2>2, <1>1
      <3>2. (a \o b)[k] = b[j]
        BY <2>2, <1>1, <1>4, <1>5, ConcatProperties
      <3> HIDE DEF j
      <3>3. b[j] = ring[Slot(m, j - 1)]
        BY <3>1, <1>5, Zenon
      <3>4. Slot(m, j - 1) = Slot(f, k - 1)
        BY <3>1, <1>7
      <3> QED
        BY <3>2, <3>3, <3>4, <1>6, Zenon
    <2>3. k <= n \/ k > n
      BY <1>1, BlockFifoAssumption
    <2> QED
      BY <2>1, <2>2, <2>3, Zenon
  <1>10. e = a \o b
    BY <1>6, <1>8, <1>9, SeqEqual, Zenon
  <1> QED
    BY <1>10, Zenon DEF a, b, e, m

(* A block of the ring that holds the bytes of s.                          *)
LEMMA BlockHolds ==
    ASSUME NEW ring \in [Index -> Byte], NEW f \in Index, NEW s \in Seq(Byte),
           Len(s) <= FifoLen - 1,
           \A k \in 1 .. Len(s) : ring[Slot(f, k - 1)] = s[k]
    PROVE  elements(ring, f, Slot(f, Len(s))) = s
  <1> DEFINE t == Slot(f, Len(s))
  <1>1. Len(s) \in 0 .. FifoLen - 1
    BY LenProperties, BlockFifoAssumption
  <1>2. t \in Index /\ Count(f, t) = Len(s)
    BY <1>1, Advance, Zenon
  <1>3. /\ elements(ring, f, t) \in Seq(Byte) /\ Len(elements(ring, f, t)) = Len(s)
        /\ \A k \in 1 .. Len(s) : elements(ring, f, t)[k] = s[k]
    BY <1>2, Elements
  <1> QED
    BY <1>3, SeqEqual, Zenon

(* The contents depend on the slots in between only.                       *)
LEMMA SameContents ==
    ASSUME NEW ring \in [Index -> Byte], NEW ring2 \in [Index -> Byte],
           NEW f \in Index, NEW t \in Index,
           \A k \in 0 .. Count(f, t) - 1 : ring2[Slot(f, k)] = ring[Slot(f, k)]
    PROVE  elements(ring2, f, t) = elements(ring, f, t)
  <1>1. Count(f, t) \in Nat
    BY Blocks
  <1>2. \A k \in 1 .. Count(f, t) : ring2[Slot(f, k - 1)] = ring[Slot(f, k - 1)]
    BY <1>1
  <1> QED
    BY <1>2, Elements, SeqEqual

-----------------------------------------------------------------------------
(* The invariant of the transmitting side.  What write is copying fits     *)
(* into the block it was given, and a running DMA transfer is a part of    *)
(* the block that can be read.                                             *)
TxType ==
    /\ isDMAEnabled \in BOOLEAN
    /\ txBuf \in [Index -> Byte] /\ txRead \in Index /\ txWrite \in Index
    /\ DMATransmitRunning \in BOOLEAN /\ DMATransmitRunningSize \in Nat
    /\ txPos \in Nat /\ txLeft \in Nat /\ txFinished \in BOOLEAN
    /\ DR \in Byte \cup {None} /\ shift \in Byte \cup {None}
    /\ data \in Seq(Byte) /\ copied \in Nat

TxCopy ==
    /\ copied <= Len(data) /\ Len(data) <= blockToWrite(txRead, txWrite)
    /\ \A k \in 1 .. copied : txBuf[txWrite + k - 1] = data[k]
    /\ wpc # "copy" => data = << >> /\ copied = 0

TxStream ==
    /\ DMATransmitRunning =>
           /\ isDMAEnabled
           /\ DMATransmitRunningSize <= blockToRead(txRead, txWrite)
           /\ txLeft <= DMATransmitRunningSize
           /\ txPos = txRead + DMATransmitRunningSize - txLeft
           /\ txFinished <=> txLeft = 0
    /\ ~DMATransmitRunning => txLeft = 0 /\ ~txFinished
    /\ isDMAEnabled => "TXE" \notin interrupts /\ "TXE" \notin CR1 /\ wpc \notin {"loadTXE", "storeTXE"}
    /\ wpc = "send" => isDMAEnabled /\ ~DMATransmitRunning

TxInv == TxType /\ TxCopy /\ TxStream

(* How many bytes the running transfer has taken.                          *)
TxMoved == IF DMATransmitRunning THEN DMATransmitRunningSize - txLeft ELSE 0

SentStep ==
    \/ Accepted' = Accepted /\ line' = line
    \/ Accepted' = Accepted \o data /\ line' = line
    \/ Accepted = <<line'>> \o Accepted'

(* The accepted bytes in terms of slots.                                   *)
AcceptedForm ==
    /\ TxMoved \in 0 .. blockToRead(txRead, txWrite)
    /\ Slot(txRead, TxMoved) \in Index
    /\ Accepted = InRegister(shift) \o InRegister(DR)
                      \o elements(txBuf, Slot(txRead, TxMoved), txWrite)

(* The bytes that were accepted have this form in every state,             *)
LEMMA AcceptedIs == TxInv => AcceptedForm
  <1> SUFFICES ASSUME TxInv PROVE AcceptedForm
    OBVIOUS
  <1>1. blockToRead(txRead, txWrite) \in 0 .. FifoLen - 1
    BY Blocks, BlockFifoAssumption DEF TxInv, TxType
  <1>2. TxMoved \in 0 .. blockToRead(txRead, txWrite)
    BY <1>1, BlockFifoAssumption DEF TxInv, TxType, TxStream, TxMoved
  <1>3. TxMoved \in 0 .. FifoLen - 1
    BY <1>1, <1>2, BlockFifoAssumption
  <1>4. Slot(txRead, TxMoved) \in Index /\ (txRead + TxMoved) % FifoLen = Slot(txRead, TxMoved)
    BY <1>3, Advance, Zenon DEF TxInv, TxType
  <1> QED
    BY <1>2, <1>4, Zenon DEF Accepted, TxMoved, AcceptedForm

(* also in the one after a step.                                           *)
LEMMA AcceptedNext == TxInv' => AcceptedForm'
  BY AcceptedIs, PTL

(* The invariant holds after init and config.                              *)
LEMMA TxInvInit == Init => TxInv
  <1> SUFFICES ASSUME Init PROVE TxInv
    OBVIOUS
  <1> USE BlockFifoAssumption, ByteAssumption DEF Init, TransmitInit
  <1>1. TxType
    <2>1. /\ txBuf \in [Index -> Byte] /\ txRead \in Index /\ txWrite \in Index
          /\ DMATransmitRunningSize \in Nat /\ txPos \in Nat /\ txLeft \in Nat
          /\ DR \in Byte \cup {None} /\ shift \in Byte \cup {None} /\ copied \in Nat
      BY DEF Index
    <2>2. data \in Seq(Byte)
      OBVIOUS
    <2> QED
      BY <2>1, <2>2, Zenon DEF TxType
  <1>2. TxCopy
    BY <1>1, Blocks DEF TxCopy, TxType
  <1>3. TxStream
    BY Zenon DEF TxStream
  <1> QED
    BY <1>1, <1>2, <1>3, Zenon DEF TxInv

(* The thread: a call begins with as many bytes as the block takes.        *)
LEMMA TxInvCall ==
    ASSUME TxInv, isDMAEnabled' = isDMAEnabled,
           \/ \E bytes \in Bytes : write(bytes)
           \/ \E c \in Byte : putcharNoWait(c)
    PROVE  TxInv' /\ UNCHANGED <<txRing, txDma, txLine>>
  <1> USE BlockFifoAssumption DEF TxInv
  <1>1. /\ UNCHANGED <<txRing, interrupts, txDma, txLine, CR1>> /\ copied = 0 /\ copied' = 0
        /\ wpc = "idle" /\ wpc' = "copy"
    BY Zenon DEF write, putcharNoWait, writer, TxCopy
  <1> DEFINE Fits == data' \in Seq(Byte) /\ Len(data') <= blockToWrite(txRead, txWrite)
  <1>2. Fits
    <2>1. blockToWrite(txRead, txWrite) \in Nat
      BY Blocks DEF TxType
    <2>2. ASSUME NEW bytes \in Bytes, write(bytes) PROVE Fits
      <3> DEFINE size == smaller(blockToWrite(txRead, txWrite), Len(bytes))
      <3>1. bytes \in Seq(Byte)
        BY WriteAssumption, SeqDef DEF Bytes
      <3>2. size \in 0 .. Len(bytes) /\ size <= blockToWrite(txRead, txWrite)
        BY <2>1, <3>1, LenProperties DEF smaller
      <3>3. data' = SubSeq(bytes, 1, size)
        BY <2>2, Zenon DEF write
      <3> HIDE DEF size
      <3>4. SubSeq(bytes, 1, size) \in Seq(Byte) /\ Len(SubSeq(bytes, 1, size)) = size
        BY <3>1, <3>2, SubSeqProperties
      <3> QED
        BY <3>2, <3>3, <3>4, Zenon
    <2>3. ASSUME NEW c \in Byte, putcharNoWait(c) PROVE Fits
      <3>1. blockToWrite(txRead, txWrite) # 0
        BY <2>3, Blocks, Zenon DEF putcharNoWait, TxType
      <3> QED
        BY <2>1, <2>3, <3>1 DEF putcharNoWait
    <2> QED
      BY <2>2, <2>3, Zenon
  <1>3. TxType'
    BY <1>1, <1>2, Zenon DEF TxType, txRing, txDma, txLine
  <1>4. TxCopy'
    BY <1>1, <1>2, LenProperties DEF TxCopy, txRing
  <1>5. TxStream'
    BY <1>1, Zenon DEF TxStream, txRing, txDma
  <1> QED
    BY <1>1, <1>3, <1>4, <1>5, Zenon

(* It copies a byte into a free slot of its block.                         *)
LEMMA TxInvCopy ==
    ASSUME TxInv, isDMAEnabled' = isDMAEnabled, WriteCopy
    PROVE  TxInv'
  <1> USE BlockFifoAssumption DEF TxInv
  <1>1. blockToWrite(txRead, txWrite) \in Nat /\ txWrite + blockToWrite(txRead, txWrite) <= FifoLen
    BY Blocks DEF TxType
  <1>2. copied < Len(data) /\ Len(data) \in Nat
    BY LenProperties, Zenon DEF WriteCopy, TxType
  <1>3. txWrite + copied \in Index
    BY <1>1, <1>2 DEF TxType, TxCopy, Index
  <1>4. data[copied + 1] \in Byte
    BY <1>2, ElementOfSeq DEF TxType
  <1>5. TxType'
    BY <1>3, <1>4 DEF TxType, WriteCopy, txDma, txLine
  <1>6. TxCopy'
    <2>1. \A k \in 1 .. copied' : txBuf'[txWrite + k - 1] = data[k]
      BY <1>1, <1>2, <1>3 DEF TxType, TxCopy, WriteCopy, Index
    <2> QED
      BY <2>1, <1>2 DEF TxType, TxCopy, WriteCopy, writer
  <1>7. TxStream'
    BY Zenon DEF TxStream, WriteCopy, writer, txDma
  <1> QED
    BY <1>5, <1>6, <1>7, Zenon

(* writeConcluded publishes the bytes that were copied (fifo.h:379).       *)
LEMMA TxInvConcluded ==
    ASSUME TxInv, isDMAEnabled' = isDMAEnabled, writeConcluded
    PROVE  /\ TxInv'
           /\ Len(data) \in 0 .. FifoLen - 1 - Count(txRead, txWrite)
           /\ txWrite' = Slot(txWrite, Len(data))
  <1> USE BlockFifoAssumption DEF TxInv
  <1> DEFINE n == Len(data)
  <1>1. /\ n \in 0 .. FifoLen - 1 - Count(txRead, txWrite) /\ n \in 0 .. FifoLen - 1
        /\ Count(txRead, txWrite) \in Nat
    <2>1. /\ Count(txRead, txWrite) \in 0 .. FifoLen - 1
          /\ blockToWrite(txRead, txWrite) \in 0 .. FifoLen - 1 - Count(txRead, txWrite)
      BY Blocks, Zenon DEF TxType
    <2>2. n \in Nat /\ n <= blockToWrite(txRead, txWrite)
      BY LenProperties, Zenon DEF TxType, TxCopy
    <2> QED
      BY ONLY <2>1, <2>2, BlockFifoAssumption
  <1>2. txWrite' = Slot(txWrite, n) /\ txWrite' \in Index
    BY <1>1, Advance, Zenon DEF TxType, writeConcluded
  <1>3. blockToRead(txRead, txWrite') >= blockToRead(txRead, txWrite)
    BY <1>1, <1>2, BlocksGrow DEF TxType
  <1>4. TxType'
    BY <1>2 DEF TxType, writeConcluded, txDma, txLine
  <1>5. TxCopy'
    BY <1>2, Blocks DEF TxType, TxCopy, writeConcluded, writer
  <1>6. TxStream'
    <2>1. blockToRead(txRead, txWrite) \in Nat /\ blockToRead(txRead, txWrite') \in Nat
      BY <1>2, Blocks DEF TxType
    <2> QED
      BY <1>3, <2>1 DEF TxType, TxStream, writeConcluded, writer, txDma
  <1> QED
    BY <1>1, <1>2, <1>4, <1>5, <1>6, Zenon

(* The rest of a call, waiting, and the interrupt TC touch neither ring    *)
(* nor stream.                                                             *)
LEMMA TxInvControl ==
    ASSUME TxInv, isDMAEnabled' = isDMAEnabled,
           DisableTC \/ EnableTXE \/ WriteTest \/ suspendUntilWriteFinished \/ TCIRQ
    PROVE  TxInv' /\ UNCHANGED <<txRing, txDma, txLine>>
  <1> USE DEF TxInv
  <1>1. /\ UNCHANGED <<txRing, txDma, txLine, data, copied>>
        /\ wpc' # "copy" \/ wpc' = wpc
    BY Zenon DEF DisableTC, EnableTXE, ITConfigLoad, ITConfigStore, WriteTest, suspendUntilWriteFinished,
           TCIRQ, upCallWriteFinished, writer
  <1>2. TxType' /\ TxCopy'
    <2>1. TxType'
      BY <1>1, Zenon DEF TxType, txRing, txDma, txLine
    <2>2. TxCopy'
      <3>1. wpc' # "copy" => data = << >> /\ copied = 0
        BY Zenon DEF TxCopy, DisableTC, EnableTXE, ITConfigLoad, ITConfigStore, WriteTest,
               suspendUntilWriteFinished, TCIRQ, upCallWriteFinished, writer
      <3> QED
        BY <1>1, <3>1, Zenon DEF TxCopy, txRing
    <2> QED
      BY <2>1, <2>2, Zenon
  <1>3. TxStream'
    <2>1. isDMAEnabled => "TXE" \notin interrupts' /\ "TXE" \notin CR1' /\ wpc' \notin {"loadTXE", "storeTXE"}
      <3>1. CASE DisableTC
        BY <3>1, Zenon DEF TxStream, DisableTC, ITConfigLoad, ITConfigStore, writer
      <3>2. CASE EnableTXE
        BY <3>2, Zenon DEF TxStream, EnableTXE, ITConfigLoad, ITConfigStore, writer
      <3>3. CASE WriteTest
        BY <3>3, Zenon DEF TxStream, WriteTest, writer
      <3>4. CASE suspendUntilWriteFinished
        BY <3>4, Zenon DEF TxStream, suspendUntilWriteFinished, writer
      <3>5. CASE TCIRQ
        BY <3>5, Zenon DEF TxStream, TCIRQ, upCallWriteFinished
      <3> QED
        BY <3>1, <3>2, <3>3, <3>4, <3>5, Zenon
    <2>2. wpc' = "send" => isDMAEnabled /\ ~DMATransmitRunning
      BY Zenon DEF TxStream, DisableTC, EnableTXE, ITConfigLoad, ITConfigStore, WriteTest,
             suspendUntilWriteFinished, TCIRQ, upCallWriteFinished, writer
    <2> QED
      BY <1>1, <2>1, <2>2, Zenon DEF TxStream, txRing, txDma
  <1> QED
    BY <1>1, <1>2, <1>3, Zenon

(* Starting a transfer: the whole block that can be read.                  *)
LEMMA TxInvSend ==
    ASSUME TxInv, isDMAEnabled' = isDMAEnabled, WriteSend
    PROVE  TxInv' /\ TxMoved = 0 /\ TxMoved' = 0 /\ UNCHANGED <<txRing, txLine>>
  <1> USE DEF TxInv
  <1>1. blockToRead(txRead, txWrite) \in Nat
    BY Blocks DEF TxType
  <1>2. isDMAEnabled /\ ~DMATransmitRunning /\ wpc = "send" /\ wpc' = "idle"
    BY Zenon DEF TxStream, WriteSend, writer
  <1>3. UNCHANGED <<txRing, interrupts, txLine, data, copied, CR1>>
    BY Zenon DEF WriteSend
  <1>4. TxCopy'
    BY <1>2, <1>3, Zenon DEF TxCopy, txRing
  <1>5. CASE blockToRead(txRead, txWrite) > 0
    <2>1. /\ DMATransmitRunningSize' = blockToRead(txRead, txWrite)
          /\ DMATransmitRunning' = TRUE /\ txFinished' = txFinished
          /\ txPos' = txRead /\ txLeft' = blockToRead(txRead, txWrite)
      BY <1>5, Zenon DEF WriteSend, SendTxBufWithDMA
    <2>2. TxType'
      BY <1>1, <1>3, <2>1 DEF TxType, txRing, txLine, Index
    <2>3. TxStream'
      BY <1>1, <1>2, <1>3, <1>5, <2>1 DEF TxStream, TxType, Index, txRing
    <2>4. TxMoved = 0 /\ TxMoved' = 0
      BY <1>1, <1>2, <2>1 DEF TxMoved
    <2> QED
      BY <1>3, <1>4, <2>2, <2>3, <2>4, Zenon
  <1>6. CASE ~(blockToRead(txRead, txWrite) > 0)
    <2>1. UNCHANGED txDma
      BY <1>6, Zenon DEF WriteSend
    <2>2. TxType' /\ TxStream' /\ TxMoved = 0 /\ TxMoved' = 0
      BY <1>2, <1>3, <2>1, Zenon DEF TxType, TxStream, TxMoved, txRing, txDma, txLine
    <2> QED
      BY <1>3, <1>4, <2>2, Zenon
  <1> QED
    BY <1>5, <1>6, Zenon

(* The end of a transfer moves the read index and starts the next.         *)
LEMMA TxInvFinished ==
    ASSUME TxInv, isDMAEnabled' = isDMAEnabled, DMATransmitFinishedHandler
    PROVE  /\ TxInv' /\ UNCHANGED <<txBuf, txWrite, txLine>>
           /\ Slot(txRead', TxMoved') = Slot(txRead, TxMoved)
  <1> USE BlockFifoAssumption DEF TxInv
  <1> DEFINE n == DMATransmitRunningSize
  <1>1. isDMAEnabled /\ DMATransmitRunning /\ txLeft = 0 /\ n <= blockToRead(txRead, txWrite)
    BY Zenon DEF TxType, TxStream, DMATransmitFinishedHandler
  <1>2. n \in 0 .. Count(txRead, txWrite) /\ Count(txRead, txWrite) \in 0 .. FifoLen - 1 /\ n \in 0 .. FifoLen - 1
    <2>1. blockToRead(txRead, txWrite) \in 0 .. Count(txRead, txWrite) /\ Count(txRead, txWrite) \in 0 .. FifoLen - 1
      BY Blocks, Zenon DEF TxType
    <2> QED
      BY <1>1, <2>1 DEF TxType
  <1>3. TxMoved = n
    BY ONLY <1>1, <1>2 DEF TxMoved
  <1>4. txRead' = Slot(txRead, n) /\ txRead' \in Index
    <2>1. txRead' = advanceIndexEx(txRead, n)
      BY <1>1, <1>2 DEF DMATransmitFinishedHandler
    <2> QED
      BY <1>2, <2>1, Advance, Zenon DEF TxType
  <1>5. UNCHANGED <<txBuf, txWrite, txLine, wpc, data, copied, CR1>>
    BY Zenon DEF DMATransmitFinishedHandler, writerVars
  <1>6. blockToWrite(txRead', txWrite) >= blockToWrite(txRead, txWrite)
    BY <1>2, <1>4, BlocksGrow DEF TxType
  <1>7. TxCopy'
    <2>1. blockToWrite(txRead', txWrite) \in Nat /\ blockToWrite(txRead, txWrite) \in Nat /\ Len(data) \in Nat
      BY <1>4, Blocks, LenProperties DEF TxType
    <2> QED
      BY <1>5, <1>6, <2>1 DEF TxCopy
  <1>8. /\ txFinished' = FALSE
        /\ \/ DMATransmitRunning' = FALSE /\ UNCHANGED <<n, txPos, txLeft>>
              /\ interrupts' = interrupts \cup {"TC"}
           \/ /\ DMATransmitRunning' = TRUE /\ interrupts' = interrupts
              /\ n' = blockToRead(txRead', txWrite) /\ txLeft' = n' /\ txPos' = txRead'
              /\ n' > 0
    <2>1. blockToRead(txRead', txWrite) \in Nat
      BY <1>4, Blocks DEF TxType
    <2>2. txRead' # txWrite => blockToRead(txRead', txWrite) > 0
      BY <1>4, <2>1 DEF TxType, Index, blockToRead
    <2> QED
      BY <2>1, <2>2, Zenon DEF DMATransmitFinishedHandler, SendTxBufWithDMA
  <1>9. blockToRead(txRead', txWrite) \in Nat
    BY <1>4, Blocks DEF TxType
  <1>10. TxType'
    <2>1. n' \in Nat /\ txPos' \in Nat /\ txLeft' \in Nat
      BY <1>4, <1>8, <1>9 DEF TxType, Index
    <2>2. DMATransmitRunning' \in BOOLEAN /\ txFinished' \in BOOLEAN
      BY <1>8, Zenon
    <2> QED
      BY <1>4, <1>5, <2>1, <2>2, Zenon DEF TxType, txLine
  <1>11. TxStream'
    BY <1>1, <1>4, <1>5, <1>8, <1>9 DEF TxStream, Index
  <1>12. TxMoved' = 0
    BY ONLY <1>8, <1>9 DEF TxMoved
  <1>13. Slot(txRead', 0) = txRead'
    BY <1>4 DEF Slot, Index
  <1> QED
    BY ONLY <1>3, <1>4, <1>5, <1>7, <1>10, <1>11, <1>12, <1>13, Zenon

-----------------------------------------------------------------------------
(* What a register holds, as a sequence.                                   *)
LEMMA Register ==
    ASSUME NEW r \in Byte \cup {None}
    PROVE  InRegister(r) \in Seq(Byte) /\ (r = None => InRegister(r) = << >>)
                                       /\ (r # None => r \in Byte /\ InRegister(r) = <<r>>)
  BY DEF InRegister

(* The first byte of a ring and the rest.                                  *)
LEMMA TakeFirst ==
    ASSUME NEW ring \in [Index -> Byte], NEW f \in Index, NEW t \in Index, f # t
    PROVE  /\ ring[f] \in Byte /\ Slot(f, 1) \in Index
           /\ elements(ring, f, t) = <<ring[f]>> \o elements(ring, Slot(f, 1), t)
  <1> USE BlockFifoAssumption
  <1>1. 1 \in 0 .. Count(f, t) /\ 1 \in 0 .. FifoLen - 1
    BY DEF Index, Count
  <1>2. Slot(f, 1) \in Index /\ Slot(f, 0) = f
    BY DEF Slot, Index
  <1> DEFINE s == <<ring[f]>>
  <1>3. s \in Seq(Byte) /\ Len(s) = 1 /\ s[1] = ring[f]
    OBVIOUS
  <1> HIDE DEF s
  <1>4. \A k \in 1 .. Len(s) : ring[Slot(f, k - 1)] = s[k]
    BY ONLY <1>2, <1>3
  <1>5. elements(ring, f, Slot(f, Len(s))) = s
    <2>1. Len(s) <= FifoLen - 1
      BY <1>3
    <2> QED
      BY <1>3, <1>4, <2>1, BlockHolds, Zenon
  <1>6. elements(ring, f, t) = elements(ring, f, Slot(f, 1)) \o elements(ring, Slot(f, 1), t)
    BY ONLY <1>1, Split, Zenon
  <1> QED
    BY ONLY <1>2, <1>3, <1>5, <1>6, Zenon DEF s

(* A byte that moves from the ring to the data register stays in its place. *)
LEMMA Refill ==
    ASSUME TxInv, TxInv', DR = None, shift' = shift, txBuf' = txBuf, txWrite' = txWrite,
           Slot(txRead, TxMoved) # txWrite,
           DR' = txBuf[Slot(txRead, TxMoved)],
           Slot(txRead', TxMoved') = Slot(Slot(txRead, TxMoved), 1)
    PROVE  Accepted' = Accepted
  <1> DEFINE f == Slot(txRead, TxMoved)
             S == InRegister(shift)
             x == txBuf[f]
             E == elements(txBuf, Slot(f, 1), txWrite)
  <1>1. f \in Index /\ Accepted = S \o InRegister(DR) \o elements(txBuf, f, txWrite)
    BY AcceptedIs, Zenon DEF AcceptedForm
  <1>2. Accepted' = S \o InRegister(DR') \o E
    BY AcceptedNext, Zenon DEF AcceptedForm
  <1>3. x \in Byte /\ Slot(f, 1) \in Index /\ elements(txBuf, f, txWrite) = <<x>> \o E
    BY <1>1, TakeFirst, ZenonT(30) DEF TxInv, TxType
  <1>4. E \in Seq(Byte) /\ S \in Seq(Byte)
    BY <1>3, Elements, Register, Zenon DEF TxInv, TxType
  <1>5. InRegister(DR) = << >> /\ InRegister(DR') = <<x>>
    BY <1>3, ByteAssumption, Zenon DEF InRegister
  <1>6. <<x>> \in Seq(Byte)
    BY ONLY <1>3
  <1> HIDE DEF f, S, x, E
  <1>7. S \o << >> = S
    BY ONLY <1>4, ConcatEmptySeq, Zenon
  <1>8. S \o (<<x>> \o E) = S \o <<x>> \o E
    BY ONLY <1>4, <1>6, ConcatAssociative
  <1> QED
    BY ONLY <1>1, <1>2, <1>3, <1>5, <1>7, <1>8, Zenon

(* The interrupt TXE.                                                      *)
LEMMA TxStepTXE ==
    ASSUME TxInv, isDMAEnabled' = isDMAEnabled, TXEIRQ
    PROVE  TxInv' /\ Accepted' = Accepted
  <1> USE BlockFifoAssumption DEF TxInv
  <1>1. ~isDMAEnabled /\ ~DMATransmitRunning /\ DR = None
    BY Zenon DEF TxStream, TXEIRQ, TransmitEmpty
  <1>2. UNCHANGED <<txBuf, txWrite, txDma, shift, line, wpc, data, copied, CR1>>
    BY Zenon DEF TXEIRQ, writerVars
  <1>3. CASE txRead # txWrite
    <2>1. DR' = txBuf[txRead] /\ txRead' = advanceIndex(txRead) /\ interrupts' = interrupts
      BY <1>3, Zenon DEF TXEIRQ
    <2>2. 1 \in 0 .. FifoLen - 1 /\ 1 <= Count(txRead, txWrite)
      BY <1>3 DEF TxType, Index, Count
    <2>3. txRead' = Slot(txRead, 1) /\ txRead' \in Index
      BY <2>1, <2>2, Advance, Zenon DEF TxType
    <2>4. TxType'
      BY <1>2, <2>1, <2>3, Zenon DEF TxType, txDma
    <2>5. blockToWrite(txRead', txWrite) >= blockToWrite(txRead, txWrite)
      BY <2>2, <2>3, BlocksGrow, Zenon DEF TxType
    <2>6. TxCopy'
      <3>1. blockToWrite(txRead', txWrite) \in Nat /\ blockToWrite(txRead, txWrite) \in Nat /\ Len(data) \in Nat
        BY <2>3, Blocks, LenProperties DEF TxType
      <3> QED
        BY <1>2, <2>5, <3>1 DEF TxCopy
    <2>7. TxStream'
      BY <1>1, <1>2, <2>1, Zenon DEF TxStream, txDma
    <2>8. TxMoved = 0 /\ TxMoved' = 0 /\ Slot(txRead, 0) = txRead /\ Slot(txRead', 0) = txRead'
      BY <1>1, <1>2, <2>3 DEF TxMoved, txDma, Slot, TxType, Index
    <2> QED
      BY <1>1, <1>2, <1>3, <2>1, <2>3, <2>4, <2>6, <2>7, <2>8, Refill
  <1>4. CASE txRead = txWrite
    <2>1. UNCHANGED <<DR, txRead>>
      BY <1>4, Zenon DEF TXEIRQ
    <2>2. TxType' /\ TxCopy'
      BY <1>2, <2>1, Zenon DEF TxType, TxCopy, txDma
    <2>3. TxStream'
      BY <1>1, <1>2, <2>1, Zenon DEF TxStream, txDma
    <2>4. Accepted' = Accepted
      BY ONLY <1>2, <2>1, Zenon DEF Accepted, txDma
    <2> QED
      BY ONLY <2>2, <2>3, <2>4, Zenon
  <1> QED
    BY ONLY <1>3, <1>4, Zenon

(* The DMA stream takes a byte.                                            *)
LEMMA TxStepTransfer ==
    ASSUME TxInv, isDMAEnabled' = isDMAEnabled, DMATransfer
    PROVE  TxInv' /\ Accepted' = Accepted
  <1> USE BlockFifoAssumption DEF TxInv
  <1>1. /\ DMATransmitRunning /\ isDMAEnabled /\ txLeft > 0 /\ DR = None
        /\ DMATransmitRunningSize <= blockToRead(txRead, txWrite) /\ txLeft <= DMATransmitRunningSize
        /\ txPos = txRead + DMATransmitRunningSize - txLeft
    BY DEF TxType, TxStream, DMATransfer
  <1>2. UNCHANGED <<txRing, interrupts, DMATransmitRunning, DMATransmitRunningSize, shift, line,
                    wpc, data, copied, CR1>>
    BY Zenon DEF DMATransfer, writerVars
  <1>3. /\ blockToRead(txRead, txWrite) \in 0 .. Count(txRead, txWrite)
        /\ Count(txRead, txWrite) \in 0 .. FifoLen - 1
        /\ txRead + blockToRead(txRead, txWrite) <= FifoLen
    BY Blocks, Zenon DEF TxType
  <1>4. TxMoved \in 0 .. Count(txRead, txWrite) - 1 /\ TxMoved' = TxMoved + 1 /\ txPos = txRead + TxMoved
    BY <1>1, <1>2, <1>3 DEF TxType, TxMoved, DMATransfer
  <1>5. txPos \in Index /\ Slot(txRead, TxMoved) = txPos
    BY <1>1, <1>3, <1>4 DEF TxType, Slot, Index
  <1>6. txPos # txWrite
    BY <1>3, <1>4 DEF TxType, Count, Index, blockToRead
  <1>7. Slot(txRead, TxMoved') = Slot(txPos, 1)
    BY <1>1, <1>3, <1>4, <1>5 DEF TxType, Slot, Index
  <1>8. TxType'
    <2>1. txBuf[txPos] \in Byte
      BY <1>5, Zenon DEF TxType
    <2>2. txPos' \in Nat /\ txLeft' \in Nat
      BY <1>1 DEF TxType, DMATransfer
    <2>3. txFinished' \in BOOLEAN
      BY Zenon DEF DMATransfer
    <2> QED
      BY <1>2, <2>1, <2>2, <2>3, Zenon DEF TxType, txRing, DMATransfer
  <1>9. TxCopy'
    BY <1>2, Zenon DEF TxCopy, txRing
  <1>10. TxStream'
    <2>1. /\ txLeft' = txLeft - 1 /\ txPos' = txPos + 1 /\ txFinished' = (txLeft = 1)
      BY Zenon DEF DMATransfer
    <2>2. /\ txLeft' <= DMATransmitRunningSize
          /\ txPos' = txRead + DMATransmitRunningSize - txLeft'
          /\ txLeft' = 0 <=> txLeft = 1
      BY <1>1, <2>1 DEF TxType, Index
    <2>3. txFinished' <=> txLeft' = 0
      BY <2>1, <2>2, Zenon
    <2> QED
      BY <1>1, <1>2, <2>2, <2>3, Zenon DEF TxStream, txRing
  <1>11. DR' = txBuf[txPos]
    BY Zenon DEF DMATransfer
  <1> QED
    BY <1>1, <1>2, <1>5, <1>6, <1>7, <1>8, <1>9, <1>10, <1>11, Refill DEF txRing

(* Bytes that follow the contents of the ring are appended to them when    *)
(* the write index is moved.                                               *)
LEMMA Extend ==
    ASSUME NEW ring \in [Index -> Byte], NEW f \in Index, NEW w \in Index, NEW s \in Seq(Byte),
           Len(s) <= FifoLen - 1 - Count(f, w),
           \A k \in 1 .. Len(s) : ring[Slot(w, k - 1)] = s[k]
    PROVE  /\ Slot(w, Len(s)) \in Index
           /\ elements(ring, f, Slot(w, Len(s))) = elements(ring, f, w) \o s
  <1> USE BlockFifoAssumption
  <1> DEFINE n == Len(s)
             t == Slot(w, n)
             c == Count(f, w)
  <1>1. c \in 0 .. FifoLen - 1 /\ Slot(f, c) = w
    BY ONLY Blocks, Zenon
  <1>2. n \in Nat /\ n <= FifoLen - 1 - c /\ n \in 0 .. FifoLen - 1
    BY <1>1, LenProperties
  <1>3. t \in Index
    BY ONLY <1>2, Advance, Zenon
  <1>4. Count(f, t) = c + n
    BY ONLY <1>2, BlocksGrow, Zenon
  <1>5. elements(ring, w, t) = s
    BY <1>2, BlockHolds
  <1> HIDE DEF c, n, t
  <1>6. c \in 0 .. Count(f, t)
    BY ONLY <1>1, <1>2, <1>4
  <1>7. elements(ring, f, t) = elements(ring, f, Slot(f, c)) \o elements(ring, Slot(f, c), t)
    BY ONLY <1>3, <1>6, Split, Zenon
  <1> QED
    BY ONLY <1>1, <1>3, <1>5, <1>7, Zenon DEF n, t

(* A slot of the free block holds no byte of the contents.                 *)
LEMMA FreeSlot ==
    ASSUME NEW r \in Index, NEW w \in Index, NEW m \in 0 .. Count(r, w),
           NEW k \in 0 .. Count(Slot(r, m), w) - 1, NEW c \in Nat, c < blockToWrite(r, w)
    PROVE  Slot(Slot(r, m), k) # w + c
  <1>1. Count(r, w) \in Nat /\ Count(Slot(r, m), w) = Count(r, w) - m
    BY ONLY Blocks, BlocksGrow
  <1>2. Slot(Slot(r, m), k) = Slot(r, m + k) /\ m + k < Count(r, w)
    BY ONLY <1>1, BlockFifoAssumption DEF Slot, Count, Index
  <1>3. \A j \in Nat : j < Count(r, w) => Slot(r, j) # w + c
    BY BlockFifoAssumption DEF Slot, Count, Index, blockToWrite, advanceIndex
  <1> QED
    BY ONLY <1>1, <1>2, <1>3

(* write copies a byte, unseen by the other side.                          *)
LEMMA TxStepCopy ==
    ASSUME TxInv, isDMAEnabled' = isDMAEnabled, WriteCopy
    PROVE  TxInv' /\ Accepted' = Accepted
  <1> USE BlockFifoAssumption
  <1> DEFINE f == Slot(txRead, TxMoved)
  <1>1. TxInv'
    BY TxInvCopy, Zenon
  <1>2. /\ f \in Index /\ TxMoved \in 0 .. blockToRead(txRead, txWrite)
        /\ Accepted = InRegister(shift) \o InRegister(DR) \o elements(txBuf, f, txWrite)
    BY AcceptedIs, Zenon DEF AcceptedForm
  <1>3. UNCHANGED <<txRead, txWrite, DMATransmitRunning, DMATransmitRunningSize, txLeft, shift, DR>>
    BY Zenon DEF WriteCopy, txDma, txLine
  <1>4. TxMoved' = TxMoved
    BY ONLY <1>3, Zenon DEF TxMoved
  <1>5. Accepted' = InRegister(shift) \o InRegister(DR) \o elements(txBuf', f, txWrite)
    BY ONLY <1>1, <1>3, <1>4, AcceptedNext, Zenon DEF AcceptedForm
  <1>6. TxMoved \in 0 .. Count(txRead, txWrite)
    <2>1. blockToRead(txRead, txWrite) \in 0 .. Count(txRead, txWrite) /\ Count(txRead, txWrite) \in Nat
      BY Blocks DEF TxInv, TxType
    <2> QED
      BY ONLY <1>2, <2>1
  <1>7. copied \in Nat /\ copied < blockToWrite(txRead, txWrite)
    <2>1. blockToWrite(txRead, txWrite) \in Nat /\ Len(data) \in Nat
      BY Blocks, LenProperties DEF TxInv, TxType
    <2> QED
      BY <2>1 DEF TxInv, TxType, TxCopy, WriteCopy
  <1>8. \A k \in 0 .. Count(f, txWrite) - 1 : Slot(f, k) # txWrite + copied
    BY <1>6, <1>7, FreeSlot, Zenon DEF TxInv, TxType
  <1>9. \A k \in 0 .. Count(f, txWrite) - 1 : Slot(f, k) \in Index
    <2>1. Count(f, txWrite) \in 0 .. FifoLen - 1
      BY <1>2, Blocks, Zenon DEF TxInv, TxType
    <2> HIDE DEF f
    <2>2. \A k \in 0 .. Count(f, txWrite) - 1 : k \in 0 .. FifoLen - 1
      BY <2>1
    <2> QED
      BY ONLY <1>2, <2>2, Advance, Zenon
  <1> HIDE DEF f
  <1>10. \A k \in 0 .. Count(f, txWrite) - 1 : txBuf'[Slot(f, k)] = txBuf[Slot(f, k)]
    BY <1>8, <1>9, Zenon DEF WriteCopy, TxInv, TxType
  <1>11. elements(txBuf', f, txWrite) = elements(txBuf, f, txWrite)
    BY <1>1, <1>2, <1>10, SameContents, Zenon DEF TxInv, TxType
  <1> QED
    BY ONLY <1>1, <1>2, <1>5, <1>11, Zenon

(* writeConcluded publishes the bytes.                                     *)
LEMMA TxStepConcluded ==
    ASSUME TxInv, isDMAEnabled' = isDMAEnabled, writeConcluded
    PROVE  TxInv' /\ Accepted' = Accepted \o data
  <1> USE BlockFifoAssumption
  <1> DEFINE f == Slot(txRead, TxMoved)
             R == InRegister(shift) \o InRegister(DR)
  <1>1. /\ TxInv'
        /\ Len(data) \in 0 .. FifoLen - 1 - Count(txRead, txWrite)
        /\ txWrite' = Slot(txWrite, Len(data))
    BY TxInvConcluded, Zenon
  <1>2. /\ f \in Index /\ TxMoved \in 0 .. blockToRead(txRead, txWrite)
        /\ Accepted = R \o elements(txBuf, f, txWrite)
    BY AcceptedIs, Zenon DEF AcceptedForm
  <1>3. UNCHANGED <<txBuf, txRead, DMATransmitRunning, DMATransmitRunningSize, txLeft, shift, DR>>
    BY Zenon DEF writeConcluded, txDma, txLine
  <1>4. TxMoved' = TxMoved
    BY ONLY <1>3, Zenon DEF TxMoved
  <1>5. Accepted' = R \o elements(txBuf, f, txWrite')
    BY ONLY <1>1, <1>3, <1>4, AcceptedNext, Zenon DEF AcceptedForm
  <1>6. Len(data) <= FifoLen - 1 - Count(f, txWrite) /\ Len(data) \in Nat
    <2>1. /\ blockToRead(txRead, txWrite) \in 0 .. Count(txRead, txWrite)
          /\ Count(txRead, txWrite) \in 0 .. FifoLen - 1
      BY Blocks, Zenon DEF TxInv, TxType
    <2>2. TxMoved \in Nat /\ TxMoved <= Count(txRead, txWrite)
      BY ONLY <1>2, <2>1
    <2>3. Count(f, txWrite) = Count(txRead, txWrite) - TxMoved
      BY <2>2, BlocksGrow, Zenon DEF TxInv, TxType
    <2> QED
      BY <1>1, <2>1, <2>2, <2>3
  <1>7. \A k \in 1 .. Len(data) : txBuf[Slot(txWrite, k - 1)] = data[k]
    <2>1. \A k \in 1 .. Len(data) : txBuf[txWrite + k - 1] = data[k]
      BY Zenon DEF TxInv, TxCopy, writeConcluded
    <2>2. txWrite + Len(data) <= FifoLen
      <3>1. blockToWrite(txRead, txWrite) \in Nat /\ txWrite + blockToWrite(txRead, txWrite) <= FifoLen
        BY Blocks DEF TxInv, TxType
      <3> QED
        BY <1>6, <3>1 DEF TxInv, TxType, TxCopy, Index
    <2>3. \A k \in 1 .. Len(data) : Slot(txWrite, k - 1) = txWrite + k - 1
      BY <1>6, <2>2 DEF Slot, TxInv, TxType, Index
    <2> QED
      BY ONLY <2>1, <2>3, Zenon
  <1> HIDE DEF f, R
  <1>8. elements(txBuf, f, txWrite') = elements(txBuf, f, txWrite) \o data
    <2>1. txBuf \in [Index -> Byte] /\ txWrite \in Index /\ data \in Seq(Byte)
      BY Zenon DEF TxInv, TxType
    <2>2. Len(data) <= FifoLen - 1 - Count(f, txWrite)
      BY ONLY <1>6, Zenon
    <2>3. elements(txBuf, f, Slot(txWrite, Len(data))) = elements(txBuf, f, txWrite) \o data
      BY ONLY <1>2, <1>7, <2>1, <2>2, Extend, Zenon
    <2> QED
      BY ONLY <1>1, <2>3, Zenon
  <1>9. R \in Seq(Byte) /\ elements(txBuf, f, txWrite) \in Seq(Byte) /\ data \in Seq(Byte)
    <2>1. InRegister(shift) \in Seq(Byte) /\ InRegister(DR) \in Seq(Byte)
      BY Register, Zenon DEF TxInv, TxType
    <2>2. R \in Seq(Byte)
      BY ONLY <2>1, ConcatProperties, Zenon DEF R
    <2> QED
      BY <1>2, <2>2, Elements, Zenon DEF TxInv, TxType
  <1>10. (R \o elements(txBuf, f, txWrite)) \o data = R \o (elements(txBuf, f, txWrite) \o data)
    BY ONLY <1>9, ConcatAssociative
  <1> QED
    BY ONLY <1>1, <1>2, <1>5, <1>8, <1>10, Zenon

(* The line: a byte leaves the shift register, or enters it.               *)
LEMMA TxStepShift ==
    ASSUME TxInv, isDMAEnabled' = isDMAEnabled, Shift
    PROVE  TxInv' /\ ((Accepted' = Accepted /\ line' = line) \/ Accepted = <<line'>> \o Accepted')
  <1> DEFINE f == Slot(txRead, TxMoved)
             E == elements(txBuf, f, txWrite)
  <1>1. UNCHANGED <<txRing, interrupts, txDma, wpc, data, copied, CR1>>
    BY Zenon DEF Shift, writerVars
  <1>2. TxInv'
    <2>1. DR' \in Byte \cup {None} /\ shift' \in Byte \cup {None}
      BY Zenon DEF Shift, TxInv, TxType
    <2>2. TxType'
      BY <1>1, <2>1, Zenon DEF TxInv, TxType, txRing, txDma
    <2>3. TxCopy'
      BY <1>1, Zenon DEF TxInv, TxCopy, txRing
    <2>4. TxStream'
      BY <1>1, Zenon DEF TxInv, TxStream, txRing, txDma
    <2> QED
      BY ONLY <2>2, <2>3, <2>4, Zenon DEF TxInv
  <1>3. f \in Index /\ Accepted = InRegister(shift) \o InRegister(DR) \o E
    BY AcceptedIs, Zenon DEF AcceptedForm
  <1>4. TxMoved' = TxMoved
    BY ONLY <1>1, Zenon DEF TxMoved, txDma
  <1>5. Accepted' = InRegister(shift') \o InRegister(DR') \o E
    BY ONLY <1>1, <1>2, <1>4, AcceptedNext, Zenon DEF AcceptedForm, txRing
  <1>6. E \in Seq(Byte)
    BY <1>3, Elements, Zenon DEF TxInv, TxType
  <1> HIDE DEF f, E
  <1>7. CASE shift = None /\ DR # None /\ shift' = DR /\ DR' = None /\ UNCHANGED line
    <2>1. InRegister(shift) = << >> /\ InRegister(DR') = << >> /\ InRegister(shift') = InRegister(DR)
      BY ONLY <1>7, Zenon DEF InRegister
    <2>2. InRegister(DR) \in Seq(Byte)
      BY Register, Zenon DEF TxInv, TxType
    <2>3. << >> \o InRegister(DR) = InRegister(DR) /\ InRegister(DR) \o << >> = InRegister(DR)
      BY ONLY <2>2, ConcatEmptySeq, Zenon
    <2> QED
      BY ONLY <1>2, <1>3, <1>5, <1>7, <2>1, <2>3
  <1>8. CASE shift # None /\ line' = shift /\ shift' = None /\ UNCHANGED DR
    <2>1. /\ InRegister(shift) = <<line'>> /\ InRegister(shift') = << >> /\ InRegister(DR') = InRegister(DR)
          /\ line' \in Byte
      BY <1>8, Zenon DEF InRegister, TxInv, TxType
    <2>2. InRegister(DR) \in Seq(Byte) /\ <<line'>> \in Seq(Byte)
      BY <2>1, Register, Zenon DEF TxInv, TxType
    <2>3. << >> \o InRegister(DR) = InRegister(DR)
      BY ONLY <2>2, ConcatEmptySeq, Zenon
    <2>4. (<<line'>> \o InRegister(DR)) \o E = <<line'>> \o (InRegister(DR) \o E)
      BY ONLY <1>6, <2>2, ConcatAssociative
    <2> QED
      BY ONLY <1>2, <1>3, <1>5, <2>1, <2>3, <2>4, Zenon
  <1> QED
    BY <1>7, <1>8, Zenon DEF Shift

(* Every step of the transmitting side.                                    *)
LEMMA TxStep ==
    ASSUME TxInv, isDMAEnabled' = isDMAEnabled, Transmit \/ TransmitIRQ
    PROVE  TxInv' /\ SentStep
  <1>1. CASE (\E bytes \in Bytes : write(bytes)) \/ (\E c \in Byte : putcharNoWait(c))
    <2>1. TxInv' /\ UNCHANGED <<txRing, txDma, txLine>>
      BY <1>1, TxInvCall, Zenon
    <2> QED
      BY ONLY <2>1, Zenon DEF SentStep, Accepted, txRing, txDma, txLine
  <1>2. CASE DisableTC \/ EnableTXE \/ WriteTest \/ suspendUntilWriteFinished \/ TCIRQ
    <2>1. TxInv' /\ UNCHANGED <<txRing, txDma, txLine>>
      BY <1>2, TxInvControl, Zenon
    <2> QED
      BY ONLY <2>1, Zenon DEF SentStep, Accepted, txRing, txDma, txLine
  <1>3. CASE WriteCopy
    BY <1>3, TxStepCopy, Zenon DEF SentStep, WriteCopy, txLine
  <1>4. CASE writeConcluded
    BY <1>4, TxStepConcluded, Zenon DEF SentStep, writeConcluded, txLine
  <1>5. CASE WriteSend
    <2>1. TxInv' /\ TxMoved = 0 /\ TxMoved' = 0 /\ UNCHANGED <<txRing, txLine>>
      BY <1>5, TxInvSend, Zenon
    <2>2. Accepted' = Accepted
      BY <2>1, AcceptedIs, AcceptedNext, Zenon DEF AcceptedForm, txRing, txLine
    <2> QED
      BY ONLY <2>1, <2>2, Zenon DEF SentStep, txLine
  <1>6. CASE DMATransmitFinishedHandler
    <2>1. /\ TxInv' /\ UNCHANGED <<txBuf, txWrite, txLine>>
          /\ Slot(txRead', TxMoved') = Slot(txRead, TxMoved)
      BY <1>6, TxInvFinished, Zenon
    <2>2. Accepted' = Accepted
      BY <2>1, AcceptedIs, AcceptedNext, Zenon DEF AcceptedForm, txLine
    <2> QED
      BY ONLY <2>1, <2>2, Zenon DEF SentStep, txLine
  <1>7. CASE DMATransfer
    BY <1>7, TxStepTransfer, Zenon DEF SentStep, DMATransfer
  <1>8. CASE TXEIRQ
    BY <1>8, TxStepTXE, Zenon DEF SentStep, TXEIRQ
  <1>9. CASE Shift
    BY <1>9, TxStepShift, Zenon DEF SentStep
  <1> QED
    BY <1>1, <1>2, <1>3, <1>4, <1>5, <1>6, <1>7, <1>8, <1>9 DEF Transmit, TransmitIRQ, WriteStep

(* The steps of the receiving side leave the transmitting one alone.       *)
LEMMA TxNext == TxInv /\ [Next]_vars => TxInv' /\ [SentStep]_txVars
  <1> SUFFICES ASSUME TxInv, [Next]_vars PROVE TxInv' /\ [SentStep]_txVars
    OBVIOUS
  <1>1. CASE Transmits /\ (Transmit \/ TransmitIRQ)
    BY <1>1, TxStep, Zenon DEF Transmits
  <1>2. CASE UNCHANGED <<isDMAEnabled, txVars>>
    <2>1. UNCHANGED <<isDMAEnabled, txRing, interrupts, txDma, txLine, writerVars>>
      BY ONLY <1>2, Zenon DEF txVars
    <2>2. TxType' /\ TxCopy' /\ TxStream'
      BY <2>1, Zenon DEF TxInv, TxType, TxCopy, TxStream, txRing, txDma, txLine, writerVars
    <2> QED
      BY ONLY <1>2, <2>2, Zenon DEF TxInv
  <1> QED
    BY <1>1, <1>2, Zenon DEF Next, UARTIRQHandler, Receives, vars

(* The bytes that write and putcharNoWait accept are sent once each and in *)
(* their order, for every size of ring and of calls, with interrupts and   *)
(* with DMA (hal_uart.cpp:547, 812, 910).                                  *)
THEOREM SentOnceInOrder == Spec => SentInOrder
  <1>1. Init => TxInv
    BY ONLY TxInvInit, Zenon
  <1>2. TxInv /\ [Next]_vars => TxInv' /\ [SentStep]_txVars
    BY ONLY TxNext, Zenon
  <1>3. SentInOrder <=> [][SentStep]_txVars
    BY Zenon DEF SentInOrder, SentStep
  <1> QED
    BY <1>1, <1>2, <1>3, PTL DEF Spec

-----------------------------------------------------------------------------
(* The invariant of the receiving side.  What read is copying is in the    *)
(* block it was given, and the block the stream fills is free.             *)
RxType ==
    /\ isDMAEnabled \in BOOLEAN
    /\ rxBuf \in [Index -> Byte] /\ rxRead \in Index /\ rxWrite \in Index
    /\ DMAReceiveRunning \in BOOLEAN /\ DMAReceiveRunningSize \in Nat
    /\ rxEnabled \in BOOLEAN /\ rxPos \in Nat /\ rxLeft \in Nat /\ rxFinished \in BOOLEAN
    /\ RDR \in Byte \cup {None} /\ uartRxError \in 0 .. UInt - 1
    /\ readCnt \in Nat /\ got \in Seq(Byte)

RxCopy ==
    /\ Len(got) <= readCnt /\ readCnt <= blockToRead(rxRead, rxWrite)
    /\ \A k \in 1 .. Len(got) : rxBuf[rxRead + k - 1] = got[k]
    /\ rpc # "copy" => got = << >> /\ readCnt = 0

RxStream ==
    /\ DMAReceiveRunning =>
           /\ isDMAEnabled
           /\ DMAReceiveRunningSize <= blockToWrite(rxRead, rxWrite)
           /\ rxLeft <= DMAReceiveRunningSize
           /\ rxPos = rxWrite + DMAReceiveRunningSize - rxLeft
    /\ rxEnabled => DMAReceiveRunning /\ rxLeft > 0 /\ ~rxFinished
    /\ rxFinished => DMAReceiveRunning
    /\ rpc = "receive" => isDMAEnabled /\ ~DMAReceiveRunning

RxInv == RxType /\ RxCopy /\ RxStream

(* How many bytes the running transfer has stored.                         *)
RxMoved == IF DMAReceiveRunning THEN DMAReceiveRunningSize - rxLeft ELSE 0

ReceivedStep ==
    \/ Received' = Received
    \/ RDR = None /\ Received' = Append(Received, RDR')
    \/ Received = got \o Received'
    \/ \E b \in Byte : Received = Append(Received', b) /\ uartRxError' # uartRxError

(* The received bytes in terms of slots.                                   *)
ReceivedForm ==
    /\ RxMoved \in 0 .. blockToWrite(rxRead, rxWrite)
    /\ Slot(rxWrite, RxMoved) \in Index
    /\ Count(rxRead, Slot(rxWrite, RxMoved)) = Count(rxRead, rxWrite) + RxMoved
    /\ Received = elements(rxBuf, rxRead, Slot(rxWrite, RxMoved)) \o InRegister(RDR)
    /\ elements(rxBuf, rxRead, Slot(rxWrite, RxMoved)) \in Seq(Byte)
    /\ InRegister(RDR) \in Seq(Byte)

(* The bytes that were received have this form in every state,             *)
LEMMA ReceivedIs == RxInv => ReceivedForm
  <1> SUFFICES ASSUME RxInv PROVE ReceivedForm
    OBVIOUS
  <1>1. /\ blockToWrite(rxRead, rxWrite) \in 0 .. FifoLen - 1 - Count(rxRead, rxWrite)
        /\ Count(rxRead, rxWrite) \in 0 .. FifoLen - 1
    BY Blocks, Zenon DEF RxInv, RxType
  <1>2. RxMoved \in 0 .. blockToWrite(rxRead, rxWrite)
    BY <1>1, BlockFifoAssumption DEF RxInv, RxType, RxStream, RxMoved
  <1>3. RxMoved \in 0 .. FifoLen - 1 /\ RxMoved \in Nat /\ RxMoved <= FifoLen - 1 - Count(rxRead, rxWrite)
    BY ONLY <1>1, <1>2, BlockFifoAssumption
  <1>4. Slot(rxWrite, RxMoved) \in Index /\ (rxWrite + RxMoved) % FifoLen = Slot(rxWrite, RxMoved)
    BY <1>3, Advance, Zenon DEF RxInv, RxType
  <1>5. Count(rxRead, Slot(rxWrite, RxMoved)) = Count(rxRead, rxWrite) + RxMoved
    BY <1>3, BlocksGrow, Zenon DEF RxInv, RxType
  <1>6. InRegister(RDR) \in Seq(Byte) /\ elements(rxBuf, rxRead, Slot(rxWrite, RxMoved)) \in Seq(Byte)
    BY <1>4, Register, Elements, Zenon DEF RxInv, RxType
  <1> QED
    BY ONLY <1>2, <1>4, <1>5, <1>6, Zenon DEF Received, RxMoved, ReceivedForm

(* also in the one after a step.                                           *)
LEMMA ReceivedNext == RxInv' => ReceivedForm'
  BY ReceivedIs, PTL

(* The invariant holds after init and config, which starts the stream.     *)
LEMMA RxInvInit == Init => RxInv
  <1> SUFFICES ASSUME Init PROVE RxInv
    OBVIOUS
  <1> USE BlockFifoAssumption, ByteAssumption, ReadAssumption DEF Init, ReceiveInit
  <1> DEFINE len == smaller(blockToWrite(0, 0), DMAMaxReceiveSize)
  <1>1. 0 \in Index /\ blockToWrite(0, 0) \in Nat \ {0} /\ blockToRead(0, 0) = 0
    BY DEF Index, blockToWrite, blockToRead, advanceIndex
  <1>2. len \in Nat \ {0} /\ len <= blockToWrite(0, 0)
    BY <1>1 DEF smaller
  <1> HIDE DEF len
  <1>3. isDMAEnabled \in BOOLEAN /\ rxLeft = IF isDMAEnabled THEN len ELSE 0
    BY Zenon DEF len
  <1>4. rxLeft \in Nat
    BY ONLY <1>2, <1>3, Zenon
  <1>5. RxType
    <2>1. /\ rxBuf \in [Index -> Byte] /\ rxRead \in Index /\ rxWrite \in Index
          /\ DMAReceiveRunningSize \in Nat /\ rxPos \in Nat
          /\ RDR \in Byte \cup {None} /\ uartRxError \in 0 .. UInt - 1 /\ readCnt \in Nat
      BY <1>1, <1>4
    <2>2. got \in Seq(Byte)
      OBVIOUS
    <2>3. DMAReceiveRunning \in BOOLEAN /\ rxEnabled \in BOOLEAN /\ rxFinished \in BOOLEAN
      BY <1>3, Zenon
    <2> QED
      BY ONLY <1>3, <1>4, <2>1, <2>2, <2>3, Zenon DEF RxType
  <1>6. RxCopy
    BY <1>1 DEF RxCopy
  <1>7. RxStream
    <2>1. rxLeft <= rxLeft /\ rxPos = rxWrite + DMAReceiveRunningSize - rxLeft
      BY <1>4
    <2>2. isDMAEnabled => rxLeft > 0 /\ DMAReceiveRunningSize <= blockToWrite(rxRead, rxWrite)
      BY <1>2, <1>3
    <2> QED
      BY <2>1, <2>2, Zenon DEF RxStream
  <1> QED
    BY ONLY <1>5, <1>6, <1>7, Zenon DEF RxInv

(* Starting to receive: the free block, or nothing when the ring is full.  *)
LEMMA StartReceive ==
    ASSUME NEW r \in Index, NEW w \in Index, uartRxError \in 0 .. UInt - 1, RceiveIntoRxBufWithDMA(r, w)
    PROVE  /\ uartRxError' \in 0 .. UInt - 1
           /\ DMAReceiveRunning' \in BOOLEAN
           /\ DMAReceiveRunning' => /\ DMAReceiveRunningSize' \in Nat
                                    /\ DMAReceiveRunningSize' <= blockToWrite(r, w)
                                    /\ rxLeft' = DMAReceiveRunningSize' /\ rxLeft' > 0
                                    /\ rxPos' = w /\ rxEnabled' = TRUE
           /\ ~DMAReceiveRunning' => UNCHANGED <<DMAReceiveRunningSize, rxEnabled, rxPos, rxLeft>>
  <1> USE ReadAssumption
  <1>1. blockToWrite(r, w) \in Nat
    BY ONLY Blocks, BlockFifoAssumption
  <1>2. counted(uartRxError) \in 0 .. UInt - 1
    BY DEF counted
  <1>3. CASE blockToWrite(r, w) > 0
    <2>1. /\ smaller(blockToWrite(r, w), DMAMaxReceiveSize) \in Nat
          /\ smaller(blockToWrite(r, w), DMAMaxReceiveSize) <= blockToWrite(r, w)
          /\ smaller(blockToWrite(r, w), DMAMaxReceiveSize) > 0
      BY <1>1, <1>3 DEF smaller
    <2> QED
      BY <1>3, <2>1, Zenon DEF RceiveIntoRxBufWithDMA
  <1>4. CASE ~(blockToWrite(r, w) > 0)
    BY <1>2, <1>4, Zenon DEF RceiveIntoRxBufWithDMA
  <1> QED
    BY <1>3, <1>4, Zenon

(* A byte that is stored in the first free slot.                           *)
LEMMA StoreByte ==
    ASSUME NEW ring \in [Index -> Byte], NEW r \in Index, NEW e \in Index, NEW x \in Byte,
           Count(r, e) + 1 <= FifoLen - 1,
           NEW ring2 \in [Index -> Byte], ring2[e] = x, \A i \in Index : i # e => ring2[i] = ring[i]
    PROVE  /\ \A k \in 0 .. Count(r, e) - 1 : ring2[Slot(r, k)] = ring[Slot(r, k)]
           /\ elements(ring2, r, Slot(e, 1)) = elements(ring, r, e) \o <<x>>
  <1> USE BlockFifoAssumption
  <1> DEFINE s == <<x>>
  <1>1. ring2 \in [Index -> Byte] /\ ring2[e] = x /\ \A i \in Index : i # e => ring2[i] = ring[i]
    OBVIOUS
  <1>2. \A k \in 0 .. Count(r, e) - 1 : Slot(r, k) \in Index /\ Slot(r, k) # e
    BY DEF Slot, Count, Index
  <1>3. \A k \in 0 .. Count(r, e) - 1 : ring2[Slot(r, k)] = ring[Slot(r, k)]
    BY ONLY <1>1, <1>2, Zenon
  <1>4. elements(ring2, r, e) = elements(ring, r, e)
    BY ONLY <1>1, <1>3, SameContents, Zenon
  <1>5. s \in Seq(Byte) /\ Len(s) = 1 /\ s[1] = x
    OBVIOUS
  <1> HIDE DEF s
  <1>6. Slot(e, 0) = e
    BY DEF Slot, Index
  <1>7. \A k \in 1 .. Len(s) : ring2[Slot(e, k - 1)] = s[k]
    BY ONLY <1>1, <1>5, <1>6
  <1>8. Len(s) <= FifoLen - 1 - Count(r, e)
    BY <1>5 DEF Count, Index
  <1>9. elements(ring2, r, Slot(e, Len(s))) = elements(ring2, r, e) \o s
    BY ONLY <1>1, <1>5, <1>7, <1>8, Extend, r \in Index, e \in Index, Zenon
  <1> QED
    BY ONLY <1>1, <1>3, <1>4, <1>5, <1>9, Zenon DEF s

(* The reader: a call begins, copies, tests, resets and waits.             *)
LEMMA RxStepReader ==
    ASSUME RxInv, isDMAEnabled' = isDMAEnabled,
           \/ \E size \in 1 .. MaxRead : read(size)
           \/ getcharNoWait \/ status \/ StatusReset \/ suspendUntilDataReady \/ ReadTest \/ ReadCopy
    PROVE  RxInv' /\ Received' = Received
  <1> USE BlockFifoAssumption DEF RxInv
  <1>1. UNCHANGED <<rxRing, rxDma, rxLine>> /\ uartRxError' \in {uartRxError, 0}
    BY Zenon DEF read, getcharNoWait, status, StatusReset, suspendUntilDataReady, ReadTest, ReadCopy
  <1>2. Received' = Received
    BY ONLY <1>1, Zenon DEF Received, rxRing, rxDma, rxStream, rxLine
  <1>3. RxStream'
    <2>1. rpc' = "receive" => isDMAEnabled /\ ~DMAReceiveRunning
      BY Zenon DEF RxStream, read, getcharNoWait, status, StatusReset, suspendUntilDataReady, ReadTest,
             ReadCopy, reader
    <2> QED
      BY <1>1, <2>1, Zenon DEF RxStream, rxRing, rxDma, rxStream
  <1>4. blockToRead(rxRead, rxWrite) \in Nat /\ Len(got) \in Nat
        /\ rxRead + blockToRead(rxRead, rxWrite) <= FifoLen
    BY Blocks, LenProperties DEF RxType
  <1> DEFINE Rest ==
          /\ readCnt' \in Nat /\ got' \in Seq(Byte)
          /\ Len(got') <= readCnt' /\ readCnt' <= blockToRead(rxRead, rxWrite)
          /\ \A k \in 1 .. Len(got') : rxBuf[rxRead + k - 1] = got'[k]
          /\ rpc' # "copy" => got' = << >> /\ readCnt' = 0
  <1>5. ASSUME NEW size \in 1 .. MaxRead, read(size) PROVE Rest
    <2>1. rpc' = "copy" /\ got' = << >> /\ readCnt' = smaller(blockToRead(rxRead, rxWrite), size)
      BY <1>5, Zenon DEF read, reader, RxCopy
    <2> QED
      BY ONLY <1>4, <2>1, ReadAssumption DEF smaller
  <1>6. ASSUME getcharNoWait PROVE Rest
    <2>1. got = << >> /\ readCnt = 0 /\ got' = << >>
      BY <1>6, Zenon DEF getcharNoWait, reader, RxCopy
    <2>2. rxRead # rxWrite => blockToRead(rxRead, rxWrite) >= 1
      BY <1>4 DEF RxType, Index, blockToRead
    <2>3. rpc' # "copy" => readCnt' = 0
      BY ONLY <1>6, <2>1, Zenon DEF getcharNoWait, reader
    <2>4. readCnt' \in Nat /\ readCnt' <= blockToRead(rxRead, rxWrite)
      BY ONLY <1>4, <1>6, <2>1, <2>2 DEF getcharNoWait, reader
    <2>5. got' \in Seq(Byte) /\ Len(got') = 0
      BY ONLY <2>1
    <2>6. Len(got') <= readCnt' /\ \A k \in 1 .. Len(got') : rxBuf[rxRead + k - 1] = got'[k]
      BY ONLY <2>4, <2>5
    <2> QED
      BY ONLY <2>1, <2>3, <2>4, <2>5, <2>6, Zenon
  <1>7. ASSUME status \/ StatusReset \/ suspendUntilDataReady \/ ReadTest PROVE Rest
    <2>1. readCnt' = readCnt /\ got' = got /\ rpc # "copy"
      BY ONLY <1>7, Zenon DEF status, StatusReset, suspendUntilDataReady, ReadTest, reader
    <2>2. got = << >> /\ readCnt = 0
      BY <2>1, Zenon DEF RxCopy
    <2>3. got' \in Seq(Byte) /\ Len(got') = 0
      BY ONLY <2>1, <2>2
    <2>4. readCnt' \in Nat /\ readCnt' <= blockToRead(rxRead, rxWrite)
      BY ONLY <1>4, <2>1, <2>2
    <2>5. Len(got') <= readCnt' /\ \A k \in 1 .. Len(got') : rxBuf[rxRead + k - 1] = got'[k]
      BY ONLY <2>3, <2>4
    <2> QED
      BY ONLY <2>1, <2>2, <2>3, <2>4, <2>5, Zenon
  <1>8. ASSUME ReadCopy PROVE Rest
    <2> DEFINE n == Len(got)
               b == rxBuf[rxRead + n]
    <2>1. n < readCnt /\ readCnt' = readCnt /\ got' = Append(got, b) /\ rpc' = "copy"
      BY ONLY <1>8, Zenon DEF ReadCopy, reader
    <2>2. rxRead + n \in Index
      BY <1>4, <2>1 DEF RxType, RxCopy, Index
    <2>3. b \in Byte
      BY <2>2, Zenon DEF RxType
    <2>4. /\ got' \in Seq(Byte) /\ Len(got') = n + 1
          /\ \A k \in 1 .. n : got'[k] = got[k]
          /\ got'[n + 1] = b
      BY <2>1, <2>3, AppendProperties DEF RxType
    <2> HIDE DEF b
    <2>5. \A k \in 1 .. Len(got') : rxBuf[rxRead + k - 1] = got'[k]
      <3> TAKE k \in 1 .. Len(got')
      <3>1. CASE k \in 1 .. n
        BY <2>4, <3>1, Zenon DEF RxCopy
      <3>2. CASE k = n + 1
        <4>1. rxRead + k - 1 = rxRead + n
          BY ONLY <1>4, <3>2 DEF RxType, Index
        <4> QED
          BY ONLY <2>4, <3>2, <4>1, Zenon DEF b
      <3>3. k \in 1 .. n \/ k = n + 1
        BY ONLY <1>4, <2>4
      <3> QED
        BY ONLY <3>1, <3>2, <3>3, Zenon
    <2> QED
      <3>1. readCnt' \in Nat /\ readCnt' <= blockToRead(rxRead, rxWrite)
        BY <2>1, Zenon DEF RxType, RxCopy
      <3>2. Len(got') <= readCnt'
        BY <1>4, <2>1, <2>4 DEF RxType
      <3> QED
        BY ONLY <2>1, <2>4, <2>5, <3>1, <3>2, Zenon
  <1> HIDE DEF Rest
  <1>9. Rest
    BY <1>5, <1>6, <1>7, <1>8, Zenon
  <1> USE DEF Rest
  <1>10. RxType'
    <2>1. uartRxError' \in 0 .. UInt - 1
      BY <1>1, ReadAssumption DEF RxType
    <2> QED
      BY <1>1, <1>9, <2>1, Zenon DEF RxType, rxRing, rxDma, rxStream, rxLine
  <1>11. RxCopy'
    BY ONLY <1>1, <1>9, Zenon DEF RxCopy, rxRing
  <1> QED
    BY ONLY <1>2, <1>3, <1>10, <1>11, Zenon

(* The bytes in the receive buffer, the ones the stream has not yet        *)
(* published included.                                                     *)
Stored == elements(rxBuf, rxRead, Slot(rxWrite, RxMoved))

ReceivedLast ==
    /\ Stored \in Seq(Byte)
    /\ RDR = None => Received = Stored
    /\ RDR # None => RDR \in Byte /\ Received = Stored \o <<RDR>> /\ Received = Append(Stored, RDR)

(* The byte in the register is the last one of those received.             *)
LEMMA ReceivedRegister == RxInv => ReceivedLast
  <1> SUFFICES ASSUME RxInv PROVE ReceivedLast
    OBVIOUS
  <1>1. Stored \in Seq(Byte) /\ Received = Stored \o InRegister(RDR)
    BY ReceivedIs, Zenon DEF ReceivedForm, Stored
  <1>2. RDR = None => InRegister(RDR) = << >>
    BY Zenon DEF InRegister
  <1>3. RDR # None => RDR \in Byte /\ InRegister(RDR) = <<RDR>>
    BY Zenon DEF InRegister, RxInv, RxType
  <1>4. Stored \o << >> = Stored
    BY ONLY <1>1, ConcatEmptySeq, Zenon
  <1>5. RDR # None => Append(Stored, RDR) = Stored \o <<RDR>>
    BY ONLY <1>1, <1>3, AppendIsConcat, Zenon
  <1> QED
    BY <1>1, <1>2, <1>3, <1>4, <1>5, Zenon DEF ReceivedLast

(* The same after a step.                                                  *)
LEMMA ReceivedRegisterNext == RxInv' => ReceivedLast'
  BY ReceivedRegister, PTL

(* An error that is counted changes uartRxError.                           *)
LEMMA Counted ==
    ASSUME NEW e \in 0 .. UInt - 1
    PROVE  counted(e) \in 0 .. UInt - 1 /\ counted(e) # e
  BY ONLY ReadAssumption DEF counted

(* An overrun gives up the byte in the register, a byte arrives, or        *)
(* ReceiveTrigger stops the stream.                                        *)
LEMMA RxStepLine ==
    ASSUME RxInv, isDMAEnabled' = isDMAEnabled,
           OverrunIRQ \/ ReceiveTrigger \/ \E b \in Byte : Arrive(b)
    PROVE  RxInv' /\ ReceivedStep
  <1> USE BlockFifoAssumption DEF RxInv
  <1>1. /\ UNCHANGED <<rxRing, readerVars>>
        /\ UNCHANGED <<DMAReceiveRunning, DMAReceiveRunningSize, rxPos, rxLeft>>
    BY Zenon DEF OverrunIRQ, ReceiveTrigger, Arrive, rxDma, rxStream
  <1>2. RDR' \in Byte \cup {None} /\ uartRxError' \in 0 .. UInt - 1
    BY Counted, Zenon DEF RxType, OverrunIRQ, ReceiveTrigger, Arrive, rxLine
  <1>3. \/ rxEnabled' = rxEnabled /\ rxFinished' = rxFinished
        \/ rxEnabled /\ rxEnabled' = FALSE /\ rxFinished' = TRUE
    BY Zenon DEF OverrunIRQ, ReceiveTrigger, Arrive, rxDma, rxStream
  <1>4. rxEnabled' \in BOOLEAN /\ rxFinished' \in BOOLEAN
    BY <1>3, Zenon DEF RxType
  <1>5. RxType'
    BY <1>1, <1>2, <1>4, Zenon DEF RxType, rxRing, readerVars
  <1>6. RxCopy'
    BY <1>1, Zenon DEF RxCopy, rxRing, readerVars
  <1>7. RxStream'
    BY <1>1, <1>3 DEF RxStream, RxType, rxRing, readerVars
  <1>8. RxInv'
    BY ONLY <1>5, <1>6, <1>7
  <1>9. Stored' = Stored
    BY ONLY <1>1, Zenon DEF Stored, RxMoved, rxRing
  <1>10. ReceivedLast /\ ReceivedLast'
    BY <1>8, ReceivedRegister, ReceivedRegisterNext, Zenon
  <1>11. CASE OverrunIRQ
    <2>1. RDR' = None /\ uartRxError' # uartRxError
      BY <1>11, Counted, Zenon DEF OverrunIRQ, RxType
    <2> QED
      BY ONLY <1>8, <1>9, <1>10, <2>1, Zenon DEF ReceivedStep, ReceivedLast
  <1>12. CASE ReceiveTrigger
    BY <1>8, <1>9, <1>10, <1>12 DEF ReceivedStep, ReceivedLast, ReceiveTrigger, rxLine
  <1>13. ASSUME NEW b \in Byte, Arrive(b) PROVE ReceivedStep
    <2>1. b # None
      BY ONLY ByteAssumption, Zenon
    <2> QED
      BY <1>9, <1>10, <1>13, <2>1, Zenon DEF ReceivedStep, ReceivedLast, Arrive
  <1> QED
    BY <1>8, <1>11, <1>12, <1>13, Zenon

(* The reader starts to receive again: what is stored stays the same.      *)
LEMMA RxStepReceive ==
    ASSUME RxInv, isDMAEnabled' = isDMAEnabled, ReadReceive
    PROVE  RxInv' /\ Received' = Received
  <1> USE BlockFifoAssumption DEF RxInv
  <1>1. /\ isDMAEnabled /\ ~DMAReceiveRunning /\ ~rxEnabled /\ ~rxFinished
        /\ got = << >> /\ readCnt = 0 /\ rpc' = "idle"
        /\ UNCHANGED <<rxBuf, rxRead, rxWrite, rxFinished, RDR, ORE, readCnt, got>>
    BY Zenon DEF ReadReceive, reader, RxStream, RxCopy, RxType, rxRing, rxLine
  <1>2. RceiveIntoRxBufWithDMA(rxRead, rxWrite) /\ rxRead \in Index /\ rxWrite \in Index
    BY Zenon DEF ReadReceive, RxType
  <1>3. /\ uartRxError' \in 0 .. UInt - 1
        /\ DMAReceiveRunning' \in BOOLEAN
        /\ DMAReceiveRunning' => /\ DMAReceiveRunningSize' \in Nat
                                 /\ DMAReceiveRunningSize' <= blockToWrite(rxRead, rxWrite)
                                 /\ rxLeft' = DMAReceiveRunningSize' /\ rxLeft' > 0
                                 /\ rxPos' = rxWrite /\ rxEnabled' = TRUE
        /\ ~DMAReceiveRunning' => UNCHANGED <<DMAReceiveRunningSize, rxEnabled, rxPos, rxLeft>>
    BY <1>2, StartReceive, Zenon DEF RxType
  <1>4. RxType'
    <2>1. rxEnabled' \in BOOLEAN
      BY <1>3, Zenon DEF RxType
    <2>2. DMAReceiveRunningSize' \in Nat /\ rxPos' \in Nat /\ rxLeft' \in Nat
      BY <1>3 DEF RxType, Index
    <2> QED
      BY <1>1, <1>3, <2>1, <2>2, Zenon DEF RxType
  <1>5. RxCopy'
    BY <1>1, Zenon DEF RxCopy
  <1>6. RxStream'
    <2>1. DMAReceiveRunning' => /\ rxLeft' <= DMAReceiveRunningSize'
                                /\ rxPos' = rxWrite + DMAReceiveRunningSize' - rxLeft'
      BY ONLY <1>2, <1>3 DEF Index
    <2> QED
      BY <1>1, <1>3, <2>1 DEF RxStream
  <1>7. RxMoved = 0 /\ RxMoved' = 0
    BY ONLY <1>1, <1>3 DEF RxMoved
  <1>8. Received' = Received
    BY <1>1, <1>4, <1>5, <1>6, <1>7, ReceivedIs, ReceivedNext DEF ReceivedForm
  <1> QED
    BY ONLY <1>4, <1>5, <1>6, <1>8, Zenon

(* The end of a block: what the stream has stored is published, once.      *)
LEMMA RxStepFinished ==
    ASSUME RxInv, isDMAEnabled' = isDMAEnabled, DMAReceiveFinishedHandler
    PROVE  RxInv' /\ Received' = Received
  <1> USE BlockFifoAssumption DEF RxInv
  <1> DEFINE n == DMAReceiveRunningSize - rxLeft
  <1>1. /\ isDMAEnabled /\ DMAReceiveRunning /\ ~rxEnabled /\ rxFinished' = FALSE
        /\ rpc # "receive" /\ n = RxMoved
        /\ UNCHANGED <<rxBuf, rxRead, RDR, ORE, readCnt, got>>
    BY Zenon DEF DMAReceiveFinishedHandler, RxStream, RxType, RxMoved, rxLine
  <1>2. ReceivedForm
    BY ReceivedIs, Zenon
  <1>3. n \in Nat /\ n \in 0 .. FifoLen - 1 /\ n <= FifoLen - 1 - Count(rxRead, rxWrite)
    <2>1. /\ blockToWrite(rxRead, rxWrite) \in 0 .. FifoLen - 1 - Count(rxRead, rxWrite)
          /\ Count(rxRead, rxWrite) \in 0 .. FifoLen - 1
      BY Blocks, Zenon DEF RxType
    <2>2. RxMoved \in 0 .. blockToWrite(rxRead, rxWrite)
      BY ONLY <1>2, Zenon DEF ReceivedForm
    <2> QED
      BY <1>1, <2>1, <2>2
  <1>4. rxWrite' = Slot(rxWrite, n) /\ rxWrite' \in Index
    <2>1. rxWrite' = advanceIndexEx(rxWrite, n)
      BY Zenon DEF DMAReceiveFinishedHandler
    <2> QED
      BY <1>3, <2>1, Advance, Zenon DEF RxType
  <1>5. blockToRead(rxRead, rxWrite') >= blockToRead(rxRead, rxWrite)
    BY <1>3, <1>4, BlocksGrow, Zenon DEF RxType
  <1>6. RceiveIntoRxBufWithDMA(rxRead, rxWrite') /\ rxRead \in Index
    BY Zenon DEF DMAReceiveFinishedHandler, RxType
  <1> HIDE DEF n
  <1>7. /\ uartRxError' \in 0 .. UInt - 1
        /\ DMAReceiveRunning' \in BOOLEAN
        /\ DMAReceiveRunning' => /\ DMAReceiveRunningSize' \in Nat
                                 /\ DMAReceiveRunningSize' <= blockToWrite(rxRead, rxWrite')
                                 /\ rxLeft' = DMAReceiveRunningSize' /\ rxLeft' > 0
                                 /\ rxPos' = rxWrite' /\ rxEnabled' = TRUE
        /\ ~DMAReceiveRunning' => UNCHANGED <<DMAReceiveRunningSize, rxEnabled, rxPos, rxLeft>>
    BY <1>4, <1>6, StartReceive, Zenon DEF RxType
  <1>8. rpc' \in {rpc, "idle"} /\ (rpc' # "copy" => rpc # "copy")
    BY Zenon DEF DMAReceiveFinishedHandler, upCallDataReady
  <1>9. RxType'
    <2>1. rxEnabled' \in BOOLEAN /\ rxFinished' \in BOOLEAN
      BY <1>1, <1>7, Zenon DEF RxType
    <2>2. DMAReceiveRunningSize' \in Nat /\ rxPos' \in Nat /\ rxLeft' \in Nat
      BY <1>4, <1>7 DEF RxType, Index
    <2> QED
      BY <1>1, <1>4, <1>7, <2>1, <2>2 DEF RxType
  <1>10. RxCopy'
    <2>1. blockToRead(rxRead, rxWrite') \in Nat /\ blockToRead(rxRead, rxWrite) \in Nat
      BY <1>4, <1>6, Blocks DEF RxType
    <2>2. readCnt <= blockToRead(rxRead, rxWrite')
      BY <1>5, <2>1 DEF RxCopy, RxType
    <2> QED
      BY <1>1, <1>8, <2>2, Zenon DEF RxCopy
  <1>11. RxStream'
    <2>1. DMAReceiveRunning' => /\ rxLeft' <= DMAReceiveRunningSize'
                                /\ rxPos' = rxWrite' + DMAReceiveRunningSize' - rxLeft'
      BY ONLY <1>4, <1>7 DEF Index
    <2> QED
      BY <1>1, <1>7, <1>8, <2>1 DEF RxStream
  <1>12. RxMoved' = 0
    BY ONLY <1>7 DEF RxMoved
  <1>13. Slot(rxWrite', 0) = rxWrite'
    BY <1>4 DEF Slot, Index
  <1>14. Received' = Received
    <2>1. ReceivedForm'
      BY ONLY <1>9, <1>10, <1>11, ReceivedNext, Zenon
    <2> QED
      BY ONLY <1>1, <1>2, <1>4, <1>12, <1>13, <2>1 DEF ReceivedForm
  <1> QED
    BY ONLY <1>9, <1>10, <1>11, <1>14, Zenon

(* readConcluded: the bytes that were copied are the first ones received.  *)
LEMMA RxStepConcluded ==
    ASSUME RxInv, isDMAEnabled' = isDMAEnabled, readConcluded
    PROVE  RxInv' /\ Received = got \o Received'
  <1> USE BlockFifoAssumption DEF RxInv
  <1> DEFINE e == Slot(rxWrite, RxMoved)
             n == Len(got)
             R == InRegister(RDR)
             E == elements(rxBuf, rxRead', e)
  <1>1. /\ rpc' = "test" /\ readCnt' = 0 /\ got' = << >> /\ readCnt = n
        /\ rxRead' = advanceIndexEx(rxRead, n)
        /\ UNCHANGED <<rxBuf, rxWrite, rxDma, RDR, ORE, uartRxError>>
    BY Zenon DEF readConcluded, reader, rxLine
  <1>2. UNCHANGED <<DMAReceiveRunning, DMAReceiveRunningSize, rxEnabled, rxPos, rxLeft, rxFinished>>
    BY ONLY <1>1, Zenon DEF rxDma, rxStream
  <1>3. /\ n \in Nat /\ n <= Count(rxRead, rxWrite) /\ Count(rxRead, rxWrite) \in 0 .. FifoLen - 1
        /\ n \in 0 .. FifoLen - 1 /\ n <= FifoLen - 1 /\ rxRead + n <= FifoLen
    <2>1. /\ blockToRead(rxRead, rxWrite) \in 0 .. Count(rxRead, rxWrite)
          /\ Count(rxRead, rxWrite) \in 0 .. FifoLen - 1
          /\ rxRead + blockToRead(rxRead, rxWrite) <= FifoLen
      BY Blocks, Zenon DEF RxType
    <2>2. n \in Nat /\ n <= blockToRead(rxRead, rxWrite)
      BY <1>1, LenProperties, Zenon DEF RxType, RxCopy
    <2> QED
      BY <2>1, <2>2 DEF RxType, Index
  <1>4. rxRead' = Slot(rxRead, n) /\ rxRead' \in Index
    BY <1>1, <1>3, Advance, Zenon DEF RxType
  <1>5. blockToWrite(rxRead', rxWrite) >= blockToWrite(rxRead, rxWrite)
    BY <1>3, <1>4, BlocksGrow, Zenon DEF RxType
  <1>6. RxType'
    <2>1. got' \in Seq(Byte)
      BY ONLY <1>1
    <2> QED
      BY <1>1, <1>2, <1>4, <2>1, Zenon DEF RxType
  <1>7. RxCopy'
    <2>1. Len(got') = 0 /\ blockToRead(rxRead', rxWrite) \in Nat
      BY <1>1, <1>4, Blocks DEF RxType
    <2> QED
      BY ONLY <1>1, <2>1 DEF RxCopy
  <1>8. RxStream'
    <2>1. blockToWrite(rxRead', rxWrite) \in Nat /\ blockToWrite(rxRead, rxWrite) \in Nat
      BY <1>4, Blocks DEF RxType
    <2>2. DMAReceiveRunning => DMAReceiveRunningSize <= blockToWrite(rxRead', rxWrite)
      BY <1>5, <2>1 DEF RxStream, RxType
    <2> QED
      BY <1>1, <1>2, <2>2, Zenon DEF RxStream
  <1>9. e \in Index /\ Received = elements(rxBuf, rxRead, e) \o R /\ R \in Seq(Byte)
        /\ RxMoved \in Nat /\ Count(rxRead, e) = Count(rxRead, rxWrite) + RxMoved
    BY ReceivedIs DEF ReceivedForm
  <1>10. Received' = E \o R
    <2>1. RxMoved' = RxMoved
      BY ONLY <1>2, Zenon DEF RxMoved
    <2> QED
      BY ONLY <1>1, <1>6, <1>7, <1>8, <2>1, ReceivedNext DEF ReceivedForm
  <1>11. n \in 0 .. Count(rxRead, e)
    BY ONLY <1>3, <1>9
  <1>12. \A k \in 1 .. n : rxBuf[Slot(rxRead, k - 1)] = got[k]
    <2>1. \A k \in 1 .. n : Slot(rxRead, k - 1) = rxRead + k - 1
      BY <1>3 DEF Slot, RxType, Index
    <2> QED
      BY <2>1, Zenon DEF RxCopy
  <1>13. elements(rxBuf, rxRead, Slot(rxRead, n)) = got
    <2>1. rxBuf \in [Index -> Byte] /\ rxRead \in Index /\ got \in Seq(Byte) /\ Len(got) <= FifoLen - 1
      BY <1>3, Zenon DEF RxType
    <2> QED
      BY ONLY <1>12, <2>1, BlockHolds, Zenon
  <1> HIDE DEF e, n, R
  <1>14. elements(rxBuf, rxRead, e) = got \o E
    <2>1. elements(rxBuf, rxRead, e)
              = elements(rxBuf, rxRead, Slot(rxRead, n)) \o elements(rxBuf, Slot(rxRead, n), e)
      <3>1. rxBuf \in [Index -> Byte] /\ rxRead \in Index /\ e \in Index
        BY <1>9, Zenon DEF RxType
      <3> QED
        BY ONLY <1>11, <3>1, Split, Zenon
    <2> QED
      BY ONLY <1>4, <1>13, <2>1, Zenon
  <1>15. E \in Seq(Byte) /\ got \in Seq(Byte)
    BY <1>4, <1>9, Elements, Zenon DEF RxType
  <1> HIDE DEF E
  <1>16. (got \o E) \o R = got \o (E \o R)
    <2>1. R \in Seq(Byte)
      BY ONLY <1>9, Zenon
    <2> QED
      BY ONLY <1>15, <2>1, ConcatAssociative
  <1> QED
    BY ONLY <1>6, <1>7, <1>8, <1>9, <1>10, <1>14, <1>16

(* What read is copying is not touched when a byte is stored behind the    *)
(* contents.                                                               *)
LEMMA CopyKept ==
    ASSUME RxInv, NEW e \in Index, Count(rxRead, e) >= Count(rxRead, rxWrite), NEW ring,
           \A k \in 0 .. Count(rxRead, e) - 1 : ring[Slot(rxRead, k)] = rxBuf[Slot(rxRead, k)]
    PROVE  \A k \in 1 .. Len(got) : ring[rxRead + k - 1] = got[k]
  <1> USE BlockFifoAssumption DEF RxInv
  <1>1. /\ blockToRead(rxRead, rxWrite) \in Nat /\ Count(rxRead, e) \in Nat
        /\ blockToRead(rxRead, rxWrite) <= Count(rxRead, e)
        /\ rxRead + blockToRead(rxRead, rxWrite) <= FifoLen
    <2>1. /\ blockToRead(rxRead, rxWrite) \in 0 .. Count(rxRead, rxWrite)
          /\ Count(rxRead, rxWrite) \in 0 .. FifoLen - 1
          /\ rxRead + blockToRead(rxRead, rxWrite) <= FifoLen
      BY Blocks, Zenon DEF RxType
    <2>2. Count(rxRead, e) \in 0 .. FifoLen - 1
      BY Blocks, Zenon DEF RxType
    <2> QED
      BY <2>1, <2>2
  <1>2. Len(got) \in Nat /\ Len(got) <= blockToRead(rxRead, rxWrite)
    BY <1>1, LenProperties DEF RxType, RxCopy
  <1> TAKE k \in 1 .. Len(got)
  <1>3. k - 1 \in 0 .. Count(rxRead, e) - 1
    BY ONLY <1>1, <1>2
  <1>4. Slot(rxRead, k - 1) = rxRead + k - 1
    BY <1>1, <1>2 DEF Slot, RxType, Index
  <1> QED
    BY <1>3, <1>4, Zenon DEF RxCopy

(* The interrupt stores the byte, or gives it up when the ring is full.    *)
LEMMA RxStepRXNE ==
    ASSUME RxInv, isDMAEnabled' = isDMAEnabled, RXNEIRQ
    PROVE  RxInv' /\ ReceivedStep
  <1> USE BlockFifoAssumption DEF RxInv
  <1>1. /\ ~isDMAEnabled /\ ~DMAReceiveRunning /\ RDR \in Byte /\ RDR # None /\ RDR' = None
        /\ UNCHANGED <<rxRead, rxDma, ORE, readCnt, got>>
    BY Zenon DEF RXNEIRQ, RxStream, RxType
  <1>2. UNCHANGED <<DMAReceiveRunning, DMAReceiveRunningSize, rxEnabled, rxPos, rxLeft, rxFinished>>
    BY ONLY <1>1, Zenon DEF rxDma, rxStream
  <1>3. rpc # "receive" /\ rpc' \in {rpc, "idle"} /\ (rpc' # "copy" => rpc # "copy")
    BY <1>1, Zenon DEF RXNEIRQ, upCallDataReady, RxStream
  <1>4. RxMoved = 0 /\ RxMoved' = 0
    BY ONLY <1>1, <1>2, Zenon DEF RxMoved
  <1>5. RxStream'
    BY <1>1, <1>2, <1>3, Zenon DEF RxStream
  <1>6. ReceivedLast
    BY ReceivedRegister, Zenon
  <1>7. CASE advanceIndex(rxWrite) # rxRead
    <2>1. /\ rxBuf' = [rxBuf EXCEPT ![rxWrite] = RDR]
          /\ rxWrite' = advanceIndex(rxWrite) /\ uartRxError' = uartRxError
      BY <1>7, Zenon DEF RXNEIRQ
    <2>2. /\ Count(rxRead, rxWrite) + 1 <= FifoLen - 1 /\ 1 <= FifoLen - 1 - Count(rxRead, rxWrite)
          /\ advanceIndex(rxWrite) = Slot(rxWrite, 1) /\ Slot(rxWrite, 1) \in Index
          /\ Slot(rxWrite, 0) = rxWrite /\ Slot(Slot(rxWrite, 1), 0) = Slot(rxWrite, 1)
      BY <1>7 DEF RxType, Index, Count, Slot, advanceIndex
    <2>3. /\ rxBuf' \in [Index -> Byte]
          /\ \A k \in 0 .. Count(rxRead, rxWrite) - 1 : rxBuf'[Slot(rxRead, k)] = rxBuf[Slot(rxRead, k)]
          /\ elements(rxBuf', rxRead, rxWrite') = elements(rxBuf, rxRead, rxWrite) \o <<RDR>>
      <3>1. rxBuf \in [Index -> Byte] /\ rxRead \in Index /\ rxWrite \in Index
        BY Zenon DEF RxType
      <3>2. /\ rxBuf' \in [Index -> Byte] /\ rxBuf'[rxWrite] = RDR
            /\ \A i \in Index : i # rxWrite => rxBuf'[i] = rxBuf[i]
        BY ONLY <1>1, <2>1, <3>1, Zenon
      <3>3. /\ \A k \in 0 .. Count(rxRead, rxWrite) - 1 : rxBuf'[Slot(rxRead, k)] = rxBuf[Slot(rxRead, k)]
            /\ elements(rxBuf', rxRead, Slot(rxWrite, 1)) = elements(rxBuf, rxRead, rxWrite) \o <<RDR>>
        <4>1. RDR \in Byte
          BY ONLY <1>1, Zenon
        <4>2. Count(rxRead, rxWrite) + 1 <= FifoLen - 1
          BY ONLY <2>2, Zenon
        <4> QED
          BY ONLY <3>1, <3>2, <4>1, <4>2, StoreByte
      <3> QED
        BY ONLY <2>1, <2>2, <3>2, <3>3, Zenon
    <2>4. RxType'
      BY <1>1, <1>2, <2>1, <2>2, <2>3 DEF RxType
    <2>5. RxCopy'
      <3>1. blockToRead(rxRead, rxWrite') >= blockToRead(rxRead, rxWrite)
        BY <2>1, <2>2, BlocksGrow, Zenon DEF RxType
      <3>2. blockToRead(rxRead, rxWrite') \in Nat /\ blockToRead(rxRead, rxWrite) \in Nat
        BY <2>1, <2>2, Blocks DEF RxType
      <3>3. readCnt <= blockToRead(rxRead, rxWrite')
        BY <3>1, <3>2 DEF RxType, RxCopy
      <3>4. \A k \in 1 .. Len(got) : rxBuf'[rxRead + k - 1] = got[k]
        <4>1. Count(rxRead, rxWrite) >= Count(rxRead, rxWrite) /\ rxWrite \in Index
          BY Blocks DEF RxType
        <4> QED
          BY <2>3, <4>1, CopyKept, Zenon
      <3> QED
        BY <1>1, <1>3, <3>3, <3>4, Zenon DEF RxCopy
    <2>6. ReceivedLast'
      BY ONLY <1>5, <2>4, <2>5, ReceivedRegisterNext, Zenon
    <2>7. Received' = Received
      BY <1>1, <1>4, <1>6, <2>1, <2>2, <2>3, <2>6, ZenonT(20) DEF ReceivedLast, Stored
    <2> QED
      BY ONLY <1>5, <2>4, <2>5, <2>7 DEF ReceivedStep
  <1>8. CASE advanceIndex(rxWrite) = rxRead
    <2>1. UNCHANGED <<rxBuf, rxWrite>> /\ uartRxError' = counted(uartRxError)
      BY <1>8, Zenon DEF RXNEIRQ
    <2>2. uartRxError' \in 0 .. UInt - 1 /\ uartRxError' # uartRxError
      BY <2>1, Counted, Zenon DEF RxType
    <2>3. RxType'
      BY <1>1, <1>2, <2>1, <2>2, Zenon DEF RxType
    <2>4. RxCopy'
      BY <1>1, <1>3, <2>1, Zenon DEF RxCopy
    <2>5. ReceivedLast'
      BY ONLY <1>5, <2>3, <2>4, ReceivedRegisterNext, Zenon
    <2>6. Stored' = Stored
      BY ONLY <1>1, <1>4, <2>1, Zenon DEF Stored
    <2> QED
      BY ONLY <1>1, <1>5, <1>6, <2>2, <2>3, <2>4, <2>5, <2>6 DEF ReceivedStep, ReceivedLast
  <1> QED
    BY ONLY <1>7, <1>8, Zenon

(* The stream stores the byte behind those it has stored already.          *)
LEMMA RxStepStore ==
    ASSUME RxInv, isDMAEnabled' = isDMAEnabled, DMAStore
    PROVE  RxInv' /\ Received' = Received
  <1> USE BlockFifoAssumption DEF RxInv
  <1> DEFINE e == Slot(rxWrite, RxMoved)
             n == RxMoved
  <1>1. /\ DMAReceiveRunning /\ isDMAEnabled /\ rxLeft > 0 /\ ~rxFinished
        /\ RDR \in Byte /\ RDR # None /\ RDR' = None
        /\ UNCHANGED <<rxRead, rxWrite, DMAReceiveRunning, DMAReceiveRunningSize,
                       ORE, uartRxError, rpc, readCnt, got>>
        /\ rxBuf' = [rxBuf EXCEPT ![rxPos] = RDR]
        /\ rxPos' = rxPos + 1 /\ rxLeft' = rxLeft - 1
        /\ rxEnabled' = (rxLeft > 1) /\ rxFinished' = (rxLeft = 1)
    BY Zenon DEF DMAStore, RxStream, RxType, readerVars
  <1>2. /\ blockToWrite(rxRead, rxWrite) \in 0 .. FifoLen - 1 - Count(rxRead, rxWrite)
        /\ Count(rxRead, rxWrite) \in 0 .. FifoLen - 1
        /\ rxWrite + blockToWrite(rxRead, rxWrite) <= FifoLen
    BY Blocks, Zenon DEF RxType
  <1>3. n = DMAReceiveRunningSize - rxLeft /\ n \in Nat /\ n + 1 <= blockToWrite(rxRead, rxWrite)
        /\ RxMoved' = n + 1
    BY <1>1, <1>2 DEF RxMoved, RxType, RxStream
  <1>4. rxPos = rxWrite + n /\ rxPos \in Index
    BY <1>1, <1>2, <1>3 DEF RxStream, RxType, Index
  <1>5. rxPos = e /\ Slot(rxWrite, n + 1) = Slot(e, 1)
    BY <1>2, <1>3, <1>4 DEF Slot, RxType, Index
  <1>6. Count(rxRead, e) = Count(rxRead, rxWrite) + n
    BY ReceivedIs, Zenon DEF ReceivedForm
  <1>7. e \in Index /\ Count(rxRead, e) + 1 <= FifoLen - 1 /\ Count(rxRead, e) >= Count(rxRead, rxWrite)
    BY <1>2, <1>3, <1>4, <1>5, <1>6
  <1> HIDE DEF e, n
  <1>8. /\ rxBuf' \in [Index -> Byte]
        /\ \A k \in 0 .. Count(rxRead, e) - 1 : rxBuf'[Slot(rxRead, k)] = rxBuf[Slot(rxRead, k)]
        /\ elements(rxBuf', rxRead, Slot(e, 1)) = elements(rxBuf, rxRead, e) \o <<RDR>>
    <2>1. rxBuf \in [Index -> Byte] /\ rxRead \in Index
      BY Zenon DEF RxType
    <2>2. rxBuf' = [rxBuf EXCEPT ![e] = RDR] /\ RDR \in Byte
      BY ONLY <1>1, <1>5, Zenon
    <2>3. /\ rxBuf' \in [Index -> Byte] /\ rxBuf'[e] = RDR
          /\ \A i \in Index : i # e => rxBuf'[i] = rxBuf[i]
      BY ONLY <1>7, <2>1, <2>2, Zenon
    <2>4. RDR \in Byte
      BY ONLY <2>2, Zenon
    <2> QED
      BY ONLY <1>7, <2>1, <2>3, <2>4, StoreByte
  <1>9. RxType'
    <2>1. rxPos' \in Nat /\ rxLeft' \in Nat
      BY <1>1 DEF RxType
    <2>2. rxEnabled' \in BOOLEAN /\ rxFinished' \in BOOLEAN
      BY ONLY <1>1
    <2> QED
      BY <1>1, <1>8, <2>1, <2>2, Zenon DEF RxType
  <1>10. RxCopy'
    <2>1. \A k \in 1 .. Len(got) : rxBuf'[rxRead + k - 1] = got[k]
      BY <1>7, <1>8, CopyKept, Zenon
    <2> QED
      BY <1>1, <2>1, Zenon DEF RxCopy
  <1>11. RxStream'
    <2>1. /\ rxLeft' <= DMAReceiveRunningSize
          /\ rxPos' = rxWrite + DMAReceiveRunningSize - rxLeft'
      BY <1>1 DEF RxStream, RxType, Index
    <2>2. rxEnabled' => rxLeft' > 0 /\ rxLeft # 1
      BY <1>1 DEF RxType
    <2>3. rxEnabled' => ~rxFinished'
      BY <1>1, <2>2, Zenon
    <2> QED
      BY <1>1, <2>1, <2>2, <2>3, Zenon DEF RxStream
  <1>12. ReceivedLast /\ ReceivedLast'
    BY <1>9, <1>10, <1>11, ReceivedRegister, ReceivedRegisterNext, Zenon
  <1>13. Stored = elements(rxBuf, rxRead, e)
    BY Zenon DEF Stored, e
  <1>14. Stored' = elements(rxBuf', rxRead, Slot(e, 1))
    BY ONLY <1>1, <1>3, <1>5, Zenon DEF Stored
  <1>15. Received' = Received
    BY <1>1, <1>8, <1>12, <1>13, <1>14, Zenon DEF ReceivedLast
  <1> QED
    BY ONLY <1>9, <1>10, <1>11, <1>15, Zenon

(* Every step of the receiving side.                                       *)
LEMMA RxStep ==
    ASSUME RxInv, isDMAEnabled' = isDMAEnabled, Receive \/ ReceiveIRQ
    PROVE  RxInv' /\ ReceivedStep
  <1>1. CASE \/ \E size \in 1 .. MaxRead : read(size)
             \/ getcharNoWait \/ status \/ StatusReset \/ suspendUntilDataReady \/ ReadTest \/ ReadCopy
    BY <1>1, RxStepReader, Zenon DEF ReceivedStep
  <1>2. CASE OverrunIRQ \/ ReceiveTrigger \/ \E b \in Byte : Arrive(b)
    BY <1>2, RxStepLine, Zenon
  <1>3. CASE ReadReceive
    BY <1>3, RxStepReceive, Zenon DEF ReceivedStep
  <1>4. CASE DMAReceiveFinishedHandler
    BY <1>4, RxStepFinished, Zenon DEF ReceivedStep
  <1>5. CASE readConcluded
    BY <1>5, RxStepConcluded, Zenon DEF ReceivedStep
  <1>6. CASE RXNEIRQ
    BY <1>6, RxStepRXNE, Zenon
  <1>7. CASE DMAStore
    BY <1>7, RxStepStore, Zenon DEF ReceivedStep
  <1> QED
    BY <1>1, <1>2, <1>3, <1>4, <1>5, <1>6, <1>7, Zenon DEF Receive, ReceiveIRQ, ReadStep

(* The steps of the transmitting side leave the receiving one alone.       *)
LEMMA RxNext == RxInv /\ [Next]_vars => RxInv' /\ [ReceivedStep]_rxVars
  <1> SUFFICES ASSUME RxInv, [Next]_vars PROVE RxInv' /\ [ReceivedStep]_rxVars
    OBVIOUS
  <1>1. CASE Receives /\ (Receive \/ ReceiveIRQ)
    BY <1>1, RxStep, Zenon DEF Receives
  <1>2. CASE UNCHANGED <<isDMAEnabled, rxVars>>
    <2>1. UNCHANGED <<isDMAEnabled, rxRing, rxDma, rxLine, uartRxError, readerVars>>
      BY ONLY <1>2, Zenon DEF rxVars
    <2>2. RxType' /\ RxCopy' /\ RxStream'
      BY <2>1, Zenon DEF RxInv, RxType, RxCopy, RxStream, rxRing, rxDma, rxStream, rxLine, readerVars
    <2> QED
      BY ONLY <1>2, <2>2, Zenon DEF RxInv
  <1> QED
    BY <1>1, <1>2, Zenon DEF Next, UARTIRQHandler, Transmits, vars

(* The bytes that arrive are read once each and in their order, and one    *)
(* that is given up is the newest and is counted, for every size of ring,  *)
(* of DMA blocks and of calls (hal_uart.cpp:515, 833, 902).                *)
THEOREM ReceivedOnceInOrder == Spec => ReceivedInOrder
  <1>1. Init => RxInv
    BY ONLY RxInvInit, Zenon
  <1>2. RxInv /\ [Next]_vars => RxInv' /\ [ReceivedStep]_rxVars
    BY ONLY RxNext, Zenon
  <1>3. ReceivedInOrder <=> [][ReceivedStep]_rxVars
    BY Zenon DEF ReceivedInOrder, ReceivedStep
  <1> QED
    BY <1>1, <1>2, <1>3, PTL DEF Spec
=============================================================================
